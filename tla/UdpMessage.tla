----------------------------- MODULE UdpMessage -----------------------------
(***************************************************************************)
(* The view udp_message.rs lays over the bytes of a UDP message.           *)
(*                                                                         *)
(* Lengths and offsets count 32-bit words, the unit of every length the    *)
(* header declares.  One to three trailing bytes cannot be told from none: *)
(* they are shorter than a header, so the code stops there without         *)
(* counting anything, as it does at the end of the content.                *)
(*                                                                         *)
(* A header is a record of what the accessors of UdpMessageView return:    *)
(*   marker               words 0 and 1 start with the marker bytes        *)
(*   total_length_words   header and data, as declared in word 8           *)
(*   header_length_words  the header alone, as declared in word 1          *)
(* and further fields that only DataProcessing reads.  Two views the code  *)
(* makes never share a header word, so one record per offset loses nothing.*)
(***************************************************************************)
EXTENDS Integers, Sequences

CONSTANTS
  MINIMUM_HEADER_LEN_WORDS,  \* 14: the fixed part and the checksum word
  Headers                    \* what may stand at an offset of a datagram

ASSUME HeaderAssumption ==
  /\ MINIMUM_HEADER_LEN_WORDS \in Nat \ {0}
  /\ \A h \in Headers : /\ h.marker \in BOOLEAN
                        /\ h.total_length_words \in Nat
                        /\ h.header_length_words \in Nat

-----------------------------------------------------------------------------
(* Faulty variants of the definitions of this project (Bad...) stand before *)
(* the definition they vary.  Nothing uses them: put in its place, each     *)
(* breaks a property, which shows that the property constrains the code.    *)
BadNewViewNoUpperLimit(h, content_len) ==
  IF content_len < MINIMUM_HEADER_LEN_WORDS THEN "ContentTooShort"
  ELSE IF ~h.marker THEN "MissingHeaderMarker"
  ELSE IF h.total_length_words < MINIMUM_HEADER_LEN_WORDS
         THEN "DeclaredLengthTooShort"
  ELSE "Ok"

BadNewViewNoLowerLimit(h, content_len) ==
  IF content_len < MINIMUM_HEADER_LEN_WORDS THEN "ContentTooShort"
  ELSE IF ~h.marker THEN "MissingHeaderMarker"
  ELSE IF h.total_length_words > content_len THEN "DeclaredLengthTooLong"
  ELSE "Ok"

BadNewViewExclusiveLimit(h, content_len) ==
  IF content_len < MINIMUM_HEADER_LEN_WORDS THEN "ContentTooShort"
  ELSE IF ~h.marker THEN "MissingHeaderMarker"
  ELSE IF h.total_length_words < MINIMUM_HEADER_LEN_WORDS
         THEN "DeclaredLengthTooShort"
  ELSE IF h.total_length_words >= content_len THEN "DeclaredLengthTooLong"
  ELSE "Ok"

(* UdpMessageView::new, in the order of its early returns. *)
NewView(h, content_len) ==
  IF content_len < MINIMUM_HEADER_LEN_WORDS THEN "ContentTooShort"
  ELSE IF ~h.marker THEN "MissingHeaderMarker"
  ELSE IF h.total_length_words < MINIMUM_HEADER_LEN_WORDS
         THEN "DeclaredLengthTooShort"
  ELSE IF h.total_length_words > content_len THEN "DeclaredLengthTooLong"
  ELSE "Ok"

BadBoardParametersInBounds(h, content_len) == h.header_length_words - 1 <= content_len

(* board_specific_parameters() slices from the last fixed word to the word *)
(* before the checksum, data_bytes() from the end of the header to the end *)
(* of the message.  A slice whose bounds are out of order, or end past the *)
(* content, panics.                                                        *)
BoardParametersInBounds(h, content_len) ==
  /\ MINIMUM_HEADER_LEN_WORDS <= h.header_length_words
  /\ h.header_length_words - 1 <= content_len

DataBytesInBounds(h) == h.header_length_words <= h.total_length_words

BoardParameterWords(h) == h.header_length_words - MINIMUM_HEADER_LEN_WORDS

DataWords(h) == h.total_length_words - h.header_length_words

-----------------------------------------------------------------------------
(* Reference: whether a whole message stands at word o of the datagram d,  *)
(* as a sender would lay one out: marked, no shorter than a header, and    *)
(* all there.                                                              *)
WholeMessageAt(d, o) ==
  /\ o < Len(d)
  /\ d[o + 1].marker
  /\ MINIMUM_HEADER_LEN_WORDS <= d[o + 1].total_length_words
  /\ o + d[o + 1].total_length_words <= Len(d)
=============================================================================
