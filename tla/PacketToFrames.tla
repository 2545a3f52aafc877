--------------------------- MODULE PacketToFrames ---------------------------
(***************************************************************************)
(* One datagram at a time: udp_process receives it into a buffer it keeps  *)
(* for its whole life, and packet_to_frames splits the received part into  *)
(* messages ("frames").  What is then done with the frames is the module   *)
(* DataProcessing; here it is the single step Return.                      *)
(***************************************************************************)
EXTENDS UdpMessage

CONSTANTS
  BufferWords,  \* config.udp_buffer_size()
  ZeroWord,     \* what vec![0; n] fills the buffer with
  Datagrams,    \* what may arrive: sequences over Headers, one entry a word
  MaxPackets    \* bound: calls of recv_from

ASSUME FramingAssumption ==
  /\ BufferWords \in Nat
  /\ ZeroWord \in Headers
  /\ ~ZeroWord.marker
  /\ Datagrams \subseteq Seq(Headers)
  /\ MaxPackets \in Nat

VARIABLES
  pc,             \* "recv", "extract" or "process"
  udp_buf,        \* the buffer, with whatever earlier datagrams left in it
  received,       \* number_of_bytes of recv_from, in words
  offset,         \* packet_to_frames' offset
  frames,         \* packet_to_frames' result: views, by the word they start at
  packets,        \* INCOMING_UDP_PACKETS
  packet_errors,  \* INCOMING_UDP_PACKET_ERRORS
  too_short,      \* INCOMING_UDP_INVALID_HEADER_DECLARED_LENGTH_TOO_SHORT
  too_long,       \* INCOMING_UDP_INVALID_HEADER_DECLARED_LENGTH_TOO_LONG
  sent            \* history: the datagram in hand, as its sender made it

framing_counters == <<packets, packet_errors, too_short, too_long>>

vars == <<pc, udp_buf, received, offset, frames, framing_counters, sent>>

Init ==
  /\ pc = "recv"
  /\ udp_buf = [i \in 1..BufferWords |-> ZeroWord]
  /\ received = 0
  /\ offset = 0
  /\ frames = <<>>
  /\ packets = 0
  /\ packet_errors = 0
  /\ too_short = 0
  /\ too_long = 0
  /\ sent = <<>>

-----------------------------------------------------------------------------
(* recv_from drops what does not fit, and leaves the rest of the buffer as *)
(* it was; only udp_buf[..number_of_bytes] is looked at.                   *)
BadReceivedWords(d) == BufferWords

ReceivedWords(d) == IF Len(d) < BufferWords THEN Len(d) ELSE BufferWords

RecvFrom(d) ==
  /\ pc = "recv"
  /\ packets + packet_errors < MaxPackets
  /\ udp_buf' = [i \in 1..BufferWords |-> IF i <= Len(d) THEN d[i] ELSE udp_buf[i]]
  /\ received' = ReceivedWords(d)
  /\ packets' = packets + 1
  /\ sent' = d
  /\ pc' = "extract"
  /\ UNCHANGED <<offset, frames, packet_errors, too_short, too_long>>

RecvError ==
  /\ pc = "recv"
  /\ packets + packet_errors < MaxPackets
  /\ packet_errors' = packet_errors + 1
  /\ UNCHANGED <<pc, udp_buf, received, offset, frames, packets, too_short,
                 too_long, sent>>

(* The loop of packet_to_frames.  Each iteration views the content from    *)
(* offset on: it pushes the view and moves past it, or breaks.             *)
CurrentHeader == udp_buf[offset + 1]

Iterating(verdict) ==
  /\ pc = "extract"
  /\ offset < received
  /\ NewView(CurrentHeader, received - offset) = verdict

BadAdvance(h) == DataWords(h)

Advance(h) == h.total_length_words

PushFrame ==
  /\ Iterating("Ok")
  /\ frames' = Append(frames, [start |-> offset, header |-> CurrentHeader])
  /\ offset' = offset + Advance(CurrentHeader)
  /\ UNCHANGED <<pc, udp_buf, received, framing_counters, sent>>

BreakAtPadding ==
  /\ Iterating("ContentTooShort") \/ Iterating("MissingHeaderMarker")
  /\ pc' = "process"
  /\ UNCHANGED <<udp_buf, received, offset, frames, framing_counters, sent>>

BreakTooShort ==
  /\ Iterating("DeclaredLengthTooShort")
  /\ too_short' = too_short + 1
  /\ pc' = "process"
  /\ UNCHANGED <<udp_buf, received, offset, frames, packets, packet_errors,
                 too_long, sent>>

BadBreakUncounted ==
  /\ Iterating("DeclaredLengthTooLong")
  /\ pc' = "process"
  /\ UNCHANGED <<udp_buf, received, offset, frames, framing_counters, sent>>

BreakTooLong ==
  /\ Iterating("DeclaredLengthTooLong")
  /\ too_long' = too_long + 1
  /\ pc' = "process"
  /\ UNCHANGED <<udp_buf, received, offset, frames, packets, packet_errors,
                 too_short, sent>>

EndOfContent ==
  /\ pc = "extract"
  /\ offset >= received
  /\ pc' = "process"
  /\ UNCHANGED <<udp_buf, received, offset, frames, framing_counters, sent>>

Extract ==
  PushFrame \/ BreakAtPadding \/ BreakTooShort \/ BreakTooLong \/ EndOfContent

(* process_udp_bytes_to_kafka returns: its locals are gone. *)
Return ==
  /\ pc = "process"
  /\ pc' = "recv"
  /\ received' = 0
  /\ offset' = 0
  /\ frames' = <<>>
  /\ sent' = <<>>
  /\ UNCHANGED <<udp_buf, framing_counters>>

Next ==
  \/ \E d \in Datagrams : RecvFrom(d)
  \/ RecvError
  \/ Extract
  \/ Return

Spec == Init /\ [][Next]_vars

(* The thread keeps running; nothing makes a datagram arrive. *)
FairSpec == Spec /\ WF_vars(Extract) /\ WF_vars(Return)

-----------------------------------------------------------------------------
EndOfFrame(f) == f.start + f.header.total_length_words

(* Every variable has its type, and the loop never runs past what was      *)
(* received.                                                               *)
TypeOK ==
  /\ pc \in {"recv", "extract", "process"}
  /\ udp_buf \in [1..BufferWords -> Headers]
  /\ received \in 0..BufferWords
  /\ offset \in 0..received
  /\ frames \in Seq([start : Nat, header : Headers])
  /\ packets \in Nat /\ packet_errors \in Nat
  /\ too_short \in Nat /\ too_long \in Nat
  /\ sent \in Seq(Headers)

(* The frames tile the received words from the first one on: each starts   *)
(* where the one before ends, and the next would start at offset.  So no   *)
(* word is read as part of two messages, none is skipped, and event data   *)
(* that looks like a header is never taken for one (packet_to_frames).     *)
FramesTile ==
  /\ frames = <<>> => offset = 0
  /\ frames # <<>> => /\ frames[1].start = 0
                      /\ EndOfFrame(frames[Len(frames)]) = offset
  /\ \A i \in 1..(Len(frames) - 1) : frames[i + 1].start = EndOfFrame(frames[i])

(* Every frame is a whole message of the datagram in hand: nothing an      *)
(* earlier datagram left in the reused buffer is ever processed            *)
(* (udp_process passes udp_buf[..number_of_bytes]).                        *)
FramesOfThisDatagram ==
  \A i \in 1..Len(frames) :
    /\ WholeMessageAt(sent, frames[i].start)
    /\ frames[i].header = sent[frames[i].start + 1]

(* packet_to_frames stops only where no message can be read: of a datagram *)
(* that fits the buffer, every message up to the first unreadable one is   *)
(* extracted.                                                              *)
NothingReadableLeft ==
  pc = "process" /\ Len(sent) <= BufferWords => ~WholeMessageAt(sent, offset)

(* When a datagram larger than the buffer loses a whole message to the     *)
(* cut, the loss is counted as a declared length that is too long -- or    *)
(* the cut left less than a header of that message, and passes for padding.*)
TruncationCounted ==
  [][pc = "extract" /\ pc' = "process" /\ WholeMessageAt(sent, offset)
       => \/ too_long' = too_long + 1
          \/ received - offset < MINIMUM_HEADER_LEN_WORDS]_vars

(* Every datagram is split in finite time, whatever lengths it declares:   *)
(* the loop of packet_to_frames always gets to its end, and udp_process    *)
(* back to the socket.                                                     *)
EveryDatagramIsSplit == pc = "extract" ~> pc = "recv"

(* data_processing.rs:82 of the arm BreakAtPadding: "Likely trailing zero   *)
(* padding.  This is not an *error*, but indicates that there are no more  *)
(* messages in this UDP packet."                                           *)
PaddingEndsTheMessages ==
  [][/\ pc = "extract" /\ offset < received
     /\ pc' = "process" /\ UNCHANGED <<too_short, too_long>>
       => \A o \in offset..Len(sent) : ~WholeMessageAt(sent, o)]_vars

(* The documentation of UdpMessageView::new: no view declares a length     *)
(* shorter than its own header.                                            *)
ViewCoversHeader ==
  \A i \in 1..Len(frames) :
    frames[i].header.header_length_words <= frames[i].header.total_length_words
=============================================================================
