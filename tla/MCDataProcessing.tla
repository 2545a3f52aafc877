-------------------------- MODULE MCDataProcessing --------------------------
(* Datagrams of one message of every kind the code tells apart, alone,     *)
(* before and after a good message, and padded.                            *)
EXTENDS DataProcessing

MCZeroWord ==
  [marker |-> FALSE, total_length_words |-> 0, header_length_words |-> 0,
   flags |-> "00000000", pulse_time |-> 0, vetoes |-> 0, period_number |-> 0,
   ppp_per_frame |-> 0, known_format |-> FALSE, delay_in_range |-> TRUE,
   invalid_events |-> 0, overflows |-> FALSE]

(* A header of 3 words (one of them parameters) and one event of 2. *)
OneEvent ==
  [MCZeroWord EXCEPT !.marker = TRUE, !.total_length_words = 5,
     !.header_length_words = 3, !.flags = "11111111", !.pulse_time = 1,
     !.vetoes = 1, !.period_number = 1, !.ppp_per_frame = 1, !.known_format = TRUE]

TwoEvents ==
  [OneEvent EXCEPT !.total_length_words = 7, !.pulse_time = 2, !.vetoes = 2,
     !.period_number = 2, !.ppp_per_frame = 2]

Empty == [OneEvent EXCEPT !.total_length_words = 3]

Refused ==
  {[OneEvent EXCEPT !.pulse_time = NoTime],
   [OneEvent EXCEPT !.known_format = FALSE],
   [OneEvent EXCEPT !.delay_in_range = FALSE],
   [OneEvent EXCEPT !.total_length_words = 4],
   [OneEvent EXCEPT !.header_length_words = 2, !.total_length_words = 4],
   [TwoEvents EXCEPT !.invalid_events = 1],
   [OneEvent EXCEPT !.flags = "11111110"],
   [OneEvent EXCEPT !.flags = "11111101"],
   [OneEvent EXCEPT !.flags = "11111011"]}

(* Shorter than its fixed part. *)
ShortHeader == [OneEvent EXCEPT !.header_length_words = 1]

Fatals ==
  {ShortHeader,
   [OneEvent EXCEPT !.header_length_words = 6],
   [OneEvent EXCEPT !.overflows = TRUE]}

Unframed ==
  {[OneEvent EXCEPT !.total_length_words = 0],
   [OneEvent EXCEPT !.total_length_words = 1], MCZeroWord}

Kinds == {OneEvent, TwoEvents, Empty} \cup Refused \cup Fatals \cup Unframed

MCHeaders == Kinds

(* A message: its header, and words that are no header; the header alone   *)
(* if it declares no length.                                               *)
Message(h) ==
  [i \in 1..(IF h.total_length_words = 0 THEN 1 ELSE h.total_length_words) |->
     IF i = 1 THEN h ELSE MCZeroWord]

MCDatagrams ==
  {Message(h) : h \in Kinds}
  \cup {Message(TwoEvents) \o Message(h) : h \in Kinds}
  \cup {Message(h) \o Message(OneEvent) : h \in Kinds}
  \cup {Message(OneEvent) \o Message(TwoEvents) \o <<MCZeroWord>>}

(* A short header, or none, between two good messages. *)
MCShortHeaderDatagrams ==
  {Message(TwoEvents) \o Message(h) \o Message(OneEvent) : h \in {OneEvent, ShortHeader}}
=============================================================================
