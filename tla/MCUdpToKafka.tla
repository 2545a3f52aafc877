---------------------------- MODULE MCUdpToKafka ----------------------------
(* The control board announces two pulses in two periods.  A detector      *)
(* streams an event of each, with a period of its own, and a header that   *)
(* stops the process.                                                      *)
EXTENDS UdpToKafka

CONSTANTS scb, detector

MCZeroWord ==
  [marker |-> FALSE, total_length_words |-> 0, header_length_words |-> 0,
   flags |-> "00000000", pulse_time |-> 0, vetoes |-> 0, period_number |-> 0,
   ppp_per_frame |-> 0, known_format |-> FALSE, delay_in_range |-> TRUE,
   invalid_events |-> 0, overflows |-> FALSE]

(* A header of 3 words (one of them parameters) and no event. *)
Pulse(t) ==
  [MCZeroWord EXCEPT !.marker = TRUE, !.total_length_words = 3,
     !.header_length_words = 3, !.flags = "11111111", !.pulse_time = t,
     !.period_number = t, !.ppp_per_frame = t, !.known_format = TRUE]

OneEvent == [Pulse(1) EXCEPT !.total_length_words = 5, !.period_number = 3]

BadHeader == [OneEvent EXCEPT !.header_length_words = 6]

MCSources == {scb, detector}

MCHeaders == {MCZeroWord, Pulse(1), Pulse(2), OneEvent, BadHeader}

Message(h) ==
  [i \in 1..h.total_length_words |-> IF i = 1 THEN h ELSE MCZeroWord]

MCDatagrams == {Message(Pulse(1)) \o Message(Pulse(2)), Message(OneEvent), Message(BadHeader)}

MCStreamed ==
  {<<Message(Pulse(1)) \o Message(Pulse(2)), scb>>,
   <<Message(OneEvent), detector>>,
   <<Message(BadHeader), detector>>}
=============================================================================
