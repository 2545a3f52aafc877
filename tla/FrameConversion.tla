-------------------------- MODULE FrameConversion --------------------------
(***************************************************************************)
(* What one frame becomes: a pu00 message (pulse metadata) and, if it      *)
(* holds events, an ev44 message.  Further fields of a header, read here:  *)
(*   flags          header_flags()                                         *)
(*   pulse_time     gps_time().nanoseconds_since_epoch(), or NoTime        *)
(*   vetoes, period_number, ppp_per_frame                                  *)
(*   known_format   packet_format_code() is one there is a decoder for     *)
(*   delay_in_range frame_sync_delay_us() fits u32 once in nanoseconds     *)
(*   invalid_events events that lack the marker bits                       *)
(*   overflows      some event's arithmetic leaves u32                     *)
(***************************************************************************)
EXTENDS UdpMessage

CONSTANTS
  Sources,         \* addresses datagrams come from
  ControlBoard,    \* config.streaming_control_board_ip
  NoTime,          \* None of nanoseconds_since_epoch
  Absent,          \* None of a pu00 field
  PARAMETER_WORDS, \* 2: length of packet format 1's board parameters
  EVENT_WORDS,     \* 2: length of an event of packet format 1
  OverflowChecks   \* TRUE for a debug build: an overflow panics

ASSUME ConversionAssumption ==
  /\ ControlBoard \in Sources
  /\ PARAMETER_WORDS \in Nat
  /\ EVENT_WORDS \in Nat \ {0}
  /\ OverflowChecks \in BOOLEAN
  /\ \A h \in Headers : /\ h.known_format \in BOOLEAN
                        /\ h.delay_in_range \in BOOLEAN
                        /\ h.overflows \in BOOLEAN
                        /\ h.invalid_events \in Nat

PacketTypes == {"VetoFrame", "SampleEnvironment", "NeutronData", "EndOfRun", "Invalid"}

PacketType(h) ==
  CASE h.flags = "11111111" -> "NeutronData"
    [] h.flags = "11111110" -> "EndOfRun"
    [] h.flags = "11111101" -> "VetoFrame"
    [] OTHER -> "Invalid"

-----------------------------------------------------------------------------
(* Only the streaming control board is believed about the period and the   *)
(* charge; any board may veto.                                             *)
BadPu00(h, s) ==
  [kind |-> "pu00", reference_time |-> h.pulse_time, vetoes |-> h.vetoes,
   period_number |-> h.period_number, proton_charge |-> h.ppp_per_frame]

Pu00(h, s) ==
  [kind |-> "pu00", reference_time |-> h.pulse_time, vetoes |-> h.vetoes,
   period_number |-> IF s = ControlBoard THEN h.period_number ELSE Absent,
   proton_charge |-> IF s = ControlBoard THEN h.ppp_per_frame ELSE Absent]

EventCount(h) == DataWords(h) \div EVENT_WORDS

Ev44(h) ==
  [kind |-> "ev44", reference_time |-> h.pulse_time, events |-> EventCount(h)]

Messages ==
  {Pu00(h, s) : h \in Headers, s \in Sources} \cup {Ev44(h) : h \in Headers}

(* parse_board_data and PacketFormat1::parse_raw_data: no data is no       *)
(* events whatever the format; ReachesEvents holds when every check before *)
(* the loop over the events has passed.                                    *)
ReachesEvents(h) ==
  /\ DataWords(h) > 0
  /\ h.known_format
  /\ DataWords(h) % EVENT_WORDS = 0
  /\ BoardParameterWords(h) = PARAMETER_WORDS
  /\ h.delay_in_range

ParseOk(h) == DataWords(h) = 0 \/ (ReachesEvents(h) /\ h.invalid_events = 0)

ParsePanics(h, len) ==
  \/ ~BoardParametersInBounds(h, len)
  \/ ~DataBytesInBounds(h)
  \/ OverflowChecks /\ ReachesEvents(h) /\ h.overflows

-----------------------------------------------------------------------------
(* Reference: what a whole datagram becomes, by recursion on where its     *)
(* messages start.  What stops the process is said by the header alone: it *)
(* declares itself shorter than its fixed part or longer than its message. *)
Timed(h) == PacketType(h) = "NeutronData" /\ h.pulse_time # NoTime

HeaderFits(h) ==
  h.header_length_words \in MINIMUM_HEADER_LEN_WORDS..h.total_length_words

Overflows(h) == OverflowChecks /\ ReachesEvents(h) /\ h.overflows

Kills(h) == Timed(h) /\ (~HeaderFits(h) \/ Overflows(h))

MessagesOfFrame(h, s) ==
  CASE ~Timed(h) -> <<>>
    [] Timed(h) /\ (Kills(h) \/ ~ParseOk(h) \/ DataWords(h) = 0) -> <<Pu00(h, s)>>
    [] OTHER -> <<Pu00(h, s), Ev44(h)>>

(* What the datagram c comes to from word o on, when s sent it: the frame  *)
(* at o, then those from where it ends, until no message can be read or    *)
(* one stops the process.                                                  *)
Outcome(c, s) ==
  LET from[o \in 0..Len(c)] ==
        IF ~WholeMessageAt(c, o) THEN [messages |-> <<>>, fatal |-> FALSE]
        ELSE IF Kills(c[o + 1])
          THEN [messages |-> MessagesOfFrame(c[o + 1], s), fatal |-> TRUE]
        ELSE [messages |-> MessagesOfFrame(c[o + 1], s)
                             \o from[o + c[o + 1].total_length_words].messages,
              fatal    |-> from[o + c[o + 1].total_length_words].fatal]
  IN  from

(* The messages the datagram owes, and whether it stops the process. *)
Owed(c, s) == Outcome(c, s)[0].messages

Fatal(c, s) == Outcome(c, s)[0].fatal
=============================================================================
