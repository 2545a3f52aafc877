--------------------------- MODULE PacketFormat1 ----------------------------
(***************************************************************************)
(* PacketFormat1::parse_raw_data: the board's parameters and the events of *)
(* one message become times of flight and pixel ids.  The arithmetic is    *)
(* that of u32, whose width is a parameter.                                *)
(*                                                                         *)
(* An event is a record of its two words: whether the top bits of the      *)
(* first are the marker of an event, the clock ticks in the rest of it,    *)
(* and the second word.                                                    *)
(***************************************************************************)
EXTENDS Integers, Sequences, FiniteSets, PowersOfTwo

CONSTANTS
  WORD_BITS,         \* 32
  U32_VALUES,        \* 2 ^ WORD_BITS
  I32_VALUES,        \* half of them: those an i32 holds without a sign
  TOF_BITS,          \* 25: bits of the first word that hold clock ticks
  CLOCK_TICKS_TO_NS, \* 20
  US_TO_NS,          \* 1000
  Inputs,            \* the calls: see InputAssumption
  Builds             \* "debug", where an overflow panics, and "release"

TicksRange == 0..(PowerOf2[TOF_BITS] - 1)

ASSUME WidthAssumption ==
  /\ WORD_BITS \in Nat \ {0}
  /\ U32_VALUES = PowerOf2[WORD_BITS]
  /\ I32_VALUES \in Nat \ {0} /\ U32_VALUES = 2 * I32_VALUES
  /\ TOF_BITS \in Nat
  /\ CLOCK_TICKS_TO_NS \in Nat /\ US_TO_NS \in Nat
  /\ \A t \in TicksRange : t * CLOCK_TICKS_TO_NS < U32_VALUES
  /\ Builds \subseteq {"debug", "release"}

ASSUME InputAssumption ==
  \A in \in Inputs :
    /\ in.odd_length \in BOOLEAN          \* data is no list of word pairs
    /\ in.parameters_fit \in BOOLEAN      \* the parameters are two words
    /\ in.channel_bits \in Nat
    /\ in.position_bits_per_channel \in Nat
    /\ in.detector_id_offset \in 0..(U32_VALUES - 1)
    /\ in.frame_sync_delay_us \in Nat
    /\ in.data \in Seq([marked : BOOLEAN, ticks : TicksRange,
                        pos_word : 0..(U32_VALUES - 1)])

VARIABLES
  build,                  \* how the program was built
  input,                  \* the arguments
  result,                 \* "running", "ok", "err" or "panicked"
  invalid_events,
  time_of_flight,
  pixel_id,
  invalid_neutron_events  \* INVALID_NEUTRON_EVENTS

vars == <<build, input, result, invalid_events, time_of_flight, pixel_id,
          invalid_neutron_events>>

Init ==
  /\ build \in Builds
  /\ input \in Inputs
  /\ result = "running"
  /\ invalid_events = 0
  /\ time_of_flight = <<>>
  /\ pixel_id = <<>>
  /\ invalid_neutron_events = 0

-----------------------------------------------------------------------------
(* bit_utils.rs, and the conversion of u32 to i32 in two's complement. *)
LowBits(x, n) == x % PowerOf2[IF n < WORD_BITS THEN n ELSE WORD_BITS]

ExtractMsb(x, n) == IF n \in 1..WORD_BITS THEN x \div PowerOf2[WORD_BITS - n] ELSE 0

BadAsI32(x) == x

AsI32(x) == IF x < I32_VALUES THEN x ELSE x - U32_VALUES

ChannelMultiplier(in) ==
  IF in.position_bits_per_channel < WORD_BITS
    THEN PowerOf2[in.position_bits_per_channel] ELSE 0

(* The sums of one event before they are cut to u32. *)
BadTof(in, e) == e.ticks * CLOCK_TICKS_TO_NS

Tof(in, e) == e.ticks * CLOCK_TICKS_TO_NS + in.frame_sync_delay_us * US_TO_NS

Channel(in, e) == ExtractMsb(e.pos_word, in.channel_bits)

Position(in, e) == LowBits(e.pos_word, in.position_bits_per_channel)

BadPixel(in, e) ==
  Position(in, e) + in.detector_id_offset
    + Channel(in, e) * in.position_bits_per_channel

Pixel(in, e) ==
  Position(in, e) + in.detector_id_offset + Channel(in, e) * ChannelMultiplier(in)

Overflows(in, e) == Tof(in, e) >= U32_VALUES \/ Pixel(in, e) >= U32_VALUES

-----------------------------------------------------------------------------
Accepts(in) ==
  /\ ~in.odd_length
  /\ in.parameters_fit
  /\ in.frame_sync_delay_us * US_TO_NS < U32_VALUES

RejectInput ==
  /\ result = "running" /\ ~Accepts(input)
  /\ result' = "err"
  /\ UNCHANGED <<build, input, invalid_events, time_of_flight, pixel_id,
                 invalid_neutron_events>>

Event == input.data[Len(time_of_flight) + 1]

MoreEvents ==
  /\ result = "running" /\ Accepts(input)
  /\ Len(time_of_flight) < Len(input.data)

DecodeEvent ==
  /\ MoreEvents
  /\ ~(build = "debug" /\ Overflows(input, Event))
  /\ invalid_events' = invalid_events + (IF Event.marked THEN 0 ELSE 1)
  /\ time_of_flight' = Append(time_of_flight, AsI32(Tof(input, Event) % U32_VALUES))
  /\ pixel_id' = Append(pixel_id, AsI32(Pixel(input, Event) % U32_VALUES))
  /\ UNCHANGED <<build, input, result, invalid_neutron_events>>

Panic ==
  /\ MoreEvents
  /\ build = "debug" /\ Overflows(input, Event)
  /\ result' = "panicked"
  /\ UNCHANGED <<build, input, invalid_events, time_of_flight, pixel_id,
                 invalid_neutron_events>>

AllDecoded ==
  /\ result = "running" /\ Accepts(input)
  /\ Len(time_of_flight) = Len(input.data)

BadBail ==
  /\ AllDecoded
  /\ invalid_events > 0
  /\ result' = "err"
  /\ invalid_neutron_events' = invalid_neutron_events + Len(input.data)
  /\ UNCHANGED <<build, input, invalid_events, time_of_flight, pixel_id>>

Bail ==
  /\ AllDecoded
  /\ invalid_events > 0
  /\ result' = "err"
  /\ invalid_neutron_events' = invalid_neutron_events + invalid_events
  /\ UNCHANGED <<build, input, invalid_events, time_of_flight, pixel_id>>

BadReturnEvents ==
  /\ AllDecoded
  /\ invalid_events < Len(input.data) \/ invalid_events = 0
  /\ result' = "ok"
  /\ UNCHANGED <<build, input, invalid_events, time_of_flight, pixel_id,
                 invalid_neutron_events>>

ReturnEvents ==
  /\ AllDecoded
  /\ invalid_events = 0
  /\ result' = "ok"
  /\ UNCHANGED <<build, input, invalid_events, time_of_flight, pixel_id,
                 invalid_neutron_events>>

Next == RejectInput \/ DecodeEvent \/ Panic \/ Bail \/ ReturnEvents

Spec == Init /\ [][Next]_vars

-----------------------------------------------------------------------------
(* Every variable has its type; what is returned fits an i32. *)
TypeOK ==
  /\ build \in Builds
  /\ result \in {"running", "ok", "err", "panicked"}
  /\ time_of_flight \in Seq((-I32_VALUES)..(I32_VALUES - 1))
  /\ pixel_id \in Seq((-I32_VALUES)..(I32_VALUES - 1))
  /\ Len(pixel_id) = Len(time_of_flight)
  /\ Len(time_of_flight) <= Len(input.data)
  /\ invalid_events \in 0..Len(time_of_flight)
  /\ invalid_neutron_events \in Nat

(* One event without the marker refuses the whole message, "even the ones  *)
(* that *happened* to start with the right prefix"                         *)
(* (packet_format_1.rs:94); a message that is accepted is complete.        *)
AllOrNothing ==
  result = "ok" =>
    /\ Len(time_of_flight) = Len(input.data)
    /\ \A k \in 1..Len(input.data) : input.data[k].marked

Unmarked(n) == {k \in 1..n : ~input.data[k].marked}

(* INVALID_NEUTRON_EVENTS counts the unmarked events of a message that is  *)
(* refused for them, all of them and once, and nothing of a message that   *)
(* is refused before its events are read or that is returned.              *)
InvalidEventsCounted ==
  result # "running" =>
    invalid_neutron_events =
      IF result = "err" /\ Accepts(input)
        THEN Cardinality(Unmarked(Len(input.data))) ELSE 0

NanosecondsOf(k) ==
  input.data[k].ticks * CLOCK_TICKS_TO_NS + input.frame_sync_delay_us * US_TO_NS

(* Times of flight are exact while they fit an i32, whatever the other     *)
(* events of the message are and whichever way the program was built.      *)
TofExactWithinI32 ==
  \A k \in 1..Len(time_of_flight) :
    NanosecondsOf(k) < I32_VALUES => time_of_flight[k] = NanosecondsOf(k)

(* When the bits of channel and position do not overlap, two events have   *)
(* the same pixel id only if they have the same channel and position, even *)
(* where adding the offset wraps.                                          *)
PixelsDistinct ==
  input.channel_bits + input.position_bits_per_channel <= WORD_BITS =>
    \A j, k \in 1..Len(pixel_id) :
      pixel_id[j] = pixel_id[k] =>
        /\ Channel(input, input.data[j]) = Channel(input, input.data[k])
        /\ Position(input, input.data[j]) = Position(input, input.data[k])

(* The comment at packet_format_1.rs:68, "Make TOF relative to the         *)
(* *original* frame sync time": of every accepted message.                 *)
TofRelativeToFrameSync ==
  result = "ok" =>
    \A k \in 1..Len(time_of_flight) : time_of_flight[k] = NanosecondsOf(k)
=============================================================================
