------------------------ MODULE PacketFormat1Proofs -------------------------
(***************************************************************************)
(* What parse_raw_data returns, for every width of the words, every list   *)
(* of events and both builds.                                              *)
(***************************************************************************)
EXTENDS PacketFormat1, PowersOfTwoProofs, FiniteSetTheorems

(* The events that were decoded so far, and what was made of them. *)
DecodedExactly ==
  \A k \in 1..Len(time_of_flight) :
    /\ time_of_flight[k] = AsI32(Tof(input, input.data[k]) % U32_VALUES)
    /\ pixel_id[k] = AsI32(Pixel(input, input.data[k]) % U32_VALUES)

UnmarkedCounted == invalid_events = Cardinality(Unmarked(Len(time_of_flight)))

EndedRightly ==
  /\ result = "ok" => invalid_events = 0
  /\ result = "ok" \/ (result = "err" /\ Accepts(input))
       => Len(time_of_flight) = Len(input.data)
  /\ invalid_neutron_events
       = IF result = "err" /\ Accepts(input) THEN invalid_events ELSE 0

DecoderInv ==
  /\ TypeOK
  /\ input \in Inputs
  /\ DecodedExactly
  /\ UnmarkedCounted
  /\ EndedRightly

-----------------------------------------------------------------------------
(* The arithmetic of u32 and i32. *)
LEMMA ModRange ==
  ASSUME NEW x \in Nat, NEW m \in Nat \ {0}
  PROVE  x % m \in 0..(m - 1)
  OBVIOUS

LEMMA ModSmall ==
  ASSUME NEW m \in Nat \ {0}, NEW x \in 0..(m - 1)
  PROVE  x % m = x
  OBVIOUS

LEMMA AsI32Range ==
  ASSUME NEW x \in 0..(U32_VALUES - 1)
  PROVE  AsI32(x) \in (-I32_VALUES)..(I32_VALUES - 1)
  BY WidthAssumption DEF AsI32

LEMMA ProductIsNat ==
  ASSUME NEW a \in Nat, NEW b \in Nat
  PROVE  a * b \in Nat
  OBVIOUS

(* Appending to a sequence. *)
LEMMA AppendFacts ==
  ASSUME NEW S, NEW s \in Seq(S), NEW e \in S
  PROVE  /\ Append(s, e) \in Seq(S)
         /\ Len(Append(s, e)) = Len(s) + 1
         /\ \A k \in 1..Len(s) : Append(s, e)[k] = s[k]
         /\ Append(s, e)[Len(s) + 1] = e
  OBVIOUS

LEMMA ElementOfSeq ==
  ASSUME NEW S, NEW s \in Seq(S), NEW k \in 1..Len(s)
  PROVE  s[k] \in S
  OBVIOUS

(* The sums of an event are natural numbers. *)
LEMMA TofIsNat ==
  ASSUME NEW in \in Inputs, NEW k \in 1..Len(in.data)
  PROVE  Tof(in, in.data[k]) \in Nat
<1> DEFINE e == in.data[k]
<1>1. e \in [marked : BOOLEAN, ticks : TicksRange, pos_word : 0..(U32_VALUES - 1)]
  BY InputAssumption, ElementOfSeq
<1>2. e.ticks \in Nat
  BY <1>1 DEF TicksRange
<1>3. /\ e.ticks * CLOCK_TICKS_TO_NS \in Nat
      /\ in.frame_sync_delay_us * US_TO_NS \in Nat
  BY <1>2, ProductIsNat, WidthAssumption, InputAssumption
<1> HIDE DEF e
<1>4. Tof(in, e) \in Nat
  BY <1>3 DEF Tof
<1> QED BY <1>4 DEF e

LEMMA PixelIsNat ==
  ASSUME NEW in \in Inputs, NEW k \in 1..Len(in.data)
  PROVE  Pixel(in, in.data[k]) \in Nat
<1> DEFINE e == in.data[k]
           n == in.position_bits_per_channel
           c == in.channel_bits
<1>1. e \in [marked : BOOLEAN, ticks : TicksRange, pos_word : 0..(U32_VALUES - 1)]
  BY InputAssumption, ElementOfSeq
<1>2. e.pos_word \in Nat /\ n \in Nat /\ c \in Nat /\ in.detector_id_offset \in Nat
  BY <1>1, InputAssumption
<1> HIDE DEF e
<1>3. Position(in, e) \in Nat
  <2> DEFINE p == PowerOf2[IF n < WORD_BITS THEN n ELSE WORD_BITS]
  <2>1. (IF n < WORD_BITS THEN n ELSE WORD_BITS) \in Nat
    BY <1>2, WidthAssumption
  <2>2. p \in Nat \ {0}
    BY <2>1, PowerType
  <2>3. Position(in, e) = e.pos_word % p
    BY DEF Position, LowBits
  <2> HIDE DEF p
  <2>4. e.pos_word % p \in 0..(p - 1)
    BY <2>2, <1>2, ModRange
  <2> QED BY <2>2, <2>3, <2>4
<1>4. Channel(in, e) \in Nat
  <2>1. CASE c \in 1..WORD_BITS
    <3>1. WORD_BITS - c \in Nat
      BY <2>1, WidthAssumption
    <3>2. PowerOf2[WORD_BITS - c] \in Nat \ {0}
      BY <3>1, PowerType
    <3>3. \A x \in Nat, m \in Nat \ {0} : x \div m \in Nat
      OBVIOUS
    <3>4. e.pos_word \div PowerOf2[WORD_BITS - c] \in Nat
      BY <3>2, <3>3, <1>2
    <3> QED BY <2>1, <3>4 DEF Channel, ExtractMsb
  <2>2. CASE c \notin 1..WORD_BITS
    BY <2>2 DEF Channel, ExtractMsb
  <2> QED BY <2>1, <2>2
<1>5. ChannelMultiplier(in) \in Nat
  <2>1. CASE n < WORD_BITS
    BY <2>1, <1>2, PowerType DEF ChannelMultiplier
  <2>2. CASE ~(n < WORD_BITS)
    BY <2>2 DEF ChannelMultiplier
  <2> QED BY <2>1, <2>2
<1>6. Channel(in, e) * ChannelMultiplier(in) \in Nat
  BY <1>4, <1>5, ProductIsNat
<1>7. Pixel(in, e) \in Nat
  BY <1>2, <1>3, <1>6 DEF Pixel
<1> QED BY <1>7 DEF e

-----------------------------------------------------------------------------
(* The unmarked events among the first n. *)
LEMMA UnmarkedGrows ==
  ASSUME NEW n \in Nat
  PROVE  /\ IsFiniteSet(Unmarked(n))
         /\ Cardinality(Unmarked(0)) = 0
         /\ Cardinality(Unmarked(n + 1)) =
              Cardinality(Unmarked(n)) + (IF input.data[n + 1].marked THEN 0 ELSE 1)
<1>1. IsFiniteSet(Unmarked(n))
  <2>1. IsFiniteSet(1..n)
    BY FS_Interval
  <2>2. Unmarked(n) \subseteq 1..n
    BY DEF Unmarked
  <2> QED BY <2>1, <2>2, FS_Subset
<1>2. Unmarked(0) = {}
  BY DEF Unmarked
<1>3. Cardinality(Unmarked(0)) = 0
  BY <1>2, FS_EmptySet
<1>4. CASE input.data[n + 1].marked
  <2>1. Unmarked(n + 1) = Unmarked(n)
    BY <1>4 DEF Unmarked
  <2>2. Cardinality(Unmarked(n)) \in Nat
    BY <1>1, FS_CardinalityType
  <2> QED BY <1>1, <1>3, <1>4, <2>1, <2>2
<1>5. CASE ~input.data[n + 1].marked
  <2>1. Unmarked(n + 1) = Unmarked(n) \cup {n + 1}
    BY <1>5 DEF Unmarked
  <2>2. n + 1 \notin Unmarked(n)
    BY DEF Unmarked
  <2>3. Cardinality(Unmarked(n) \cup {n + 1}) = Cardinality(Unmarked(n)) + 1
    BY <1>1, <2>2, FS_AddElement
  <2> QED BY <1>1, <1>3, <1>5, <2>1, <2>3
<1> QED BY <1>4, <1>5

-----------------------------------------------------------------------------
LEMMA InitDecoder == Init => DecoderInv
<1> SUFFICES ASSUME Init PROVE DecoderInv
  OBVIOUS
<1>1. input.data \in Seq([marked : BOOLEAN, ticks : TicksRange,
                          pos_word : 0..(U32_VALUES - 1)])
  BY InputAssumption DEF Init
<1>2. Len(input.data) \in Nat
  BY <1>1
<1>3. TypeOK
  BY <1>2 DEF Init, TypeOK
<1>4. UnmarkedCounted
  <2>1. Len(time_of_flight) = 0 /\ invalid_events = 0
    BY DEF Init
  <2> QED BY <2>1, UnmarkedGrows DEF UnmarkedCounted
<1> QED BY <1>2, <1>3, <1>4 DEF Init, DecoderInv, DecodedExactly, EndedRightly

(* One more event. *)
LEMMA DecodeEventStep ==
  ASSUME DecoderInv, DecodeEvent
  PROVE  DecoderInv'
<1> DEFINE k == Len(time_of_flight) + 1
           tof == AsI32(Tof(input, Event) % U32_VALUES)
           pixel == AsI32(Pixel(input, Event) % U32_VALUES)
           I32 == (-I32_VALUES)..(I32_VALUES - 1)
<1>1. /\ input \in Inputs
      /\ time_of_flight \in Seq(I32) /\ pixel_id \in Seq(I32)
      /\ Len(pixel_id) = Len(time_of_flight)
      /\ invalid_events \in 0..Len(time_of_flight)
      /\ result = "running" /\ invalid_neutron_events = 0
  BY DEF DecoderInv, TypeOK, EndedRightly, DecodeEvent, MoreEvents
<1>2. input.data \in Seq([marked : BOOLEAN, ticks : TicksRange,
                          pos_word : 0..(U32_VALUES - 1)])
  BY <1>1, InputAssumption
<1>3. k \in 1..Len(input.data)
  BY <1>1, <1>2 DEF DecodeEvent, MoreEvents
<1>4. tof \in I32 /\ pixel \in I32
  <2>1. Tof(input, Event) \in Nat /\ Pixel(input, Event) \in Nat
    BY <1>1, <1>3, TofIsNat, PixelIsNat DEF Event
  <2>2. U32_VALUES \in Nat \ {0}
    BY WidthAssumption
  <2>3. /\ Tof(input, Event) % U32_VALUES \in 0..(U32_VALUES - 1)
        /\ Pixel(input, Event) % U32_VALUES \in 0..(U32_VALUES - 1)
    BY <2>1, <2>2, ModRange
  <2> QED BY <2>3, AsI32Range
<1>5. /\ time_of_flight' = Append(time_of_flight, tof)
      /\ pixel_id' = Append(pixel_id, pixel)
      /\ invalid_events' = invalid_events + (IF Event.marked THEN 0 ELSE 1)
      /\ UNCHANGED <<build, input, result, invalid_neutron_events>>
  BY DEF DecodeEvent
<1> HIDE DEF tof, pixel, I32
<1>6. /\ time_of_flight' \in Seq(I32) /\ Len(time_of_flight') = k
      /\ \A j \in 1..Len(time_of_flight) : time_of_flight'[j] = time_of_flight[j]
      /\ time_of_flight'[k] = tof
  BY <1>1, <1>4, <1>5, AppendFacts
<1>7. /\ pixel_id' \in Seq(I32) /\ Len(pixel_id') = k
      /\ \A j \in 1..Len(time_of_flight) : pixel_id'[j] = pixel_id[j]
      /\ pixel_id'[k] = pixel
  BY <1>1, <1>4, <1>5, AppendFacts
<1>8. \A j \in 1..k : j = k \/ j \in 1..Len(time_of_flight)
  BY <1>1
<1>9. TypeOK'
  BY <1>1, <1>2, <1>3, <1>5, <1>6, <1>7 DEF DecoderInv, TypeOK, I32
<1>10. DecodedExactly'
  <2>1. \A j \in 1..k :
          /\ time_of_flight'[j] = AsI32(Tof(input, input.data[j]) % U32_VALUES)
          /\ pixel_id'[j] = AsI32(Pixel(input, input.data[j]) % U32_VALUES)
    BY <1>6, <1>7, <1>8 DEF DecoderInv, DecodedExactly, tof, pixel, Event
  <2> HIDE DEF k
  <2> QED BY <1>5, <1>6, <2>1
          DEF DecodedExactly, AsI32, Tof, Pixel, Position, Channel, ChannelMultiplier, LowBits,
              ExtractMsb
<1>11. UnmarkedCounted'
  <2>1. Len(time_of_flight) \in Nat
    BY <1>1
  <2>2. invalid_events = Cardinality(Unmarked(Len(time_of_flight)))
    BY DEF DecoderInv, UnmarkedCounted
  <2>3. invalid_events' = Cardinality(Unmarked(k))
    BY <1>5, <2>1, <2>2, UnmarkedGrows DEF Event
  <2> QED BY <1>5, <1>6, <2>3 DEF UnmarkedCounted, Unmarked
<1>12. EndedRightly'
  BY <1>1, <1>5 DEF EndedRightly, Accepts
<1> QED BY <1>1, <1>5, <1>9, <1>10, <1>11, <1>12 DEF DecoderInv

(* A step that ends the call leaves the events alone. *)
LEMMA EndStep ==
  ASSUME DecoderInv,
         RejectInput \/ Panic \/ Bail \/ ReturnEvents
  PROVE  DecoderInv'
<1>1. /\ result = "running" /\ input \in Inputs
      /\ UNCHANGED <<build, input, invalid_events, time_of_flight, pixel_id>>
      /\ result' \in {"ok", "err", "panicked"}
  BY DEF DecoderInv, RejectInput, Panic, Bail, ReturnEvents, MoreEvents, AllDecoded
<1>2. invalid_events \in Nat /\ invalid_neutron_events = 0
  BY <1>1 DEF DecoderInv, TypeOK, EndedRightly
<1>3. EndedRightly'
  BY <1>1, <1>2 DEF EndedRightly, RejectInput, Panic, Bail, ReturnEvents, AllDecoded,
                    Accepts
<1>4. invalid_neutron_events' \in Nat
  BY <1>2 DEF RejectInput, Panic, Bail, ReturnEvents
<1>5. TypeOK'
  BY <1>1, <1>4 DEF DecoderInv, TypeOK
<1>6. DecodedExactly' /\ UnmarkedCounted'
  BY <1>1 DEF DecoderInv, DecodedExactly, UnmarkedCounted, Unmarked, AsI32, Tof, Pixel,
              Position, Channel, ChannelMultiplier, LowBits, ExtractMsb
<1> QED BY <1>1, <1>3, <1>5, <1>6 DEF DecoderInv

LEMMA StepDecoder == DecoderInv /\ [Next]_vars => DecoderInv'
<1> SUFFICES ASSUME DecoderInv, [Next]_vars PROVE DecoderInv'
  OBVIOUS
<1>1. CASE UNCHANGED vars
  BY <1>1 DEF vars, DecoderInv, TypeOK, DecodedExactly, UnmarkedCounted, Unmarked,
              EndedRightly, Accepts, AsI32, Tof, Pixel, Position, Channel,
              ChannelMultiplier, LowBits, ExtractMsb
<1> QED BY <1>1, DecodeEventStep, EndStep DEF Next

(* The invariant that carries the theorems below: what was decoded so far, *)
(* and how many of those events were unmarked.                             *)
THEOREM DecoderInvariant == Spec => []DecoderInv
  BY InitDecoder, StepDecoder, PTL DEF Spec

-----------------------------------------------------------------------------
(* The lists grow together and every number in them fits an i32.           *)
THEOREM DecoderTypeCorrect == Spec => []TypeOK
<1>1. DecoderInv => TypeOK
  BY DEF DecoderInv
<1> QED BY <1>1, DecoderInvariant, PTL

(* A message is returned whole and valid, or not at all.                   *)
THEOREM EventsAllOrNothing == Spec => []AllOrNothing
<1>1. ASSUME DecoderInv PROVE AllOrNothing
  <2> SUFFICES ASSUME result = "ok"
               PROVE  /\ Len(time_of_flight) = Len(input.data)
                      /\ \A k \in 1..Len(input.data) : input.data[k].marked
    BY DEF AllOrNothing
  <2>1. /\ Len(time_of_flight) = Len(input.data)
        /\ Cardinality(Unmarked(Len(input.data))) = 0
    BY <1>1 DEF DecoderInv, EndedRightly, UnmarkedCounted
  <2>2. Len(input.data) \in Nat
    BY <1>1, InputAssumption DEF DecoderInv
  <2>3. Unmarked(Len(input.data)) = {}
    BY <2>1, <2>2, UnmarkedGrows, FS_EmptySet
  <2> QED BY <2>1, <2>3 DEF Unmarked
<1> QED BY <1>1, DecoderInvariant, PTL

(* The counter of invalid events is exact for every message.               *)
THEOREM InvalidEventsAreCounted == Spec => []InvalidEventsCounted
<1>1. DecoderInv => InvalidEventsCounted
  BY DEF DecoderInv, InvalidEventsCounted, EndedRightly, UnmarkedCounted
<1> QED BY <1>1, DecoderInvariant, PTL

(* The time of flight is exact as long as an i32 can hold it, for every    *)
(* frame sync delay and every number of clock ticks.                       *)
THEOREM TofIsExact == Spec => []TofExactWithinI32
<1>1. ASSUME DecoderInv PROVE TofExactWithinI32
  <2> SUFFICES ASSUME NEW k \in 1..Len(time_of_flight),
                      NanosecondsOf(k) < I32_VALUES
               PROVE  time_of_flight[k] = NanosecondsOf(k)
    BY DEF TofExactWithinI32
  <2>1. k \in 1..Len(input.data)
    <3>1. /\ Len(time_of_flight) <= Len(input.data)
          /\ Len(time_of_flight) \in Nat /\ Len(input.data) \in Nat
      BY <1>1, InputAssumption DEF DecoderInv, TypeOK
    <3> QED BY <3>1
  <2>2. Tof(input, input.data[k]) \in Nat
    BY <1>1, <2>1, TofIsNat DEF DecoderInv
  <2>3. Tof(input, input.data[k]) = NanosecondsOf(k)
    BY DEF Tof, NanosecondsOf
  <2>4. /\ NanosecondsOf(k) \in 0..(U32_VALUES - 1)
        /\ U32_VALUES \in Nat \ {0}
    BY <2>2, <2>3, WidthAssumption
  <2>5. NanosecondsOf(k) % U32_VALUES = NanosecondsOf(k)
    BY <2>4, ModSmall
  <2>6. time_of_flight[k] = AsI32(NanosecondsOf(k))
    BY <1>1, <2>3, <2>5 DEF DecoderInv, DecodedExactly
  <2> QED BY <2>6 DEF AsI32
<1> QED BY <1>1, DecoderInvariant, PTL

-----------------------------------------------------------------------------
(* Channel and position as the two digits of a number below U32_VALUES.    *)
Place(in, e) ==
  Channel(in, e) * PowerOf2[in.position_bits_per_channel] + Position(in, e)

BitsFit(in) == in.channel_bits + in.position_bits_per_channel <= WORD_BITS

LEMMA DigitRanges ==
  ASSUME NEW in \in Inputs, NEW k \in 1..Len(in.data), BitsFit(in)
  PROVE  /\ Channel(in, in.data[k]) \in 0..(PowerOf2[in.channel_bits] - 1)
         /\ Position(in, in.data[k]) \in 0..(PowerOf2[in.position_bits_per_channel] - 1)
<1> DEFINE e == in.data[k]
           n == in.position_bits_per_channel
           c == in.channel_bits
           x == e.pos_word
<1>1. e \in [marked : BOOLEAN, ticks : TicksRange, pos_word : 0..(U32_VALUES - 1)]
  BY InputAssumption, ElementOfSeq
<1>2. x \in 0..(U32_VALUES - 1) /\ n \in Nat /\ c \in Nat /\ c + n <= WORD_BITS
  BY <1>1, InputAssumption DEF BitsFit
<1> HIDE DEF e
<1>3. Position(in, e) = x % PowerOf2[n]
  <2>1. n <= WORD_BITS
    BY <1>2, WidthAssumption
  <2>2. (IF n < WORD_BITS THEN n ELSE WORD_BITS) = n
    BY <2>1, <1>2, WidthAssumption
  <2> QED BY <2>2 DEF Position, LowBits
<1>4. Position(in, e) \in 0..(PowerOf2[n] - 1)
  <2>1. x \in Nat /\ PowerOf2[n] \in Nat \ {0}
    BY <1>2, PowerType
  <2> HIDE DEF x, n
  <2> QED BY <2>1, <1>3, ModRange
<1>5. Channel(in, e) \in 0..(PowerOf2[c] - 1)
  <2>1. CASE c = 0
    BY <2>1, PowerStep DEF Channel, ExtractMsb
  <2>2. CASE c # 0
    <3>1. c \in 1..WORD_BITS /\ WORD_BITS - c \in Nat /\ (WORD_BITS - c) + c = WORD_BITS
      BY <2>2, <1>2, WidthAssumption
    <3> DEFINE u == PowerOf2[WORD_BITS - c]
               v == PowerOf2[c]
    <3>2. Channel(in, e) = x \div u
      BY <3>1 DEF Channel, ExtractMsb
    <3>3. u \in Nat \ {0} /\ v \in Nat \ {0} /\ U32_VALUES = u * v
      <4> DEFINE d == WORD_BITS - c
      <4>1. PowerOf2[d + c] = u * v
        <5>1. d \in Nat /\ c \in Nat
          BY <3>1, <1>2
        <5>2. u = PowerOf2[d] /\ v = PowerOf2[c]
          OBVIOUS
        <5> HIDE DEF d, c, u, v
        <5> QED BY <5>1, <5>2, PowerSum
      <4>2. u \in Nat \ {0} /\ v \in Nat \ {0}
        BY <3>1, <1>2, PowerType
      <4> QED BY <3>1, <4>1, <4>2, WidthAssumption, Zenon
    <3> HIDE DEF u, v, x
    <3>4. x \in 0..(u * v - 1) /\ u * v \in Nat
      BY <1>2, <3>3, ProductIsNat
    <3>5. x \div u \in 0..(v - 1)
      <4>1. x \in Nat /\ x \div u \in Nat
        <5>1. x \in Nat
          BY <3>4
        <5> QED BY <5>1, <3>3, DigitsOf
      <4>2. (x \div u) * u <= x
        <5>1. x % u \in 0..(u - 1) /\ x = (x \div u) * u + (x % u)
          BY <4>1, <3>3, DigitsOf
        <5>2. (x \div u) * u \in Nat
          BY <4>1, <3>3, ProductIsNat
        <5> QED BY <5>1, <5>2, <3>3
      <4>3. ASSUME v <= x \div u PROVE FALSE
        <5>1. v * u <= (x \div u) * u
          BY <4>1, <4>3, <3>3, ProductGrows
        <5>2. v * u = u * v /\ u * v \in Nat /\ (x \div u) * u \in Nat
          BY <4>1, <3>3, ProductIsNat, Associative
        <5> QED BY <5>1, <5>2, <4>1, <4>2, <3>4
      <4> QED BY <4>1, <4>3, <3>3
    <3> QED BY <3>2, <3>5 DEF v
  <2> QED BY <2>1, <2>2
<1> QED BY <1>4, <1>5 DEF e

LEMMA PlaceRange ==
  ASSUME NEW in \in Inputs, NEW k \in 1..Len(in.data), BitsFit(in)
  PROVE  /\ Place(in, in.data[k]) \in 0..(U32_VALUES - 1)
         /\ Pixel(in, in.data[k]) = Place(in, in.data[k]) + in.detector_id_offset
<1> DEFINE e == in.data[k]
           u == PowerOf2[in.position_bits_per_channel]
           v == PowerOf2[in.channel_bits]
           hi == Channel(in, e)
           lo == Position(in, e)
<1>1. hi \in 0..(v - 1) /\ lo \in 0..(u - 1)
  BY DigitRanges
<1>2. /\ in.position_bits_per_channel \in Nat /\ in.channel_bits \in Nat
      /\ in.detector_id_offset \in Nat
  BY InputAssumption
<1>3. u \in Nat \ {0} /\ v \in Nat \ {0}
  BY <1>2, PowerType
<1>4. v * u <= U32_VALUES
  <2>1. PowerOf2[in.channel_bits + in.position_bits_per_channel] = v * u
    <3> DEFINE c == in.channel_bits
               n == in.position_bits_per_channel
    <3>1. v = PowerOf2[c] /\ u = PowerOf2[n] /\ c \in Nat /\ n \in Nat
      BY <1>2
    <3> HIDE DEF c, n, u, v
    <3>2. PowerOf2[c + n] = v * u
      BY <3>1, PowerSum
    <3> QED BY <3>2 DEF c, n
  <2>2. PowerOf2[in.channel_bits + in.position_bits_per_channel] <= U32_VALUES
    <3> DEFINE b == in.channel_bits + in.position_bits_per_channel
    <3>1. b \in Nat /\ WORD_BITS \in Nat /\ b <= WORD_BITS
      BY <1>2, WidthAssumption DEF BitsFit
    <3> HIDE DEF b
    <3>2. PowerOf2[b] <= PowerOf2[WORD_BITS]
      BY <3>1, PowerGrows
    <3> QED BY <3>2, WidthAssumption DEF b
  <2> QED BY <2>1, <2>2
<1>5. Pixel(in, e) = lo + in.detector_id_offset + hi * ChannelMultiplier(in)
  BY DEF Pixel
<1>6. Place(in, e) = hi * u + lo
  BY DEF Place
<1>7. hi * ChannelMultiplier(in) = hi * u
  <2>1. CASE in.position_bits_per_channel < WORD_BITS
    BY <2>1 DEF ChannelMultiplier
  <2>2. CASE ~(in.position_bits_per_channel < WORD_BITS)
    <3>1. in.channel_bits = 0
      BY <2>2, <1>2, WidthAssumption DEF BitsFit
    <3>2. v = 1
      BY <3>1, PowerStep
    <3> HIDE DEF hi, u, v
    <3>3. hi = 0
      BY <3>2, <1>1
    <3>4. ChannelMultiplier(in) = 0
      BY <2>2 DEF ChannelMultiplier
    <3> QED BY <3>3, <3>4, <1>3
  <2> QED BY <2>1, <2>2
<1> HIDE DEF e, u, v, hi, lo
<1>8. hi * u + lo \in 0..(U32_VALUES - 1)
  <2>1. hi * u + lo \in Nat /\ hi * u \in Nat
    BY <1>1, <1>3, ProductIsNat
  <2>2. hi * u <= (v - 1) * u
    BY <1>1, <1>3, ProductGrows
  <2>3. (v - 1) * u = v * u - u /\ v * u \in Nat
    BY <1>3
  <2> QED BY <2>1, <2>2, <2>3, <1>1, <1>3, <1>4, WidthAssumption
<1>9. hi * u \in Nat /\ lo \in Nat
  BY <1>1, <1>3, ProductIsNat
<1> QED BY <1>2, <1>5, <1>6, <1>7, <1>8, <1>9 DEF e

(* Adding the same offset and cutting to the width of a word loses nothing *)
(* of a number of that width, nor does the sign of an i32.                 *)
LEMMA WrappingIsInjective ==
  ASSUME NEW a \in 0..(U32_VALUES - 1), NEW b \in 0..(U32_VALUES - 1), NEW o \in Nat,
         AsI32((a + o) % U32_VALUES) = AsI32((b + o) % U32_VALUES)
  PROVE  a = b
<1> DEFINE u == U32_VALUES
           m == (a + o) % u
           n == (b + o) % u
           p == (a + o) \div u
           q == (b + o) \div u
<1>1. u \in Nat \ {0} /\ a \in Nat /\ b \in Nat
  BY WidthAssumption
<1>2. /\ m \in 0..(u - 1) /\ p \in Nat /\ a + o = p * u + m
      /\ n \in 0..(u - 1) /\ q \in Nat /\ b + o = q * u + n
  <2>1. a + o \in Nat /\ b + o \in Nat
    BY <1>1
  <2> QED BY <1>1, <2>1, DigitsOf
<1>3. AsI32(m) = AsI32(n)
  OBVIOUS
<1> HIDE DEF m, n, p, q
<1>4. m = n
  BY <1>2, <1>3, WidthAssumption DEF AsI32
<1>5. ASSUME NEW x \in Nat, NEW y \in Nat, x < y PROVE x * u + u <= y * u
  <2>1. (x + 1) * u <= y * u
    BY <1>1, <1>5, ProductGrows
  <2>2. (x + 1) * u = x * u + u
    BY <1>1
  <2> QED BY <2>1, <2>2
<1>6. p * u \in Nat /\ q * u \in Nat
  BY <1>1, <1>2, ProductIsNat
<1>7. p = q
  <2>1. ~(p < q)
    <3> SUFFICES ASSUME p < q PROVE FALSE
      OBVIOUS
    <3>1. p * u + u <= q * u
      BY <1>2, <1>5
    <3> HIDE DEF u
    <3> QED BY <3>1, <1>1, <1>2, <1>4, <1>6 DEF u
  <2>2. ~(q < p)
    <3> SUFFICES ASSUME q < p PROVE FALSE
      OBVIOUS
    <3>1. q * u + u <= p * u
      BY <1>2, <1>5
    <3> HIDE DEF u
    <3> QED BY <3>1, <1>1, <1>2, <1>4, <1>6 DEF u
  <2> QED BY <2>1, <2>2, <1>2
<1> QED BY <1>1, <1>2, <1>4, <1>6, <1>7

(* Two events that get the same pixel id were seen by the same channel at  *)
(* the same position, for every width of the words and every split of      *)
(* their bits that does not overlap, and though the offset may wrap.       *)
THEOREM PixelsAreDistinct == Spec => []PixelsDistinct
<1>1. ASSUME DecoderInv PROVE PixelsDistinct
  <2> SUFFICES ASSUME BitsFit(input),
                      NEW j \in 1..Len(pixel_id), NEW k \in 1..Len(pixel_id),
                      pixel_id[j] = pixel_id[k]
               PROVE  /\ Channel(input, input.data[j]) = Channel(input, input.data[k])
                      /\ Position(input, input.data[j]) = Position(input, input.data[k])
    BY DEF PixelsDistinct, BitsFit
  <2> DEFINE d == input.data[j]
             e == input.data[k]
             o == input.detector_id_offset
             u == PowerOf2[input.position_bits_per_channel]
  <2>1. /\ j \in 1..Len(time_of_flight) /\ k \in 1..Len(time_of_flight)
        /\ j \in 1..Len(input.data) /\ k \in 1..Len(input.data)
        /\ input \in Inputs
    <3>1. /\ Len(pixel_id) = Len(time_of_flight)
          /\ Len(time_of_flight) <= Len(input.data)
          /\ Len(time_of_flight) \in Nat /\ Len(input.data) \in Nat
          /\ input \in Inputs
      BY <1>1, InputAssumption DEF DecoderInv, TypeOK
    <3> QED BY <3>1
  <2>2. /\ pixel_id[j] = AsI32(Pixel(input, d) % U32_VALUES)
        /\ pixel_id[k] = AsI32(Pixel(input, e) % U32_VALUES)
    BY <1>1, <2>1 DEF DecoderInv, DecodedExactly
  <2>3. /\ Place(input, d) \in 0..(U32_VALUES - 1)
        /\ Place(input, e) \in 0..(U32_VALUES - 1)
        /\ Pixel(input, d) = Place(input, d) + o
        /\ Pixel(input, e) = Place(input, e) + o
    BY <2>1, PlaceRange
  <2>4. o \in Nat /\ u \in Nat \ {0}
    BY <2>1, InputAssumption, PowerType
  <2>5. Place(input, d) = Place(input, e)
    BY <2>2, <2>3, <2>4, WrappingIsInjective
  <2>6. /\ Channel(input, d) \in Int /\ Position(input, d) \in 0..(u - 1)
        /\ Channel(input, e) \in Int /\ Position(input, e) \in 0..(u - 1)
    <3>1. /\ Channel(input, d) \in 0..(PowerOf2[input.channel_bits] - 1)
          /\ Position(input, d) \in 0..(u - 1)
          /\ Channel(input, e) \in 0..(PowerOf2[input.channel_bits] - 1)
          /\ Position(input, e) \in 0..(u - 1)
      BY <2>1, DigitRanges
    <3> QED BY <3>1
  <2>7. /\ Place(input, d) \div u = Channel(input, d)
        /\ Place(input, d) % u = Position(input, d)
        /\ Place(input, e) \div u = Channel(input, e)
        /\ Place(input, e) % u = Position(input, e)
    BY <2>4, <2>6, DivModDigits DEF Place
  <2> QED BY <2>5, <2>7
<1> QED BY <1>1, DecoderInvariant, PTL
=============================================================================
