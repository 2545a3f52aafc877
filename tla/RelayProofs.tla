---------------------------- MODULE RelayProofs -----------------------------
(***************************************************************************)
(* The process keeps the promise of Relay, for every buffer, every set of  *)
(* headers and datagrams of any length: what it sends is what the          *)
(* datagrams owe.                                                          *)
(***************************************************************************)
EXTENDS DataProcessingProofs, FrameConversionProofs, FiniteSetTheorems, SequenceTheorems

(* Relay's reference functions are those of FrameConversion. *)
LEMMA SameReference ==
  ASSUME NEW c, NEW s
  PROVE  Promise!Owed(c, s) = Owed(c, s) /\ Promise!Fatal(c, s) = Fatal(c, s)
  BY DEF Promise!Owed, Owed, Promise!Fatal, Fatal, Promise!Outcome, Outcome,
     Promise!WholeMessageAt, WholeMessageAt, Promise!Kills, Kills,
     Promise!MessagesOfFrame, MessagesOfFrame, Promise!Timed, Timed,
     Promise!HeaderFits, HeaderFits, Promise!Overflows, Overflows, Promise!ParseOk, ParseOk,
     Promise!ReachesEvents, ReachesEvents, Promise!DataWords, DataWords,
     Promise!BoardParameterWords, BoardParameterWords, Promise!PacketType, PacketType,
     Promise!Pu00, Pu00, Promise!Ev44, Ev44,
     Promise!EventCount, EventCount

-----------------------------------------------------------------------------
(* The datagram in hand, as far as it was received. *)
LEMMA InHandFacts ==
  ASSUME Framing!FramingInv, pc # "recv"
  PROVE  /\ InHand \in Seq(Headers) /\ Len(InHand) = received
         /\ received \in Nat /\ offset \in 0..received
         /\ \A i \in 1..received : InHand[i] = sent[i] /\ InHand[i] = udp_buf[i]
<1>1. /\ sent \in Seq(Headers) /\ received \in Nat /\ offset \in 0..received
      /\ received = IF Len(sent) < BufferWords THEN Len(sent) ELSE BufferWords
      /\ \A i \in 1..received : udp_buf[i] = sent[i]
  BY FramingAssumption
  DEF Framing!FramingInv, Framing!TypeOK, Framing!BufferHoldsDatagram, Framing!ReceivedWords, framing_pc
<1>2. Len(sent) \in Nat /\ received <= Len(sent)
  BY <1>1, FramingAssumption
<1>3. \A i \in 1..received : sent[i] \in Headers
  BY <1>1, <1>2, ElementOfSeq
<1>4. /\ InHand \in Seq(Headers) /\ Len(InHand) = received
      /\ \A i \in 1..received : InHand[i] = sent[i]
  BY <1>1, <1>3, SubSeqProperties DEF InHand
<1> QED BY <1>1, <1>4

(* The frames are whole messages of the datagram, and the next starts where *)
(* one ends.                                                                *)
FrameEnd(k) == frames[k].start + frames[k].header.total_length_words

LEMMA FrameType ==
  ASSUME Framing!FramingInv, pc # "recv", NEW k \in 1..Len(frames)
  PROVE  /\ frames[k].start \in Nat /\ frames[k].header \in Headers
         /\ FrameEnd(k) \in Nat /\ frames[k].start < FrameEnd(k)
         /\ WholeMessageAt(sent, frames[k].start)
         /\ frames[k].header = sent[frames[k].start + 1]
         /\ FrameEnd(k) = IF k = Len(frames) THEN offset ELSE frames[k + 1].start
<1>1. frames \in Seq([start : Nat, header : Headers])
  BY FramingFacts
<1>2. frames[k] \in [start : Nat, header : Headers]
  BY <1>1, ElementOfSeq
<1>3. /\ WholeMessageAt(sent, frames[k].start)
      /\ frames[k].header = sent[frames[k].start + 1]
  BY DEF Framing!FramingInv, Framing!FramesOfThisDatagram, Framing!WholeMessageAt, WholeMessageAt
<1>4. /\ frames[k].start \in Nat /\ frames[k].header \in Headers
      /\ frames[k].header.total_length_words \in Nat
      /\ MINIMUM_HEADER_LEN_WORDS <= frames[k].header.total_length_words
  BY <1>2, <1>3, HeaderAssumption DEF WholeMessageAt
<1>5. FrameEnd(k) = IF k = Len(frames) THEN offset ELSE frames[k + 1].start
  BY <1>1 DEF Framing!FramingInv, Framing!FramesTile, Framing!EndOfFrame, FrameEnd
<1> QED BY <1>3, <1>4, <1>5, HeaderAssumption DEF FrameEnd

LEMMA FramesEndInHand ==
  ASSUME Framing!FramingInv, pc # "recv", NEW k \in 1..Len(frames)
  PROVE  FrameEnd(k) <= offset
<1> DEFINE n == Len(frames)
           S == {m \in Nat : m < n => FrameEnd(n - m) <= offset}
<1>1. n \in Nat /\ offset \in Nat
  BY FramingFacts, InHandFacts
<1>2. 0 \in S
  <2>1. ASSUME 0 < n PROVE FrameEnd(n - 0) <= offset
    <3>1. n \in 1..n /\ n - 0 = n
      BY <1>1, <2>1
    <3>2. FrameEnd(n) = offset
      BY <3>1, FrameType
    <3> QED BY <1>1, <3>1, <3>2
  <2> QED BY <2>1
<1>3. ASSUME NEW m \in S PROVE m + 1 \in S
  <2>1. m \in Nat
    OBVIOUS
  <2>2. ASSUME m + 1 < n PROVE FrameEnd(n - (m + 1)) <= offset
    <3> DEFINE i == n - (m + 1)
    <3>1. i \in 1..n /\ i # n /\ i + 1 = n - m /\ i + 1 \in 1..n /\ m < n
      BY <1>1, <2>1, <2>2
    <3>2. FrameEnd(n - m) <= offset
      BY <3>1
    <3> HIDE DEF i, n, S
    <3>3. FrameEnd(i) = frames[i + 1].start
      BY <3>1, FrameType DEF n
    <3>4. frames[i + 1].start < FrameEnd(i + 1) /\ FrameEnd(i + 1) \in Nat /\ frames[i + 1].start \in Nat
      BY <3>1, FrameType DEF n
    <3>5. FrameEnd(i) <= offset
      BY <1>1, <3>1, <3>2, <3>3, <3>4
    <3> QED BY <3>5 DEF i
  <2> QED BY <2>1, <2>2
<1>4. S = Nat
  <2> HIDE DEF S
  <2>1. S \in SUBSET Nat
    BY DEF S
  <2> QED BY <1>2, <1>3, <2>1, Induction
<1>5. n - k \in Nat /\ n - k < n /\ n - (n - k) = k
  BY <1>1
<1>6. n - k \in S
  <2> HIDE DEF S
  <2> QED BY <1>4, <1>5
<1> QED BY <1>5, <1>6

LEMMA FrameIsWhole ==
  ASSUME Framing!FramingInv, pc # "recv", NEW k \in 1..Len(frames)
  PROVE  /\ frames[k].start \in 0..Len(InHand)
         /\ WholeMessageAt(InHand, frames[k].start)
         /\ InHand[frames[k].start + 1] = frames[k].header
         /\ FrameEnd(k) \in 0..Len(InHand)
<1>1. /\ frames[k].start \in Nat /\ FrameEnd(k) \in Nat /\ frames[k].start < FrameEnd(k)
      /\ WholeMessageAt(sent, frames[k].start)
      /\ frames[k].header = sent[frames[k].start + 1]
  BY FrameType
<1>2. FrameEnd(k) <= offset /\ offset \in 0..received /\ received \in Nat /\ Len(InHand) = received
  BY InHandFacts, FramesEndInHand
<1>3. frames[k].start + 1 \in 1..received /\ FrameEnd(k) <= received
  BY <1>1, <1>2
<1>4. InHand[frames[k].start + 1] = frames[k].header
  BY <1>1, <1>3, InHandFacts
<1> QED BY <1>1, <1>2, <1>3, <1>4 DEF WholeMessageAt, FrameEnd

(* After the loop, no message can be read at the offset. *)
LEMMA NothingAtOffset ==
  ASSUME Framing!FramingInv, pc \notin {"recv", "extract"}
  PROVE  ~WholeMessageAt(InHand, offset)
<1> SUFFICES ASSUME WholeMessageAt(InHand, offset) PROVE FALSE
  OBVIOUS
<1>1. offset >= received \/ Framing!NewView(udp_buf[offset + 1], received - offset) # "Ok"
  BY DEF Framing!FramingInv, Framing!LoopEnded, framing_pc
<1>2. offset \in Nat /\ received \in Nat /\ offset < received
  BY InHandFacts DEF WholeMessageAt
<1>3. InHand[offset + 1] = udp_buf[offset + 1] /\ InHand[offset + 1] \in Headers
  <2>1. offset + 1 \in 1..Len(InHand) /\ offset + 1 \in 1..received
    BY <1>2, InHandFacts
  <2> QED BY <2>1, InHandFacts, ElementOfSeq
<1> DEFINE h == udp_buf[offset + 1]
<1>4. /\ h.marker /\ MINIMUM_HEADER_LEN_WORDS <= h.total_length_words
      /\ offset + h.total_length_words <= received /\ h.total_length_words \in Nat
  BY <1>3, InHandFacts, HeaderAssumption DEF WholeMessageAt
<1> HIDE DEF h
<1>5. Framing!NewView(h, received - offset) = "Ok"
  BY <1>2, <1>4, HeaderAssumption DEF Framing!NewView
<1> QED BY <1>1, <1>2, <1>5 DEF h

-----------------------------------------------------------------------------
(* How many messages were sent for the datagram in hand. *)
Base == Len(extracted) - Len(frames)

LEMMA SentFacts ==
  ASSUME ProcessingInv
  PROVE  /\ SentOfDatagram \in Nat
         /\ IsFiniteSet({j \in DOMAIN out : out[j].id > Base})
         /\ Len(out) \in Nat /\ DOMAIN out = 1..Len(out)
<1>1. Len(out) \in Nat /\ DOMAIN out = 1..Len(out)
  BY DEF ProcessingInv, ProcessingTypeOK
<1> DEFINE S == {j \in DOMAIN out : out[j].id > Base}
<1>2. IsFiniteSet(1..Len(out)) /\ S \in SUBSET (1..Len(out))
  BY <1>1, FS_Interval
<1> HIDE DEF S
<1>3. IsFiniteSet(S)
  BY <1>2, FS_Subset
<1>4. Cardinality(S) \in Nat
  BY <1>3, FS_CardinalityType
<1> QED BY <1>1, <1>3, <1>4 DEF S, SentOfDatagram, Base

LEMMA SentStays ==
  ASSUME out' = out, Base' = Base
  PROVE  SentOfDatagram' = SentOfDatagram
  BY DEF SentOfDatagram, Base

LEMMA SentStartsAtZero ==
  ASSUME ProcessingInv, out' = out, extracted' = extracted, frames' = <<>>
  PROVE  SentOfDatagram' = 0
<1>1. \A j \in DOMAIN out : out[j].id \in 1..Len(extracted)
  BY DEF ProcessingInv, SentForExtracted
<1>2. Len(extracted) \in Nat
  BY DEF ProcessingInv, ProcessingTypeOK
<1>3. {j \in DOMAIN out' : out'[j].id > Len(extracted') - Len(frames')} = {}
  BY <1>1, <1>2
<1> QED BY <1>3, FS_EmptySet DEF SentOfDatagram

LEMMA SentGrows ==
  ASSUME Framing!FramingInv, ProcessingInv, cursor <= Len(frames), NEW m, Send(m),
         UNCHANGED <<extracted, frames>>
  PROVE  SentOfDatagram' = SentOfDatagram + 1
<1> DEFINE o == [message |-> m, id |-> FrameId]
           S == {j \in DOMAIN out : out[j].id > Base}
           n == Len(out) + 1
<1>1. Base \in Int /\ FrameId > Base /\ o.id = FrameId
  <2>1. cursor \in 1..Len(frames) /\ Len(frames) \in Nat /\ Len(extracted) \in Nat
    BY FrameInHand, FramingFacts DEF ProcessingInv, ProcessingTypeOK
  <2> QED BY <2>1 DEF FrameId, Base
<1> HIDE DEF o
<1>2. /\ Len(out) \in Nat /\ DOMAIN out = 1..Len(out) /\ IsFiniteSet(S)
      /\ out \in Seq([message : Messages, id : Nat])
  BY SentFacts DEF ProcessingInv, ProcessingTypeOK
<1>3. /\ DOMAIN out' = 1..n /\ out'[n] = o /\ \A j \in 1..Len(out) : out'[j] = out[j]
  BY <1>2 DEF Send, o
<1>4. n \notin S /\ 1..n = 1..Len(out) \cup {n} /\ n \notin 1..Len(out)
  BY <1>2
<1>5. {j \in DOMAIN out' : out'[j].id > Base} = S \cup {n}
  <2> HIDE DEF n
  <2> QED BY <1>1, <1>2, <1>3, <1>4
<1>6. Base' = Base
  BY DEF Base
<1> HIDE DEF S, n
<1>7. Cardinality(S \cup {n}) = Cardinality(S) + 1
  BY <1>2, <1>4, FS_AddElement
<1> QED BY <1>5, <1>6, <1>7 DEF SentOfDatagram, S, Base

-----------------------------------------------------------------------------
(* Where the frame in hand starts, and what the datagram comes to there.   *)
Ahead == IF cursor <= Len(frames) THEN frames[cursor].start ELSE offset

At0(o) == Outcome(InHand, src_ip)[o]

All == Owed(InHand, src_ip)

Left == SubSeq(All, SentOfDatagram + 1, Len(All))

(* The messages still owed are those of what is left of the frame in hand  *)
(* and of the frames after it.                                             *)
LeftIs(messages, o) ==
  /\ messages \o Left = At0(o).messages
  /\ Fatal(InHand, src_ip) = At0(o).fatal

RelayInv ==
  /\ pc \in {"recv", "extract"} => cursor = 1
  /\ pc # "recv" => SentOfDatagram \in 0..Len(All)
  /\ pc = "extract" => SentOfDatagram = 0
  /\ pc \in {"process", "neutron", "pu00"} => LeftIs(<<>>, Ahead)
  /\ pc = "neutron" => PacketType(frame) = "NeutronData"
  /\ pc \in {"pu00", "parse"} => Timed(frame)
  /\ pc = "parse" => LeftIs(<<Pu00(frame, src_ip)>>, Ahead)
  /\ pc = "ev44" => /\ Left = <<Ev44(frame)>> \o At0(FrameEnd(cursor)).messages
                    /\ Fatal(InHand, src_ip) = At0(FrameEnd(cursor)).fatal
  /\ pc = "error" => LeftIs(<<>>, FrameEnd(cursor))

(* What the datagram comes to at a frame. *)
LEMMA OutcomeAtFrame ==
  ASSUME Framing!FramingInv, ProcessingInv, pc # "recv", cursor <= Len(frames)
  PROVE  /\ At0(Ahead) =
              IF Kills(frame)
                THEN [messages |-> MessagesOfFrame(frame, src_ip), fatal |-> TRUE]
                ELSE [messages |-> MessagesOfFrame(frame, src_ip)
                                     \o At0(FrameEnd(cursor)).messages,
                      fatal    |-> At0(FrameEnd(cursor)).fatal]
         /\ At0(FrameEnd(cursor)) \in Outcomes(InHand, src_ip)
<1>1. cursor \in 1..Len(frames) /\ Ahead = frames[cursor].start /\ InHand \in Seq(Headers)
  BY FrameInHand, InHandFacts DEF Ahead
<1> DEFINE o == frames[cursor].start
<1>2. /\ o \in 0..Len(InHand) /\ WholeMessageAt(InHand, o)
      /\ InHand[o + 1] = frame /\ FrameEnd(cursor) \in 0..Len(InHand)
      /\ o + frame.total_length_words = FrameEnd(cursor) /\ content_len = Len(InHand) - o
  BY <1>1, FrameIsWhole, InHandFacts DEF frame, FrameEnd, content_len
<1> HIDE DEF o
<1>3. At0(o) = OutcomeAt(Outcome(InHand, src_ip), InHand, src_ip, o)
  BY <1>1, <1>2, OutcomeUnfolds DEF At0
<1>4. Rest(Outcome(InHand, src_ip), InHand, o) = At0(FrameEnd(cursor))
  BY <1>2 DEF Rest, At0
<1>5. At0(FrameEnd(cursor)) \in Outcomes(InHand, src_ip)
  BY <1>1, <1>2, OutcomeType DEF At0
<1> QED BY <1>1, <1>2, <1>3, <1>4, <1>5 DEF OutcomeAt, o

(* The frame after the one in hand starts where that one ends. *)
LEMMA NextAhead ==
  ASSUME Framing!FramingInv, ProcessingInv, pc # "recv", cursor <= Len(frames),
         cursor' = cursor + 1, UNCHANGED <<frames, offset>>
  PROVE  Ahead' = FrameEnd(cursor)
<1>1. cursor \in 1..Len(frames) /\ Len(frames) \in Nat
  BY FrameInHand, FramingFacts
<1>2. FrameEnd(cursor) = IF cursor = Len(frames) THEN offset ELSE frames[cursor + 1].start
  BY <1>1, FrameType
<1> QED BY <1>1, <1>2 DEF Ahead

LEMMA LeftType ==
  ASSUME Framing!FramingInv, ProcessingInv, RelayInv, pc # "recv"
  PROVE  /\ All \in Seq(MessagesFrom(InHand, src_ip))
         /\ Left \in Seq(MessagesFrom(InHand, src_ip))
         /\ Len(Left) = Len(All) - SentOfDatagram
<1> DEFINE M == MessagesFrom(InHand, src_ip)
<1>1. All \in Seq(M)
  BY InHandFacts, OwedType DEF All
<1>2. SentOfDatagram \in 0..Len(All) /\ Len(All) \in Nat
  BY <1>1 DEF RelayInv
<1>3. \A i \in (SentOfDatagram + 1)..Len(All) : All[i] \in M
  BY <1>1, <1>2, ElementOfSeq
<1> HIDE DEF M
<1>4. /\ SubSeq(All, SentOfDatagram + 1, Len(All)) \in Seq(M)
      /\ Len(SubSeq(All, SentOfDatagram + 1, Len(All)))
           = IF SentOfDatagram + 1 <= Len(All) THEN Len(All) - (SentOfDatagram + 1) + 1 ELSE 0
  BY <1>2, <1>3, SubSeqProperties
<1> QED BY <1>1, <1>2, <1>4 DEF Left, M

(* What is read here does not change while one datagram is served. *)
LEMMA SameDatagram ==
  ASSUME UNCHANGED <<sent, received, src_ip>>
  PROVE  /\ InHand' = InHand /\ All' = All /\ \A o : At0(o)' = At0(o)
         /\ Fatal(InHand, src_ip)' = Fatal(InHand, src_ip)
  BY DEF InHand, All, At0

LEMMA QuietStep ==
  ASSUME UNCHANGED <<sent, received, src_ip, out>>, Base' = Base
  PROVE  SentOfDatagram' = SentOfDatagram /\ Left' = Left
  BY SameDatagram, SentStays DEF Left

(* A step that sends nothing and neither takes a datagram nor ends one. *)
LEMMA QuietPromise ==
  ASSUME UNCHANGED <<sent, received, src_ip, out>>, Base' = Base,
         pc' = pc \/ {pc, pc'} \cap {"recv", "panicked"} = {}
  PROVE  UNCHANGED Promise!relay_vars
  BY SameDatagram, QuietStep DEF Promise!relay_vars, Left, All

-----------------------------------------------------------------------------
(* Outside the loop over the frames. *)
LEMMA RelayInitHolds == ProcessingInit => RelayInv /\ Promise!RelayInit
  BY DEF ProcessingInit, Init, RelayInv, Promise!RelayInit

LEMMA ReceiveTakes ==
  ASSUME Framing!FramingInv, ProcessingInv, RelayInv,
         NEW d \in Datagrams, NEW s \in Sources, Receive(d, s)
  PROVE  RelayInv' /\ Promise!Take(d, s)
<1>1. /\ pc = "recv" /\ pc' = "extract" /\ cursor' = 1 /\ out' = out /\ extracted' = extracted
      /\ frames' = frames /\ src_ip' = s /\ sent' = d /\ received' = ReceivedWords(d)
  BY DEF Receive, RecvFrom
<1>2. frames = <<>>
  BY <1>1, FramingFacts
<1>3. SentOfDatagram' = 0
  BY <1>1, <1>2, SentStartsAtZero
<1>4. InHand' = Promise!Cut(d)
  BY <1>1 DEF InHand, Promise!Cut, ReceivedWords
<1>5. InHand' \in Seq(Headers)
  <2>1. d \in Seq(Headers) /\ Len(d) \in Nat /\ ReceivedWords(d) \in Nat /\ ReceivedWords(d) <= Len(d)
    BY FramingAssumption DEF ReceivedWords
  <2>2. \A i \in 1..ReceivedWords(d) : d[i] \in Headers
    BY <2>1, ElementOfSeq
  <2> QED BY <1>1, <2>1, <2>2, SubSeqProperties DEF InHand
<1>6. /\ All' = Promise!Owed(Promise!Cut(d), s)
      /\ Fatal(InHand, src_ip)' = Promise!Fatal(Promise!Cut(d), s)
  BY <1>1, <1>4, SameReference DEF All
<1>7. All' \in Seq(MessagesFrom(InHand, src_ip)')
  BY <1>5, OwedType DEF All
<1>8. Left' = All'
  BY <1>3, <1>7, SubSeqFull DEF Left
<1>9. RelayInv'
  BY <1>1, <1>3, <1>7 DEF RelayInv
<1>10. Promise!Take(d, s)
  BY <1>1, <1>6, <1>8 DEF Promise!Take, Left, All
<1> QED BY <1>9, <1>10

LEMMA ExtractFrameWaits ==
  ASSUME Framing!FramingInv, ProcessingInv, RelayInv, ExtractFrame
  PROVE  RelayInv' /\ UNCHANGED Promise!relay_vars
<1>1. /\ pc = "extract" /\ pc' = "extract" /\ UNCHANGED <<sent, received, src_ip, cursor, out>>
      /\ \E f : frames' = Append(frames, f)
      /\ \E e : extracted' = Append(extracted, e)
  BY DEF ExtractFrame, PushFrame, Iterating
<1>2. Base' = Base
  <2>1. frames \in Seq([start : Nat, header : Headers]) /\ extracted \in Seq([header : Headers, src : Sources])
    BY FramingFacts DEF ProcessingInv, ProcessingTypeOK
  <2>2. /\ Len(frames') = Len(frames) + 1 /\ Len(extracted') = Len(extracted) + 1
        /\ Len(frames) \in Nat /\ Len(extracted) \in Nat
    BY <1>1, <2>1
  <2> QED BY <2>2 DEF Base
<1>3. RelayInv'
  BY <1>1, <1>2, SameDatagram, QuietStep DEF RelayInv
<1> QED BY <1>1, <1>2, <1>3, QuietPromise

LEMMA StopExtractingWaits ==
  ASSUME Framing!FramingInv, ProcessingInv, RelayInv, StopExtracting
  PROVE  RelayInv' /\ UNCHANGED Promise!relay_vars
<1>1. /\ pc = "extract" /\ pc' = "process"
      /\ UNCHANGED <<sent, received, src_ip, cursor, out, frames, extracted, offset>>
  BY DEF StopExtracting, BreakAtPadding, BreakTooShort, BreakTooLong, EndOfContent, Iterating,
         processing_vars
<1>2. Base' = Base
  BY <1>1 DEF Base
<1>3. /\ SentOfDatagram = 0 /\ cursor = 1
      /\ All \in Seq(MessagesFrom(InHand, src_ip)) /\ Left \in Seq(MessagesFrom(InHand, src_ip))
  BY <1>1, LeftType DEF RelayInv
<1>4. Left = All /\ <<>> \o Left = Left
  BY <1>3, SubSeqFull, ConcatEmptySeq DEF Left
<1>5. Ahead = 0
  <2>1. frames \in Seq([start : Nat, header : Headers]) /\ Len(frames) \in Nat
    BY FramingFacts
  <2> QED BY <1>3, <2>1 DEF Ahead, Framing!FramingInv, Framing!FramesTile
<1>6. LeftIs(<<>>, Ahead)
  BY <1>4, <1>5 DEF LeftIs, All, Owed, At0, Fatal
<1>7. LeftIs(<<>>, Ahead)'
  BY <1>1, <1>2, <1>6, SameDatagram, QuietStep DEF LeftIs, Ahead
<1>8. RelayInv'
  BY <1>1, <1>2, <1>7, SameDatagram, QuietStep DEF RelayInv
<1> QED BY <1>1, <1>2, <1>8, QuietPromise

LEMMA EndOfFramesFinishes ==
  ASSUME Framing!FramingInv, ProcessingInv, RelayInv, EndOfFrames
  PROVE  RelayInv' /\ Promise!Finish
<1>1. /\ pc = "process" /\ pc' = "recv" /\ cursor' = 1 /\ out' = out /\ ~(cursor <= Len(frames))
  <2>1. cursor \in Nat /\ Len(frames) \in Nat
    BY FramingFacts DEF ProcessingInv, ProcessingTypeOK
  <2> QED BY <2>1 DEF EndOfFrames, Return
<1>2. LeftIs(<<>>, offset)
  BY <1>1 DEF RelayInv, Ahead
<1>3. At0(offset) = [messages |-> <<>>, fatal |-> FALSE]
  <2>1. ~WholeMessageAt(InHand, offset) /\ InHand \in Seq(Headers) /\ offset \in 0..Len(InHand)
    BY <1>1, NothingAtOffset, InHandFacts
  <2> QED BY <2>1, OutcomeUnfolds DEF At0, OutcomeAt
<1>4. Left = <<>> /\ Fatal(InHand, src_ip) = FALSE
  <2>1. <<>> \o Left = Left
    BY <1>1, LeftType, ConcatEmptySeq
  <2> QED BY <1>2, <1>3, <2>1 DEF LeftIs
<1>5. RelayInv'
  BY <1>1 DEF RelayInv
<1>6. Promise!Finish
  BY <1>1, <1>4 DEF Promise!Finish, Left, All
<1> QED BY <1>5, <1>6

-----------------------------------------------------------------------------
(* Inside it: what the frame in hand owes. *)
LEMMA FrameMessages ==
  ASSUME Framing!FramingInv, ProcessingInv, pc # "recv", cursor <= Len(frames), Timed(frame)
  PROVE  {Pu00(frame, src_ip), Ev44(frame)} \subseteq MessagesFrom(InHand, src_ip)
<1>1. cursor \in 1..Len(frames)
  BY FrameInHand
<1> DEFINE i == frames[cursor].start + 1
<1>2. i \in 1..Len(InHand) /\ InHand[i] = frame
  <2>1. /\ WholeMessageAt(InHand, frames[cursor].start) /\ frames[cursor].start \in 0..Len(InHand)
        /\ InHand[i] = frame /\ InHand \in Seq(Headers)
    BY <1>1, FrameIsWhole, InHandFacts DEF frame
  <2> QED BY <2>1 DEF WholeMessageAt
<1> HIDE DEF i
<1> QED BY <1>2 DEF MessagesFrom

LEMMA Cancel ==
  ASSUME NEW S, NEW m \in S, NEW s \in Seq(S), NEW t \in Seq(S), <<m>> \o s = <<m>> \o t
  PROVE  s = t
<1>1. <<m>> \in Seq(S)
  OBVIOUS
<1> QED BY <1>1, ConcatSimplifications

(* A message of the frame is sent: it is the first of those left. *)
LEMMA SendDelivers ==
  ASSUME Framing!FramingInv, ProcessingInv, RelayInv,
         NEW here, NEW there, At(here, there), {here, there} \cap {"recv", "panicked"} = {},
         cursor <= Len(frames),
         NEW m \in MessagesFrom(InHand, src_ip), Send(m),
         NEW X \in Seq(MessagesFrom(InHand, src_ip)), Left = <<m>> \o X
  PROVE  Left' = X /\ SentOfDatagram' \in 0..Len(All') /\ Promise!Deliver
<1> DEFINE M == MessagesFrom(InHand, src_ip)
           n == SentOfDatagram
<1>1. pc = here /\ pc' = there /\ UNCHANGED <<sent, received, src_ip, extracted, frames>>
  BY DEF At
<1>2. /\ All \in Seq(M) /\ Left \in Seq(M) /\ Len(Left) = Len(All) - n
      /\ n \in 0..Len(All) /\ Len(All) \in Nat
  <2>1. All \in Seq(M) /\ Left \in Seq(M) /\ Len(Left) = Len(All) - n
    BY <1>1, LeftType
  <2>2. n \in 0..Len(All)
    BY <1>1 DEF RelayInv
  <2> HIDE DEF M, n
  <2> QED BY <2>1, <2>2
<1>3. SentOfDatagram' = n + 1 /\ All' = All
  BY <1>1, SentGrows, SameDatagram
<1> HIDE DEF M, n
<1>4. Left # <<>> /\ Head(Left) = m /\ Tail(Left) = X /\ Len(Left) > 0
  BY DEF M
<1>5. n + 1 \in 1..Len(All) /\ Len(All) \in (n + 1)..Len(All)
  BY <1>2, <1>4
<1>6. Tail(Left) = SubSeq(All, n + 2, Len(All))
  <2>1. Tail(SubSeq(All, n + 1, Len(All))) = SubSeq(All, (n + 1) + 1, Len(All))
    BY <1>2, <1>5, HeadTailOfSubSeq
  <2>2. (n + 1) + 1 = n + 2
    BY <1>2
  <2> QED BY <2>1, <2>2 DEF Left, n
<1>7. Left' = Tail(Left)
  <2>1. SentOfDatagram' + 1 = n + 2
    BY <1>2, <1>3
  <2> QED BY <1>3, <1>6, <2>1 DEF Left
<1>8. [j \in DOMAIN out' |-> out'[j].message]
        = Append([j \in DOMAIN out |-> out[j].message], m)
  <2> DEFINE o == [message |-> m, id |-> FrameId]
             D == [j \in 1..Len(out) |-> out[j].message]
  <2>1. out \in Seq([message : Messages, id : Nat]) /\ DOMAIN out = 1..Len(out) /\ Len(out) \in Nat
    BY SentFacts DEF ProcessingInv, ProcessingTypeOK
  <2>2. o.message = m
    OBVIOUS
  <2> HIDE DEF o
  <2>3. /\ DOMAIN out' = 1..(Len(out) + 1) /\ out'[Len(out) + 1] = o
        /\ \A j \in 1..Len(out) : out'[j] = out[j]
    BY <2>1 DEF Send, o
  <2>4. Append(D, m) = [j \in 1..(Len(out) + 1) |-> IF j = Len(out) + 1 THEN m ELSE out[j].message]
    BY <2>1
  <2>5. \A j \in 1..(Len(out) + 1) : j \in 1..Len(out) \/ j = Len(out) + 1
    BY <2>1
  <2>6. [j \in 1..(Len(out) + 1) |-> out'[j].message]
          = [j \in 1..(Len(out) + 1) |-> IF j = Len(out) + 1 THEN m ELSE out[j].message]
    BY <2>2, <2>3, <2>5
  <2> QED BY <2>1, <2>3, <2>4, <2>6
<1>9. Fatal(InHand, src_ip)' = Fatal(InHand, src_ip)
  BY <1>1, SameDatagram
<1>10. Promise!Deliver
  BY <1>1, <1>4, <1>7, <1>8, <1>9 DEF Promise!Deliver, Left, All
<1>11. SentOfDatagram' \in 0..Len(All')
  BY <1>2, <1>3, <1>5
<1> QED BY <1>4, <1>7, <1>10, <1>11

(* A step within one frame that sends nothing. *)
LEMMA WithinFrame ==
  ASSUME NEW here, NEW there, At(here, there), {here, there} \cap {"recv", "panicked"} = {}, out' = out
  PROVE  /\ InHand' = InHand /\ All' = All /\ Left' = Left /\ SentOfDatagram' = SentOfDatagram
         /\ Fatal(InHand, src_ip)' = Fatal(InHand, src_ip) /\ \A o : At0(o)' = At0(o)
         /\ UNCHANGED Promise!relay_vars
<1>1. UNCHANGED <<sent, received, src_ip, extracted, frames>> /\ pc = here /\ pc' = there /\ Base' = Base
  BY DEF At, Base
<1> QED BY <1>1, SameDatagram, QuietStep, QuietPromise

(* A frame that is not a neutron frame with a valid time owes nothing. *)
LEMMA UntimedFrame ==
  ASSUME Framing!FramingInv, ProcessingInv, pc # "recv", cursor <= Len(frames),
         ~Timed(frame), LeftIs(<<>>, Ahead)
  PROVE  LeftIs(<<>>, FrameEnd(cursor))
<1>1. MessagesOfFrame(frame, src_ip) = <<>> /\ ~Kills(frame)
  BY DEF MessagesOfFrame, Kills
<1>2. At0(FrameEnd(cursor)).messages \in Seq(MessagesFrom(InHand, src_ip))
  BY OutcomeAtFrame DEF Outcomes
<1>3. <<>> \o At0(FrameEnd(cursor)).messages = At0(FrameEnd(cursor)).messages
  BY <1>2, ConcatEmptySeq
<1>4. /\ At0(Ahead).messages = At0(FrameEnd(cursor)).messages
      /\ At0(Ahead).fatal = At0(FrameEnd(cursor)).fatal
  BY <1>1, <1>3, OutcomeAtFrame
<1> QED BY <1>4 DEF LeftIs

LEMMA BeginFrameWaits ==
  ASSUME Framing!FramingInv, ProcessingInv, RelayInv, BeginFrame
  PROVE  RelayInv' /\ UNCHANGED Promise!relay_vars
<1>1. PICK there \in {"neutron", "error"} :
        /\ At("process", there) /\ (there = "neutron" <=> PacketType(frame) = "NeutronData")
        /\ cursor <= Len(frames) /\ cursor' = cursor /\ out' = out
  BY DEF BeginFrame
<1>2. pc = "process" /\ pc' = there /\ UNCHANGED <<frames, offset, src_ip>>
  BY <1>1 DEF At
<1>3. LeftIs(<<>>, Ahead)
  BY <1>2 DEF RelayInv
<1>4. there = "error" => LeftIs(<<>>, FrameEnd(cursor))
  BY <1>1, <1>2, <1>3, UntimedFrame DEF Timed
<1>5. RelayInv'
  <2>1. frame' = frame /\ Ahead' = Ahead /\ FrameEnd(cursor)' = FrameEnd(cursor)
    BY <1>1, <1>2 DEF frame, Ahead, FrameEnd
  <2> QED BY <1>1, <1>2, <1>3, <1>4, <2>1, WithinFrame DEF RelayInv, LeftIs
<1> QED BY <1>1, <1>5, WithinFrame

LEMMA RejectTimeWaits ==
  ASSUME Framing!FramingInv, ProcessingInv, RelayInv, RejectTime
  PROVE  RelayInv' /\ UNCHANGED Promise!relay_vars
<1>1. /\ At("neutron", "error") /\ frame.pulse_time = NoTime /\ cursor' = cursor /\ out' = out
      /\ pc = "neutron" /\ pc' = "error" /\ UNCHANGED <<frames, offset, src_ip>>
  BY DEF RejectTime, At
<1>2. cursor <= Len(frames) /\ LeftIs(<<>>, Ahead)
  BY <1>1 DEF RelayInv, ProcessingInv, ProcessingTypeOK
<1>3. LeftIs(<<>>, FrameEnd(cursor))
  BY <1>1, <1>2, UntimedFrame DEF Timed
<1>4. RelayInv'
  <2>1. FrameEnd(cursor)' = FrameEnd(cursor)
    BY <1>1 DEF FrameEnd
  <2> QED BY <1>1, <1>3, <2>1, WithinFrame DEF RelayInv, LeftIs
<1> QED BY <1>1, <1>4, WithinFrame

LEMMA AcceptTimeWaits ==
  ASSUME Framing!FramingInv, ProcessingInv, RelayInv, AcceptTime
  PROVE  RelayInv' /\ UNCHANGED Promise!relay_vars
<1>1. /\ At("neutron", "pu00") /\ frame.pulse_time # NoTime /\ cursor' = cursor /\ out' = out
      /\ pc = "neutron" /\ pc' = "pu00" /\ UNCHANGED <<frames, offset, src_ip>>
  BY DEF AcceptTime, At
<1>2. LeftIs(<<>>, Ahead) /\ Timed(frame)
  BY <1>1 DEF RelayInv, Timed
<1>3. frame' = frame /\ Ahead' = Ahead
  BY <1>1 DEF frame, Ahead
<1>4. RelayInv'
  BY <1>1, <1>2, <1>3, WithinFrame DEF RelayInv, LeftIs
<1> QED BY <1>1, <1>4, WithinFrame

LEMMA Pair ==
  ASSUME NEW S, NEW a \in S, NEW b \in S
  PROVE  <<a, b>> = <<a>> \o <<b>>
<1>1. <<a, b>> \in Seq(S) /\ Len(<<a, b>>) = 2
  OBVIOUS
<1>2. <<a>> \o <<b>> \in Seq(S) /\ Len(<<a>> \o <<b>>) = 2
  OBVIOUS
<1>3. <<a, b>>[1] = (<<a>> \o <<b>>)[1] /\ <<a, b>>[2] = (<<a>> \o <<b>>)[2]
  OBVIOUS
<1>4. \A i \in 1..2 : i = 1 \/ i = 2
  OBVIOUS
<1> QED BY <1>1, <1>2, <1>3, <1>4, SeqEqual

(* What a frame with a valid time owes, by what its data turns out to be.  *)
LEMMA TimedFrame ==
  ASSUME Framing!FramingInv, ProcessingInv, pc # "recv", cursor <= Len(frames), Timed(frame)
  PROVE  LET pu00 == Pu00(frame, src_ip)
             M == MessagesFrom(InHand, src_ip)
             rest == At0(FrameEnd(cursor)).messages
         IN  /\ rest \in Seq(M) /\ pu00 \in M /\ Ev44(frame) \in M
             /\ ParsePanics(frame, content_len) =>
                  At0(Ahead).messages = <<pu00>> \o <<>> /\ At0(Ahead).fatal = TRUE
             /\ ~ParsePanics(frame, content_len) =>
                  /\ At0(Ahead).fatal = At0(FrameEnd(cursor)).fatal
                  /\ ~ParseOk(frame) \/ DataWords(frame) = 0 => At0(Ahead).messages = <<pu00>> \o rest
                  /\ ParseOk(frame) /\ DataWords(frame) # 0 =>
                       At0(Ahead).messages = <<pu00>> \o (<<Ev44(frame)>> \o rest)
<1> DEFINE pu00 == Pu00(frame, src_ip)
           ev44 == Ev44(frame)
           M == MessagesFrom(InHand, src_ip)
           rest == At0(FrameEnd(cursor)).messages
           of_frame == MessagesOfFrame(frame, src_ip)
<1>1. rest \in Seq(M) /\ pu00 \in M /\ ev44 \in M
  BY OutcomeAtFrame, FrameMessages DEF Outcomes
<1>2. Kills(frame) <=> ParsePanics(frame, content_len)
  <2>1. cursor \in 1..Len(frames)
    BY FrameInHand
  <2>2. /\ frame \in Headers /\ frame.total_length_words \in Nat /\ content_len \in Nat
        /\ frame.total_length_words <= content_len
    BY <2>1, FrameIsWhole, FrameType, InHandFacts, HeaderAssumption
    DEF frame, FrameEnd, content_len
  <2> QED BY <2>2, PanicsByHeader DEF Kills
<1>3. ParsePanics(frame, content_len) => At0(Ahead).messages = of_frame /\ At0(Ahead).fatal = TRUE
  BY <1>2, OutcomeAtFrame
<1>4. ~ParsePanics(frame, content_len) =>
        At0(Ahead).messages = of_frame \o rest /\ At0(Ahead).fatal = At0(FrameEnd(cursor)).fatal
  BY <1>2, OutcomeAtFrame
<1>5. ParsePanics(frame, content_len) \/ ~ParseOk(frame) \/ DataWords(frame) = 0 => of_frame = <<pu00>>
  BY <1>2 DEF MessagesOfFrame
<1>6. ~ParsePanics(frame, content_len) /\ ParseOk(frame) /\ DataWords(frame) # 0 => of_frame = <<pu00, ev44>>
  BY <1>2 DEF MessagesOfFrame
<1> HIDE DEF pu00, ev44, M, rest, of_frame
<1>7. <<pu00>> \o <<>> = <<pu00>>
  BY <1>1
<1>8. <<pu00, ev44>> \o rest = <<pu00>> \o (<<ev44>> \o rest)
  <2>1. <<pu00>> \in Seq(M) /\ <<ev44>> \in Seq(M)
    BY <1>1
  <2>2. <<pu00, ev44>> = <<pu00>> \o <<ev44>>
    BY <1>1, Pair
  <2> QED BY <1>1, <2>1, <2>2, ConcatAssociative
<1>9. /\ ParsePanics(frame, content_len) =>
           At0(Ahead).messages = <<pu00>> \o <<>> /\ At0(Ahead).fatal = TRUE
      /\ ~ParsePanics(frame, content_len) =>
           /\ At0(Ahead).fatal = At0(FrameEnd(cursor)).fatal
           /\ ~ParseOk(frame) \/ DataWords(frame) = 0 => At0(Ahead).messages = <<pu00>> \o rest
           /\ ParseOk(frame) /\ DataWords(frame) # 0 =>
                At0(Ahead).messages = <<pu00>> \o (<<ev44>> \o rest)
  BY <1>3, <1>4, <1>5, <1>6, <1>7, <1>8
<1> QED BY <1>1, <1>9 DEF pu00, ev44, M, rest

LEMMA SendPu00Delivers ==
  ASSUME Framing!FramingInv, ProcessingInv, RelayInv, SendPu00
  PROVE  RelayInv' /\ Promise!Deliver
<1> DEFINE pu00 == Pu00(frame, src_ip)
           M == MessagesFrom(InHand, src_ip)
           rest == At0(FrameEnd(cursor)).messages
<1>1. /\ At("pu00", "parse") /\ Send(pu00) /\ cursor' = cursor
      /\ pc = "pu00" /\ pc' = "parse" /\ UNCHANGED <<frames, offset, src_ip, sent, received>>
  BY DEF SendPu00, At
<1>2. cursor <= Len(frames) /\ LeftIs(<<>>, Ahead) /\ Timed(frame)
  BY <1>1 DEF RelayInv, ProcessingInv, ProcessingTypeOK
<1>3. <<>> \o Left = Left
  BY <1>1, LeftType, ConcatEmptySeq
<1>4. Left = At0(Ahead).messages /\ Fatal(InHand, src_ip) = At0(Ahead).fatal
  BY <1>2, <1>3 DEF LeftIs
<1>5. pu00 \in M /\ \E X \in Seq(M) : Left = <<pu00>> \o X
  <2>1. rest \in Seq(M) /\ pu00 \in M /\ Ev44(frame) \in M
    BY <1>1, <1>2, TimedFrame
  <2>2. \/ Left = <<pu00>> \o <<>> \/ Left = <<pu00>> \o rest
        \/ Left = <<pu00>> \o (<<Ev44(frame)>> \o rest)
    BY <1>1, <1>2, <1>4, TimedFrame
  <2> HIDE DEF M, rest, pu00
  <2>3. <<>> \in Seq(M) /\ <<Ev44(frame)>> \o rest \in Seq(M)
    BY <2>1
  <2> QED BY <2>1, <2>2, <2>3
<1>6. PICK X \in Seq(M) : Left = <<pu00>> \o X
  BY <1>5
<1>7. Left' = X /\ SentOfDatagram' \in 0..Len(All') /\ Promise!Deliver
  <2> HIDE DEF pu00
  <2> QED BY <1>1, <1>2, <1>5, <1>6, SendDelivers
<1>8. frame' = frame /\ Ahead' = Ahead
  BY <1>1 DEF frame, Ahead
<1>9. LeftIs(<<pu00>>, Ahead)'
  <2>1. pu00' = pu00
    BY <1>1, <1>8
  <2> HIDE DEF pu00
  <2> QED BY <1>1, <1>4, <1>6, <1>7, <1>8, <2>1, SameDatagram DEF LeftIs
<1>10. RelayInv'
  <2>1. Timed(frame)'
    BY <1>2, <1>8
  <2> QED BY <1>1, <1>7, <1>9, <2>1 DEF RelayInv
<1> QED BY <1>7, <1>10

(* The data of a frame has been looked at; its pu00 was the first message. *)
LEMMA ParsedFrame ==
  ASSUME Framing!FramingInv, ProcessingInv, RelayInv, pc = "parse"
  PROVE  /\ cursor <= Len(frames)
         /\ ParsePanics(frame, content_len) => Left = <<>> /\ Fatal(InHand, src_ip) = TRUE
         /\ ~ParsePanics(frame, content_len) =>
              /\ Fatal(InHand, src_ip) = At0(FrameEnd(cursor)).fatal
              /\ ~ParseOk(frame) \/ DataWords(frame) = 0 => LeftIs(<<>>, FrameEnd(cursor))
              /\ ParseOk(frame) /\ DataWords(frame) # 0 =>
                   Left = <<Ev44(frame)>> \o At0(FrameEnd(cursor)).messages
<1> DEFINE pu00 == Pu00(frame, src_ip)
           ev44 == Ev44(frame)
           M == MessagesFrom(InHand, src_ip)
           rest == At0(FrameEnd(cursor)).messages
<1>1. cursor <= Len(frames) /\ LeftIs(<<pu00>>, Ahead) /\ Timed(frame)
  BY DEF RelayInv, ProcessingInv, ProcessingTypeOK
<1>2. rest \in Seq(M) /\ pu00 \in M /\ ev44 \in M /\ Left \in Seq(M)
  BY <1>1, TimedFrame, LeftType
<1>3. <<pu00>> \o Left = At0(Ahead).messages /\ Fatal(InHand, src_ip) = At0(Ahead).fatal
  BY <1>1 DEF LeftIs
<1>4. ParsePanics(frame, content_len) => At0(Ahead).messages = <<pu00>> \o <<>> /\ At0(Ahead).fatal = TRUE
  BY <1>1, TimedFrame
<1>5. ~ParsePanics(frame, content_len) =>
        /\ At0(Ahead).fatal = At0(FrameEnd(cursor)).fatal
        /\ ~ParseOk(frame) \/ DataWords(frame) = 0 => At0(Ahead).messages = <<pu00>> \o rest
        /\ ParseOk(frame) /\ DataWords(frame) # 0 => At0(Ahead).messages = <<pu00>> \o (<<ev44>> \o rest)
  BY <1>1, TimedFrame
<1> HIDE DEF pu00, ev44, M, rest
<1>6. <<>> \in Seq(M) /\ <<ev44>> \o rest \in Seq(M)
  BY <1>2
<1>7. ParsePanics(frame, content_len) => Left = <<>> /\ Fatal(InHand, src_ip) = TRUE
  BY <1>2, <1>3, <1>4, <1>6, Cancel
<1>8. <<>> \o Left = Left
  BY <1>2, ConcatEmptySeq
<1>9. ~ParsePanics(frame, content_len) /\ (~ParseOk(frame) \/ DataWords(frame) = 0) => Left = rest
  BY <1>2, <1>3, <1>5, <1>6, Cancel
<1>10. ~ParsePanics(frame, content_len) /\ ParseOk(frame) /\ DataWords(frame) # 0 => Left = <<ev44>> \o rest
  BY <1>2, <1>3, <1>5, <1>6, Cancel
<1> QED BY <1>1, <1>3, <1>5, <1>7, <1>8, <1>9, <1>10 DEF LeftIs, ev44, rest

LEMMA PanicDies ==
  ASSUME Framing!FramingInv, ProcessingInv, RelayInv, Panic
  PROVE  RelayInv' /\ Promise!Die
<1>1. /\ At("parse", "panicked") /\ ParsePanics(frame, content_len) /\ out' = out
      /\ pc = "parse" /\ pc' = "panicked"
      /\ UNCHANGED <<sent, received, src_ip, extracted, frames>>
  BY DEF Panic, At
<1>2. Left = <<>> /\ Fatal(InHand, src_ip) = TRUE
  BY <1>1, ParsedFrame
<1>3. Base' = Base
  BY <1>1 DEF Base
<1>4. Left' = Left /\ SentOfDatagram' = SentOfDatagram /\ All' = All
  BY <1>1, <1>3, QuietStep, SameDatagram
<1>5. RelayInv'
  BY <1>1, <1>4 DEF RelayInv
<1>6. Promise!Die
  BY <1>1, <1>2, <1>4 DEF Promise!Die, Left, All
<1> QED BY <1>5, <1>6

LEMMA RejectDataWaits ==
  ASSUME Framing!FramingInv, ProcessingInv, RelayInv, RejectData
  PROVE  RelayInv' /\ UNCHANGED Promise!relay_vars
<1>1. /\ At("parse", "error") /\ ~ParsePanics(frame, content_len) /\ ~ParseOk(frame)
      /\ cursor' = cursor /\ out' = out
      /\ pc = "parse" /\ pc' = "error" /\ UNCHANGED <<frames, offset, src_ip>>
  BY DEF RejectData, At
<1>2. LeftIs(<<>>, FrameEnd(cursor))
  BY <1>1, ParsedFrame
<1>3. RelayInv'
  <2>1. FrameEnd(cursor)' = FrameEnd(cursor)
    BY <1>1 DEF FrameEnd
  <2> QED BY <1>1, <1>2, <2>1, WithinFrame DEF RelayInv, LeftIs
<1> QED BY <1>1, <1>3, WithinFrame

LEMMA CountEventsWaits ==
  ASSUME Framing!FramingInv, ProcessingInv, RelayInv, CountEvents
  PROVE  RelayInv' /\ UNCHANGED Promise!relay_vars
<1>1. /\ At("parse", "ev44") /\ ~ParsePanics(frame, content_len) /\ ParseOk(frame)
      /\ DataWords(frame) > 0 /\ cursor' = cursor /\ out' = out
      /\ pc = "parse" /\ pc' = "ev44" /\ UNCHANGED <<frames, offset, src_ip>>
  BY DEF CountEvents, At
<1>2. /\ Left = <<Ev44(frame)>> \o At0(FrameEnd(cursor)).messages
      /\ Fatal(InHand, src_ip) = At0(FrameEnd(cursor)).fatal
  <2>1. DataWords(frame) # 0
    BY <1>1
  <2> QED BY <1>1, <2>1, ParsedFrame
<1>3. RelayInv'
  <2>1. FrameEnd(cursor)' = FrameEnd(cursor) /\ frame' = frame
    BY <1>1 DEF FrameEnd, frame
  <2>2. Ev44(frame)' = Ev44(frame)
    BY <2>1
  <2> QED BY <1>1, <1>2, <2>1, <2>2, WithinFrame DEF RelayInv
<1> QED BY <1>1, <1>3, WithinFrame

(* The steps that are done with the frame in hand. *)
LEMMA LastStepWaits ==
  ASSUME Framing!FramingInv, ProcessingInv, RelayInv,
         NEW here \in {"parse", "error"}, At(here, "process"), cursor <= Len(frames),
         cursor' = cursor + 1, out' = out, LeftIs(<<>>, FrameEnd(cursor))
  PROVE  RelayInv' /\ UNCHANGED Promise!relay_vars
<1>1. pc = here /\ pc' = "process" /\ UNCHANGED <<frames, offset, src_ip>>
  BY DEF At
<1>2. Ahead' = FrameEnd(cursor)
  BY <1>1, NextAhead
<1>3. LeftIs(<<>>, Ahead)'
  BY <1>1, <1>2, WithinFrame DEF LeftIs
<1>4. RelayInv'
  BY <1>1, <1>3, WithinFrame DEF RelayInv
<1> QED BY <1>4, WithinFrame

LEMMA NoEventsWaits ==
  ASSUME Framing!FramingInv, ProcessingInv, RelayInv, NoEvents
  PROVE  RelayInv' /\ UNCHANGED Promise!relay_vars
<1>1. /\ At("parse", "process") /\ ~ParsePanics(frame, content_len) /\ DataWords(frame) = 0
      /\ cursor' = cursor + 1 /\ out' = out /\ pc = "parse"
  BY DEF NoEvents, At
<1>2. cursor <= Len(frames) /\ LeftIs(<<>>, FrameEnd(cursor))
  BY <1>1, ParsedFrame
<1> QED BY <1>1, <1>2, LastStepWaits

LEMMA CountErrorWaits ==
  ASSUME Framing!FramingInv, ProcessingInv, RelayInv, CountError
  PROVE  RelayInv' /\ UNCHANGED Promise!relay_vars
<1>1. At("error", "process") /\ cursor' = cursor + 1 /\ out' = out /\ pc = "error"
  BY DEF CountError, At
<1>2. cursor <= Len(frames) /\ LeftIs(<<>>, FrameEnd(cursor))
  BY <1>1 DEF RelayInv, ProcessingInv, ProcessingTypeOK
<1> QED BY <1>1, <1>2, LastStepWaits

LEMMA SendEv44Delivers ==
  ASSUME Framing!FramingInv, ProcessingInv, RelayInv, SendEv44
  PROVE  RelayInv' /\ Promise!Deliver
<1> DEFINE ev44 == Ev44(frame)
           M == MessagesFrom(InHand, src_ip)
           rest == At0(FrameEnd(cursor)).messages
<1>1. /\ At("ev44", "process") /\ Send(ev44) /\ cursor' = cursor + 1
      /\ pc = "ev44" /\ pc' = "process" /\ UNCHANGED <<frames, offset, src_ip, sent, received>>
  BY DEF SendEv44, At
<1>2. /\ cursor <= Len(frames) /\ Left = <<ev44>> \o rest
      /\ Fatal(InHand, src_ip) = At0(FrameEnd(cursor)).fatal
  BY <1>1 DEF RelayInv, ProcessingInv, ProcessingTypeOK
<1>3. rest \in Seq(M) /\ Left \in Seq(M)
  BY <1>1, <1>2, OutcomeAtFrame, LeftType DEF Outcomes
<1>4. ev44 \in M
  <2> HIDE DEF M, ev44, rest
  <2>1. Len(Left) = Len(rest) + 1 /\ Left[1] = ev44 /\ Len(rest) \in Nat
    BY <1>2, <1>3
  <2>2. 1 \in 1..Len(Left)
    BY <2>1
  <2> QED BY <1>3, <2>1, <2>2, ElementOfSeq
<1>5. Left' = rest /\ SentOfDatagram' \in 0..Len(All') /\ Promise!Deliver
  <2> HIDE DEF ev44, rest
  <2> QED BY <1>1, <1>2, <1>3, <1>4, SendDelivers
<1>6. Ahead' = FrameEnd(cursor)
  BY <1>1, <1>2, NextAhead
<1>7. LeftIs(<<>>, Ahead)'
  <2>1. <<>> \o rest = rest
    BY <1>3, ConcatEmptySeq
  <2> QED BY <1>1, <1>2, <1>5, <1>6, <2>1, SameDatagram DEF LeftIs
<1>8. RelayInv'
  BY <1>1, <1>5, <1>7 DEF RelayInv
<1> QED BY <1>5, <1>8

-----------------------------------------------------------------------------
(* Steps that change nothing, or only count an error of recv_from. *)
LEMMA IdleWaits ==
  ASSUME Framing!FramingInv, ProcessingInv, RelayInv, ReceiveError \/ UNCHANGED all_vars
  PROVE  RelayInv' /\ UNCHANGED Promise!relay_vars
<1>1. UNCHANGED <<pc, cursor, out, frames, extracted, sent, received, src_ip, offset>>
  BY DEF ReceiveError, RecvError, all_vars, vars, processing_vars
<1>2. Base' = Base
  BY <1>1 DEF Base
<1>3. Left' = Left /\ SentOfDatagram' = SentOfDatagram /\ All' = All
  BY <1>1, <1>2, QuietStep, SameDatagram
<1>4. frame' = frame /\ Ahead' = Ahead /\ FrameEnd(cursor)' = FrameEnd(cursor)
  BY <1>1 DEF frame, Ahead, FrameEnd
<1>5. RelayInv'
  BY <1>1, <1>3, <1>4, SameDatagram DEF RelayInv, LeftIs
<1> QED BY <1>1, <1>2, <1>5, QuietPromise

LEMMA RelayStep ==
  ASSUME Framing!FramingInv, ProcessingInv, RelayInv, [ProcessingNext]_all_vars
  PROVE  RelayInv' /\ [Promise!RelayNext]_(Promise!relay_vars)
<1>1. ASSUME NEW d \in Datagrams, NEW s \in Sources, Receive(d, s)
      PROVE  RelayInv' /\ Promise!RelayNext
  <2>1. RelayInv' /\ Promise!Take(d, s)
    BY <1>1, ReceiveTakes
  <2> QED BY <2>1 DEF Promise!RelayNext
<1>2. CASE ReceiveError \/ UNCHANGED all_vars
  BY <1>2, IdleWaits
<1>3. CASE ExtractFrame \/ StopExtracting
  BY <1>3, ExtractFrameWaits, StopExtractingWaits
<1>4. CASE BeginFrame \/ RejectTime \/ AcceptTime
  BY <1>4, BeginFrameWaits, RejectTimeWaits, AcceptTimeWaits
<1>5. CASE RejectData \/ NoEvents \/ CountEvents \/ CountError
  BY <1>5, RejectDataWaits, NoEventsWaits, CountEventsWaits, CountErrorWaits
<1>6. CASE SendPu00 \/ SendEv44
  BY <1>6, SendPu00Delivers, SendEv44Delivers DEF Promise!RelayNext
<1>7. CASE Panic
  BY <1>7, PanicDies DEF Promise!RelayNext
<1>8. CASE EndOfFrames
  BY <1>8, EndOfFramesFinishes DEF Promise!RelayNext
<1> QED BY <1>1, <1>2, <1>3, <1>4, <1>5, <1>6, <1>7, <1>8 DEF ProcessingNext, Thread, ProcessFrames

(* What the process sends is what the datagrams owe, in order, each        *)
(* message once, nothing of an earlier datagram, and nothing of one frame  *)
(* changed by another's failure: process_udp_bytes_to_kafka with its       *)
(* buffer, loops and early returns implements Relay.                       *)
THEOREM RelayIsKept == ProcessingSpec => RelayKept
<1>1. ProcessingInit => RelayInv /\ Promise!RelayInit
  BY RelayInitHolds
<1>2. Framing!FramingInv /\ ProcessingInv /\ RelayInv /\ [ProcessingNext]_all_vars
        => RelayInv' /\ [Promise!RelayNext]_(Promise!relay_vars)
  BY RelayStep
<1> QED BY <1>1, <1>2, FramingKept, ProcessingInvariant, PTL
        DEF ProcessingSpec, RelayKept, Promise!RelaySpec
=============================================================================
