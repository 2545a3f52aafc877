------------------------ MODULE PacketToFramesProofs ------------------------
(***************************************************************************)
(* The properties of packet_to_frames, for every buffer size, every header *)
(* length and every set of datagrams.                                      *)
(***************************************************************************)
EXTENDS PacketToFrames, TLAPS

(* The received part of the buffer is the datagram, as far as it fits. *)
BufferHoldsDatagram ==
  pc # "recv" => /\ received = ReceivedWords(sent)
                 /\ \A i \in 1..received : udp_buf[i] = sent[i]

(* Between two datagrams the locals are gone. *)
IdleIsClean ==
  pc = "recv" => frames = <<>> /\ offset = 0 /\ received = 0 /\ sent = <<>>

(* The loop has ended for a reason. *)
LoopEnded ==
  pc = "process" => \/ offset >= received
                    \/ NewView(udp_buf[offset + 1], received - offset) # "Ok"

(* The inductive invariant. FramesOfThisDatagram needs BufferHoldsDatagram *)
(* to pass from the buffer to what was sent; NothingReadableLeft needs     *)
(* LoopEnded to know why the loop broke off.                               *)
FramingInv ==
  /\ TypeOK
  /\ BufferHoldsDatagram
  /\ IdleIsClean
  /\ FramesTile
  /\ FramesOfThisDatagram
  /\ LoopEnded

-----------------------------------------------------------------------------
(* What the datagrams and the buffer hold are headers with natural lengths. *)
LEMMA HeaderFields ==
  ASSUME NEW h \in Headers
  PROVE  /\ h.marker \in BOOLEAN
         /\ h.total_length_words \in Nat
         /\ h.header_length_words \in Nat
  BY HeaderAssumption

(* UdpMessageView::new accepts exactly the whole messages of its content. *)
LEMMA NewViewOk ==
  ASSUME NEW h \in Headers, NEW len \in Int
  PROVE  NewView(h, len) = "Ok" <=> /\ h.marker
                                    /\ MINIMUM_HEADER_LEN_WORDS <= h.total_length_words
                                    /\ h.total_length_words <= len
  BY HeaderFields, HeaderAssumption DEF NewView

(* The received words are no more than were sent, and fit the buffer. *)
LEMMA ReceivedWordsBound ==
  ASSUME NEW d \in Seq(Headers)
  PROVE  /\ ReceivedWords(d) \in 0..BufferWords
         /\ ReceivedWords(d) <= Len(d)
         /\ Len(d) <= BufferWords => ReceivedWords(d) = Len(d)
  BY FramingAssumption DEF ReceivedWords

-----------------------------------------------------------------------------
LEMMA FramingInit == Init => FramingInv
  BY FramingAssumption
  DEF Init, FramingInv, TypeOK, BufferHoldsDatagram, IdleIsClean, FramesTile,
      FramesOfThisDatagram, LoopEnded

LEMMA RecvFromKeeps ==
  ASSUME FramingInv, NEW d \in Datagrams, RecvFrom(d)
  PROVE  FramingInv'
<1>1. d \in Seq(Headers)
  BY FramingAssumption
<1>2. pc' = "extract" /\ sent' = d /\ frames' = <<>> /\ offset' = 0
  BY DEF RecvFrom, FramingInv, IdleIsClean
<1>3. received' = ReceivedWords(d) /\ received' \in 0..BufferWords /\ received' <= Len(d)
  BY <1>1, ReceivedWordsBound DEF RecvFrom
<1>4. udp_buf' \in [1..BufferWords -> Headers]
  BY <1>1, FramingAssumption DEF RecvFrom, FramingInv, TypeOK
<1>5. TypeOK'
  BY <1>1, <1>2, <1>3, <1>4 DEF RecvFrom, FramingInv, TypeOK
<1>6. BufferHoldsDatagram'
  <2>1. \A i \in 1..received' : udp_buf'[i] = d[i]
    BY <1>1, <1>3, FramingAssumption DEF RecvFrom
  <2> QED BY <1>2, <1>3, <2>1 DEF BufferHoldsDatagram, ReceivedWords
<1>7. IdleIsClean' /\ LoopEnded'
  BY <1>2 DEF IdleIsClean, LoopEnded
<1>8. FramesTile' /\ FramesOfThisDatagram'
  BY <1>2 DEF FramesTile, FramesOfThisDatagram
<1> QED BY <1>5, <1>6, <1>7, <1>8 DEF FramingInv

(* The message PushFrame moves past is whole, and is one of the datagram. *)
LEMMA PushedFrame ==
  ASSUME FramingInv, PushFrame
  PROVE  /\ CurrentHeader \in Headers
         /\ CurrentHeader = sent[offset + 1]
         /\ WholeMessageAt(sent, offset)
         /\ offset' = offset + CurrentHeader.total_length_words
         /\ offset' \in 0..received
<1>1. pc = "extract" /\ offset < received /\ NewView(CurrentHeader, received - offset) = "Ok"
  BY DEF PushFrame, Iterating
<1>2. offset \in Nat /\ received \in Nat /\ received <= BufferWords /\ BufferWords \in Nat
  BY FramingAssumption DEF FramingInv, TypeOK
<1>3. CurrentHeader \in Headers /\ CurrentHeader = sent[offset + 1]
  BY <1>1, <1>2 DEF CurrentHeader, FramingInv, TypeOK, BufferHoldsDatagram
<1>4. /\ CurrentHeader.marker
      /\ MINIMUM_HEADER_LEN_WORDS <= CurrentHeader.total_length_words
      /\ CurrentHeader.total_length_words <= received - offset
      /\ CurrentHeader.total_length_words \in Nat
  BY <1>1, <1>2, <1>3, NewViewOk, HeaderFields
<1>5. received <= Len(sent) /\ Len(sent) \in Nat
  BY <1>1, ReceivedWordsBound DEF FramingInv, TypeOK, BufferHoldsDatagram
<1>6. WholeMessageAt(sent, offset)
  BY <1>1, <1>2, <1>3, <1>4, <1>5, HeaderAssumption DEF WholeMessageAt
<1>7. offset' = offset + CurrentHeader.total_length_words
  BY DEF PushFrame, Advance
<1> QED BY <1>2, <1>3, <1>4, <1>6, <1>7

LEMMA PushFrameKeeps ==
  ASSUME FramingInv, PushFrame
  PROVE  FramingInv'
<1> DEFINE f == [start |-> offset, header |-> CurrentHeader]
<1>1. /\ pc = "extract"
      /\ frames' = Append(frames, f)
      /\ UNCHANGED <<pc, udp_buf, received, framing_counters, sent>>
  BY DEF PushFrame, Iterating
<1>2. frames \in Seq([start : Nat, header : Headers]) /\ f \in [start : Nat, header : Headers]
  BY PushedFrame DEF FramingInv, TypeOK
<1>3. /\ frames' \in Seq([start : Nat, header : Headers])
      /\ Len(frames') = Len(frames) + 1
      /\ frames'[Len(frames')] = f
      /\ \A i \in 1..Len(frames) : frames'[i] = frames[i]
  BY <1>1, <1>2
<1>4. TypeOK'
  BY <1>1, <1>3, PushedFrame DEF FramingInv, TypeOK, framing_counters
<1>5. BufferHoldsDatagram' /\ IdleIsClean' /\ LoopEnded'
  BY <1>1 DEF FramingInv, BufferHoldsDatagram, IdleIsClean, LoopEnded, ReceivedWords
<1>6. FramesTile'
  <2>1. EndOfFrame(f) = offset'
    BY PushedFrame DEF EndOfFrame
  <2>2. CASE frames = <<>>
    <3>1. Len(frames') = 1 /\ frames'[1] = f /\ f.start = 0
      BY <1>3, <2>2 DEF FramingInv, FramesTile
    <3> QED BY <2>1, <3>1 DEF FramesTile
  <2>3. CASE frames # <<>>
    <3>1. Len(frames) \in Nat /\ Len(frames) > 0
      BY <1>2, <2>3
    <3>2. frames'[1].start = 0
      BY <1>3, <2>3, <3>1 DEF FramingInv, FramesTile
    <3>3. EndOfFrame(frames'[Len(frames)]) = offset /\ frames'[Len(frames)+1].start = offset
      BY <1>3, <2>3, <3>1 DEF FramingInv, FramesTile
    <3>4. \A i \in 1..(Len(frames) - 1) : frames'[i + 1].start = EndOfFrame(frames'[i])
      BY <1>3, <3>1 DEF FramingInv, FramesTile
    <3>5. \A i \in 1..(Len(frames') - 1) : frames'[i + 1].start = EndOfFrame(frames'[i])
      <4> SUFFICES ASSUME NEW i \in 1..(Len(frames') - 1)
                   PROVE  frames'[i + 1].start = EndOfFrame(frames'[i])
        OBVIOUS
      <4>1. i \in 1..(Len(frames) - 1) \/ i = Len(frames)
        BY <1>3, <3>1
      <4> QED BY <3>3, <3>4, <4>1
    <3> QED BY <1>3, <2>1, <3>1, <3>2, <3>5 DEF FramesTile
  <2> QED BY <2>2, <2>3
<1>7. FramesOfThisDatagram'
  <2> SUFFICES ASSUME NEW i \in 1..Len(frames')
               PROVE  /\ WholeMessageAt(sent, frames'[i].start)
                      /\ frames'[i].header = sent[frames'[i].start + 1]
    BY <1>1 DEF FramesOfThisDatagram, WholeMessageAt
  <2>1. CASE i \in 1..Len(frames)
    BY <1>3, <2>1 DEF FramingInv, FramesOfThisDatagram
  <2>2. CASE i = Len(frames')
    BY <1>3, <2>2, PushedFrame
  <2> QED BY <1>2, <1>3, <2>1, <2>2
<1> QED BY <1>4, <1>5, <1>6, <1>7 DEF FramingInv

LEMMA StopKeeps ==
  ASSUME FramingInv, BreakAtPadding \/ BreakTooShort \/ BreakTooLong \/ EndOfContent
  PROVE  FramingInv'
<1>1. /\ pc = "extract" /\ pc' = "process"
      /\ UNCHANGED <<udp_buf, received, offset, frames, packets, packet_errors, sent>>
      /\ too_short' \in {too_short, too_short + 1}
      /\ too_long' \in {too_long, too_long + 1}
  BY DEF BreakAtPadding, BreakTooShort, BreakTooLong, EndOfContent, Iterating,
         framing_counters
<1>2. offset >= received \/ NewView(udp_buf[offset + 1], received - offset) # "Ok"
  BY DEF BreakAtPadding, BreakTooShort, BreakTooLong, EndOfContent, Iterating,
         CurrentHeader
<1>3. TypeOK'
  BY <1>1 DEF FramingInv, TypeOK
<1>4. BufferHoldsDatagram' /\ IdleIsClean'
  BY <1>1 DEF FramingInv, BufferHoldsDatagram, IdleIsClean, ReceivedWords
<1>5. LoopEnded'
  BY <1>1, <1>2 DEF LoopEnded
<1>6. FramesTile' /\ FramesOfThisDatagram'
  BY <1>1 DEF FramingInv, FramesTile, FramesOfThisDatagram, EndOfFrame, WholeMessageAt
<1> QED BY <1>3, <1>4, <1>5, <1>6 DEF FramingInv

LEMMA ReturnKeeps ==
  ASSUME FramingInv, Return
  PROVE  FramingInv'
  BY FramingAssumption
  DEF Return, FramingInv, TypeOK, BufferHoldsDatagram, IdleIsClean, LoopEnded,
      FramesTile, FramesOfThisDatagram, framing_counters

LEMMA RecvErrorKeeps ==
  ASSUME FramingInv, RecvError
  PROVE  FramingInv'
<1>1. pc = "recv" /\ UNCHANGED <<pc, udp_buf, received, offset, frames, packets,
                                 too_short, too_long, sent>>
  BY DEF RecvError
<1>2. packet_errors' \in Nat
  BY DEF RecvError, FramingInv, TypeOK
<1> QED BY <1>1, <1>2
  DEF FramingInv, TypeOK, BufferHoldsDatagram, IdleIsClean, LoopEnded,
      FramesTile, FramesOfThisDatagram

LEMMA StutterKeeps ==
  ASSUME FramingInv, UNCHANGED vars
  PROVE  FramingInv'
  BY DEF vars, framing_counters, FramingInv, TypeOK, BufferHoldsDatagram,
         IdleIsClean, LoopEnded, FramesTile, FramesOfThisDatagram, ReceivedWords,
         EndOfFrame, WholeMessageAt

LEMMA FramingStep == FramingInv /\ [Next]_vars => FramingInv'
<1> SUFFICES ASSUME FramingInv, [Next]_vars
             PROVE  FramingInv'
  OBVIOUS
<1>1. ASSUME NEW d \in Datagrams, RecvFrom(d) PROVE FramingInv'
  BY <1>1, RecvFromKeeps
<1>2. CASE RecvError
  BY <1>2, RecvErrorKeeps
<1>3. CASE PushFrame
  BY <1>3, PushFrameKeeps
<1>4. CASE BreakAtPadding \/ BreakTooShort \/ BreakTooLong \/ EndOfContent
  BY <1>4, StopKeeps
<1>5. CASE Return
  BY <1>5, ReturnKeeps
<1>6. CASE UNCHANGED vars
  BY <1>6, StutterKeeps
<1> QED BY <1>1, <1>2, <1>3, <1>4, <1>5, <1>6 DEF Next, Extract

(* The strengthening holds always. *)
THEOREM FramingInvariant == Spec => []FramingInv
  BY FramingInit, FramingStep, PTL DEF Spec

-----------------------------------------------------------------------------
(* The loop of packet_to_frames never runs past the received words, whatever *)
(* lengths the headers declare.                                              *)
THEOREM FramingTypeCorrect == Spec => []TypeOK
  BY FramingInvariant, PTL DEF FramingInv

(* The frames tile the content: no word is read as part of two messages. *)
THEOREM FramesAlwaysTile == Spec => []FramesTile
  BY FramingInvariant, PTL DEF FramingInv

(* No frame reads what an earlier datagram left in the reused buffer. *)
THEOREM NoStaleFrames == Spec => []FramesOfThisDatagram
  BY FramingInvariant, PTL DEF FramingInv

(* packet_to_frames stops only where no message can be read. *)
LEMMA LoopEndedEnough == FramingInv => NothingReadableLeft
<1> SUFFICES ASSUME FramingInv, pc = "process", Len(sent) <= BufferWords,
                    WholeMessageAt(sent, offset)
             PROVE  FALSE
  BY DEF NothingReadableLeft
<1>1. /\ sent \in Seq(Headers) /\ Len(sent) \in Nat
      /\ offset \in Nat
      /\ received = Len(sent)
  BY ReceivedWordsBound DEF FramingInv, TypeOK, BufferHoldsDatagram
<1>2. offset + 1 \in 1..received
  BY <1>1 DEF WholeMessageAt
<1>3. udp_buf[offset + 1] = sent[offset + 1] /\ sent[offset + 1] \in Headers
  BY <1>1, <1>2 DEF FramingInv, BufferHoldsDatagram
<1>4. NewView(udp_buf[offset + 1], received - offset) = "Ok"
  BY <1>1, <1>3, NewViewOk, HeaderFields DEF WholeMessageAt
<1> QED BY <1>1, <1>2, <1>4 DEF FramingInv, LoopEnded

(* Every message of a datagram that fits the buffer, up to the first one   *)
(* that cannot be read, becomes a frame.                                   *)
THEOREM NothingReadableIsLeft == Spec => []NothingReadableLeft
  BY FramingInvariant, LoopEndedEnough, PTL

(* One step of the loop that stops short of a whole message of the datagram. *)
LEMMA StopCountsTruncation ==
  ASSUME FramingInv, [Next]_vars, pc = "extract", pc' = "process",
         WholeMessageAt(sent, offset)
  PROVE  too_long' = too_long + 1 \/ received - offset < MINIMUM_HEADER_LEN_WORDS
<1> DEFINE h == CurrentHeader
<1>1. /\ offset \in Nat /\ received \in Nat
      /\ received <= BufferWords /\ BufferWords \in Nat
      /\ MINIMUM_HEADER_LEN_WORDS \in Nat \ {0}
      /\ udp_buf \in [1..BufferWords -> Headers]
  BY FramingAssumption, HeaderAssumption DEF FramingInv, TypeOK
<1>2. BreakAtPadding \/ BreakTooShort \/ BreakTooLong \/ EndOfContent
  BY DEF Next, Extract, RecvFrom, RecvError, PushFrame, Return, Iterating, vars,
         framing_counters
<1>3. CASE EndOfContent
  BY <1>1, <1>3 DEF EndOfContent
<1>4. CASE BreakTooLong
  BY <1>4 DEF BreakTooLong
<1>5. CASE offset < received /\ (BreakAtPadding \/ BreakTooShort)
  <2>1. h = sent[offset + 1] /\ h \in Headers
    BY <1>1, <1>5 DEF CurrentHeader, FramingInv, BufferHoldsDatagram
  <2>2. h.marker /\ MINIMUM_HEADER_LEN_WORDS <= h.total_length_words
    BY <2>1 DEF WholeMessageAt
  <2>3. \/ NewView(h, received - offset) \in {"ContentTooShort", "MissingHeaderMarker"}
        \/ NewView(h, received - offset) = "DeclaredLengthTooShort"
    BY <1>5 DEF BreakAtPadding, BreakTooShort, Iterating
  <2>4. h.total_length_words \in Nat
    BY <2>1, HeaderFields
  <2> QED BY <1>1, <2>2, <2>3, <2>4 DEF NewView
<1> QED BY <1>2, <1>3, <1>4, <1>5 DEF BreakAtPadding, BreakTooShort, Iterating

(* A message lost to the end of the buffer is counted, unless less than a  *)
(* header of it is left.                                                   *)
THEOREM TruncationAlwaysCounted == Spec => TruncationCounted
<1>1. FramingInv /\ [Next]_vars
        => [pc = "extract" /\ pc' = "process" /\ WholeMessageAt(sent, offset)
              => \/ too_long' = too_long + 1
                 \/ received - offset < MINIMUM_HEADER_LEN_WORDS]_vars
  BY StopCountsTruncation
<1> QED BY <1>1, FramingInvariant, PTL DEF Spec, TruncationCounted
=============================================================================
