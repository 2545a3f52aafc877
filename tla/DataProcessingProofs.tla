------------------------ MODULE DataProcessingProofs ------------------------
(***************************************************************************)
(* The conversion of frames keeps what was proved of their extraction, and *)
(* sends on every veto, for every set of headers and datagrams.            *)
(***************************************************************************)
EXTENDS DataProcessing, PowersOfTwoProofs, FiniteSetTheorems, SequenceTheorems, TLAPS

(* Everything the thread does with the frames is one place of              *)
(* PacketToFrames.                                                         *)
framing_pc == IF pc \in {"recv", "extract"} THEN pc ELSE "process"

Framing == INSTANCE PacketToFramesProofs WITH pc <- framing_pc

-----------------------------------------------------------------------------
(* Every step of the conversion is a step of PacketToFrames or leaves its  *)
(* variables alone.                                                        *)
LEMMA InitFrames == ProcessingInit => Framing!Init
  BY DEF ProcessingInit, Init, Framing!Init, framing_pc

LEMMA ThreadFrames ==
  ASSUME ProcessFrames
  PROVE  Framing!Return \/ UNCHANGED Framing!vars
<1>1. CASE EndOfFrames
  BY <1>1 DEF EndOfFrames, Return, Framing!Return, framing_pc, framing_counters,
              Framing!framing_counters
<1>2. ASSUME NEW here \in {"process", "neutron", "pu00", "parse", "ev44", "error"},
             NEW there \in {"process", "neutron", "pu00", "parse", "ev44", "error",
                            "panicked"},
             At(here, there)
      PROVE  UNCHANGED Framing!vars
  BY <1>2 DEF At, framing_pc, framing_counters, Framing!vars, Framing!framing_counters
<1>3. CASE BeginFrame \/ RejectTime \/ AcceptTime
  BY <1>2, <1>3 DEF BeginFrame, RejectTime, AcceptTime
<1>4. CASE SendPu00 \/ Panic \/ RejectData \/ NoEvents
  BY <1>2, <1>4 DEF SendPu00, Panic, RejectData, NoEvents
<1>5. CASE CountEvents \/ SendEv44 \/ CountError
  BY <1>2, <1>5 DEF CountEvents, SendEv44, CountError
<1> QED BY <1>1, <1>3, <1>4, <1>5 DEF ProcessFrames

LEMMA StepFrames == [ProcessingNext]_all_vars => [Framing!Next]_(Framing!vars)
<1> SUFFICES ASSUME [ProcessingNext]_all_vars
             PROVE  [Framing!Next]_(Framing!vars)
  OBVIOUS
<1>1. ASSUME NEW d \in Datagrams, NEW s \in Sources, Receive(d, s)
      PROVE  Framing!RecvFrom(d)
  BY <1>1 DEF Receive, RecvFrom, Framing!RecvFrom, ReceivedWords, Framing!ReceivedWords,
              framing_pc
<1>2. CASE ReceiveError
  BY <1>2 DEF ReceiveError, RecvError, Framing!RecvError, framing_pc, Framing!Next
<1>3. CASE ExtractFrame
  <2>1. Framing!PushFrame
    BY <1>3 DEF ExtractFrame, PushFrame, Framing!PushFrame, Iterating, Framing!Iterating,
                CurrentHeader, Framing!CurrentHeader, Advance, Framing!Advance,
                NewView, Framing!NewView,
                framing_pc, framing_counters, Framing!framing_counters
  <2> QED BY <2>1 DEF Framing!Next, Framing!Extract
<1>4. CASE StopExtracting
  <2>1. \/ Framing!BreakAtPadding \/ Framing!BreakTooShort
        \/ Framing!BreakTooLong \/ Framing!EndOfContent
    BY <1>4 DEF StopExtracting, BreakAtPadding, Framing!BreakAtPadding, BreakTooShort,
                Framing!BreakTooShort, BreakTooLong, Framing!BreakTooLong,
                EndOfContent, Framing!EndOfContent, Iterating, Framing!Iterating,
                CurrentHeader, Framing!CurrentHeader, NewView, Framing!NewView,
                framing_pc, framing_counters, Framing!framing_counters
  <2> QED BY <2>1 DEF Framing!Next, Framing!Extract
<1>5. CASE ProcessFrames
  BY <1>5, ThreadFrames DEF Framing!Next
<1>6. CASE UNCHANGED all_vars
  BY <1>6 DEF all_vars, vars, Framing!vars, framing_pc, framing_counters,
              Framing!framing_counters
<1> QED BY <1>1, <1>2, <1>3, <1>4, <1>5, <1>6 DEF ProcessingNext, Thread, Framing!Next

(* The conversion implements PacketToFrames, with the whole loop over the  *)
(* frames as its step Return.                                              *)
THEOREM FramingImplemented == ProcessingSpec => Framing!Spec
  BY InitFrames, StepFrames, PTL DEF ProcessingSpec, Framing!Spec

(* What was proved of the extraction therefore holds during the conversion. *)
THEOREM FramingKept == ProcessingSpec => []Framing!FramingInv
  <1>1. Framing!Spec => []Framing!FramingInv
  BY Framing!FramingInvariant, HeaderAssumption, FramingAssumption
<1> QED BY <1>1, FramingImplemented, PTL

LEMMA FramingFacts ==
  ASSUME Framing!FramingInv
  PROVE  /\ frames \in Seq([start : Nat, header : Headers])
         /\ pc = "recv" => frames = <<>>
         /\ pc = "extract" /\ offset < received => CurrentHeader \in Headers
  BY FramingAssumption
  DEF Framing!FramingInv, Framing!TypeOK, Framing!IdleIsClean, framing_pc, CurrentHeader

-----------------------------------------------------------------------------
(* The frames in hand are the last ones extracted. *)
ExtractedEndsInFrames ==
  \A k \in 1..Len(frames) :
    extracted[Len(extracted) - Len(frames) + k]
      = [header |-> frames[k].header, src |-> src_ip]

(* A frame is left for the error arm either unsent by right, or sent. *)
ErrorIsSent == pc = "error" => VetoSent(FrameId)

(* A message is sent for a frame that was extracted, with the period and   *)
(* the charge its sender is trusted with.                                  *)
SentForExtracted ==
  /\ \A j \in DOMAIN out : out[j].id \in 1..Len(extracted)
  /\ PeriodOnlyFromControlBoard

ProcessingInv ==
  /\ ProcessingTypeOK
  /\ ExtractedEndsInFrames
  /\ ErrorIsSent
  /\ VetoesAlwaysTransmitted
  /\ SentForExtracted

LEMMA PacketTypeIsOne == ASSUME NEW h PROVE PacketType(h) \in PacketTypes
  BY DEF PacketType, PacketTypes

LEMMA EventCountIsNat ==
  ASSUME NEW h \in Headers, DataWords(h) > 0
  PROVE  EventCount(h) \in Nat
<1>1. DataWords(h) \in Nat
  BY HeaderAssumption DEF DataWords
<1> QED BY <1>1, ConversionAssumption DEF EventCount

(* What is known of the frame in hand. *)
LEMMA FrameInHand ==
  ASSUME Framing!FramingInv, ProcessingInv, cursor <= Len(frames)
  PROVE  /\ cursor \in 1..Len(frames)
         /\ frame \in Headers
         /\ FrameId \in 1..Len(extracted)
         /\ extracted[FrameId].header = frame
         /\ extracted[FrameId].src = src_ip
<1>1. /\ frames \in Seq([start : Nat, header : Headers])
      /\ cursor \in 1..(Len(frames) + 1)
      /\ extracted \in Seq([header : Headers, src : Sources])
      /\ Len(frames) <= Len(extracted)
  BY FramingFacts DEF ProcessingInv, ProcessingTypeOK
<1>2. Len(frames) \in Nat /\ Len(extracted) \in Nat /\ cursor \in 1..Len(frames)
  BY <1>1
<1>3. frames[cursor] \in [start : Nat, header : Headers]
  BY <1>1, <1>2, ElementOfSeq
<1>4. extracted[FrameId] = [header |-> frame, src |-> src_ip]
  BY <1>2 DEF ProcessingInv, ExtractedEndsInFrames, FrameId, frame
<1> QED BY <1>1, <1>2, <1>3, <1>4 DEF FrameId, frame

LEMMA ProcessingInitInv == ProcessingInit => ProcessingInv
  BY ConversionAssumption
  DEF ProcessingInit, Init, ProcessingInv, ProcessingTypeOK, ExtractedEndsInFrames,
      ErrorIsSent, VetoesAlwaysTransmitted, FramesDone, FrameId, PacketTypes,
      SentForExtracted, PeriodOnlyFromControlBoard

-----------------------------------------------------------------------------
LEMMA AppendFacts ==
  ASSUME NEW S, NEW s \in Seq(S), NEW e \in S
  PROVE  /\ Append(s, e) \in Seq(S)
         /\ Len(s) \in Nat
         /\ Len(Append(s, e)) = Len(s) + 1
         /\ \A i \in 1..Len(s) : Append(s, e)[i] = s[i]
         /\ Append(s, e)[Len(s) + 1] = e
         /\ DOMAIN s = 1..Len(s)
         /\ DOMAIN Append(s, e) = 1..(Len(s) + 1)
  OBVIOUS

(* What was sent stays sent. *)
LEMMA VetoStaysSent ==
  ASSUME NEW i, VetoSent(i), extracted'[i] = extracted[i],
         \A j \in DOMAIN out : j \in DOMAIN out' /\ out'[j] = out[j]
  PROVE  VetoSent(i)'
  BY DEF VetoSent, SentFor

(* The locations where a step of the loop over the frames may lead. *)
Working == {"process", "neutron", "pu00", "parse", "ev44", "error", "panicked"}

(* A step that handles the frame in hand, sends nothing and stays with it. *)
LEMMA QuietStepKeeps ==
  ASSUME Framing!FramingInv, ProcessingInv,
         NEW here, NEW there \in Working \ {"process"}, At(here, there),
         cursor <= Len(frames),
         UNCHANGED <<cursor, out>>,
         headers' \in [PacketTypes -> Nat],
         processing_errors' \in [PacketTypes -> Nat],
         streaming_control_board_frames' \in Nat,
         neutron_events' \in Nat, invalid_neutron_events' \in Nat,
         there \in {"parse", "ev44", "error", "panicked"} => VetoSent(FrameId)
  PROVE  ProcessingInv'
<1>1. UNCHANGED <<frames, extracted, src_ip, cursor, out>> /\ pc' = there
  BY DEF At
<1>2. ProcessingTypeOK'
  BY <1>1 DEF ProcessingInv, ProcessingTypeOK, Working
<1>3. ExtractedEndsInFrames'
  BY <1>1 DEF ProcessingInv, ExtractedEndsInFrames
<1>4. \A i : VetoSent(i)' <=> VetoSent(i)
  BY <1>1 DEF VetoSent, SentFor
<1>5. FrameId' = FrameId /\ FramesDone' = FramesDone
  BY <1>1 DEF FrameId, FramesDone
<1>6. ErrorIsSent' /\ VetoesAlwaysTransmitted'
  BY <1>1, <1>4, <1>5 DEF ProcessingInv, ErrorIsSent, VetoesAlwaysTransmitted
<1>7. SentForExtracted'
  BY <1>1 DEF ProcessingInv, SentForExtracted, PeriodOnlyFromControlBoard
<1> QED BY <1>2, <1>3, <1>6, <1>7 DEF ProcessingInv

(* A step that is done with the frame in hand, whose pu00 is sent. *)
LEMMA LastStepKeeps ==
  ASSUME Framing!FramingInv, ProcessingInv,
         NEW here, At(here, "process"),
         cursor <= Len(frames), cursor' = cursor + 1,
         out' \in Seq([message : Messages, id : Nat]),
         \A j \in DOMAIN out : j \in DOMAIN out' /\ out'[j] = out[j],
         processing_errors' \in [PacketTypes -> Nat],
         UNCHANGED <<headers, streaming_control_board_frames, neutron_events,
                     invalid_neutron_events>>,
         VetoSent(FrameId),
         SentForExtracted'
  PROVE  ProcessingInv'
<1>1. UNCHANGED <<frames, extracted, src_ip>> /\ pc' = "process"
  BY DEF At
<1>2. cursor \in 1..Len(frames) /\ Len(frames) \in Nat /\ Len(extracted) \in Nat
  BY FrameInHand, FramingFacts DEF ProcessingInv, ProcessingTypeOK
<1>3. ProcessingTypeOK'
  BY <1>1, <1>2 DEF ProcessingInv, ProcessingTypeOK
<1>4. ExtractedEndsInFrames' /\ ErrorIsSent'
  BY <1>1 DEF ProcessingInv, ExtractedEndsInFrames, ErrorIsSent
<1>5. FramesDone' = FramesDone + 1 /\ FrameId = FramesDone + 1 /\ FramesDone \in Int
  BY <1>1, <1>2 DEF FrameId, FramesDone
<1>6. \A i \in 1..FramesDone' : VetoSent(i)'
  <2> SUFFICES ASSUME NEW i \in 1..FramesDone' PROVE VetoSent(i)'
    OBVIOUS
  <2>1. VetoSent(i)
    BY <1>5 DEF ProcessingInv, VetoesAlwaysTransmitted
  <2> QED BY <1>1, <2>1, VetoStaysSent
<1>7. VetoesAlwaysTransmitted'
  BY <1>1, <1>6 DEF VetoesAlwaysTransmitted
<1> QED BY <1>3, <1>4, <1>7 DEF ProcessingInv

LEMMA ExtractFrameKeeps ==
  ASSUME Framing!FramingInv, ProcessingInv, ExtractFrame
  PROVE  ProcessingInv'
<1> DEFINE f == [start |-> offset, header |-> CurrentHeader]
           e == [header |-> CurrentHeader, src |-> src_ip]
<1>1. /\ pc = "extract" /\ pc' = "extract" /\ offset < received
      /\ frames' = Append(frames, f)
      /\ extracted' = Append(extracted, e)
      /\ UNCHANGED <<src_ip, cursor, counters, out>>
  BY DEF ExtractFrame, PushFrame, Iterating
<1>2. CurrentHeader \in Headers /\ src_ip \in Sources
  BY <1>1, FramingFacts DEF ProcessingInv, ProcessingTypeOK
<1>3. /\ Len(frames) \in Nat
      /\ Len(frames') = Len(frames) + 1
      /\ frames'[Len(frames) + 1] = f
      /\ \A i \in 1..Len(frames) : frames'[i] = frames[i]
  <2>1. frames \in Seq([start : Nat, header : Headers]) /\ f \in [start : Nat, header : Headers]
    BY <1>2, FramingFacts DEF Framing!FramingInv, Framing!TypeOK
  <2> HIDE DEF f
  <2> QED BY <1>1, <2>1, AppendFacts
<1>4. /\ extracted' \in Seq([header : Headers, src : Sources])
      /\ Len(extracted) \in Nat
      /\ Len(extracted') = Len(extracted) + 1
      /\ extracted'[Len(extracted) + 1] = e
      /\ \A i \in 1..Len(extracted) : extracted'[i] = extracted[i]
  <2>1. /\ extracted \in Seq([header : Headers, src : Sources])
        /\ e \in [header : Headers, src : Sources]
    BY <1>2 DEF ProcessingInv, ProcessingTypeOK
  <2> HIDE DEF e
  <2> QED BY <1>1, <2>1, AppendFacts
<1>5. Len(frames) <= Len(extracted) /\ cursor \in 1..(Len(frames) + 1)
  BY DEF ProcessingInv, ProcessingTypeOK
<1>6. ProcessingTypeOK'
  BY <1>1, <1>3, <1>4, <1>5 DEF ProcessingInv, ProcessingTypeOK, counters
<1>7. ExtractedEndsInFrames'
  <2> SUFFICES ASSUME NEW k \in 1..Len(frames')
               PROVE  extracted'[Len(extracted') - Len(frames') + k]
                        = [header |-> frames'[k].header, src |-> src_ip]
    BY <1>1 DEF ExtractedEndsInFrames
  <2>1. Len(extracted') - Len(frames') = Len(extracted) - Len(frames)
    BY <1>3, <1>4
  <2>2. CASE k = Len(frames) + 1
    <3>1. Len(extracted') - Len(frames') + k = Len(extracted) + 1
      BY <1>3, <1>4, <2>1, <2>2
    <3> QED BY <1>3, <1>4, <2>2, <3>1
  <2>3. CASE k \in 1..Len(frames)
    <3>1. Len(extracted) - Len(frames) + k \in 1..Len(extracted)
      BY <1>3, <1>4, <1>5, <2>3
    <3> QED BY <1>3, <1>4, <2>1, <2>3, <3>1 DEF ProcessingInv, ExtractedEndsInFrames
  <2> QED BY <1>3, <2>2, <2>3
<1>8. VetoesAlwaysTransmitted' /\ ErrorIsSent'
  <2>1. FramesDone' = FramesDone /\ \A i \in 1..FramesDone : i \in 1..Len(extracted)
    BY <1>1, <1>3, <1>4, <1>5 DEF FramesDone, FrameId
  <2>2. \A i \in 1..FramesDone : VetoSent(i)'
    BY <1>1, <1>4, <2>1, VetoStaysSent DEF ProcessingInv, VetoesAlwaysTransmitted
  <2> QED BY <1>1, <2>1, <2>2 DEF VetoesAlwaysTransmitted, ErrorIsSent
<1>9. SentForExtracted'
  <2>1. \A j \in DOMAIN out : /\ out[j].id \in 1..Len(extracted)
                              /\ extracted'[out[j].id] = extracted[out[j].id]
    BY <1>4 DEF ProcessingInv, SentForExtracted
  <2> QED BY <1>1, <1>4, <2>1 DEF ProcessingInv, SentForExtracted, PeriodOnlyFromControlBoard
<1> QED BY <1>6, <1>7, <1>8, <1>9 DEF ProcessingInv

LEMMA SocketStepKeeps ==
  ASSUME Framing!FramingInv, ProcessingInv,
         \/ \E d \in Datagrams, s \in Sources : Receive(d, s)
         \/ ReceiveError
         \/ StopExtracting
         \/ EndOfFrames
         \/ UNCHANGED all_vars
  PROVE  ProcessingInv'
<1>1. /\ frames \in Seq([start : Nat, header : Headers])
      /\ Len(frames) \in Nat /\ Len(extracted) \in Nat
      /\ cursor \in 1..(Len(frames) + 1)
  BY FramingFacts DEF ProcessingInv, ProcessingTypeOK
<1>2. UNCHANGED <<counters, extracted, out>>
  BY DEF Receive, ReceiveError, StopExtracting, EndOfFrames, all_vars, processing_vars
<1>3. /\ pc' \in {"recv", "extract", "process"} \/ UNCHANGED <<pc, cursor, frames>>
      /\ \/ UNCHANGED <<src_ip, cursor, frames>>
         \/ frames' = <<>> /\ cursor' = 1 /\ src_ip' \in Sources
      /\ FrameId' = FrameId
  <2>1. CASE \E d \in Datagrams, s \in Sources : Receive(d, s)
    <3>1. PICK d \in Datagrams, s \in Sources : Receive(d, s)
      BY <2>1
    <3>2. frames = <<>> /\ frames' = <<>> /\ cursor' = 1 /\ src_ip' = s /\ pc' = "extract"
      BY <3>1, FramingFacts DEF Receive, RecvFrom
    <3> QED BY <1>1, <1>2, <3>2 DEF FrameId
  <2>2. CASE ReceiveError
    BY <2>2 DEF ReceiveError, RecvError, processing_vars, FrameId
  <2>3. CASE StopExtracting
    BY <2>3 DEF StopExtracting, BreakAtPadding, BreakTooShort, BreakTooLong, EndOfContent,
                processing_vars, FrameId
  <2>4. CASE EndOfFrames
    <3>1. frames' = <<>> /\ cursor' = 1 /\ src_ip' = src_ip /\ pc' = "recv"
      BY <2>4 DEF EndOfFrames, Return
    <3>2. cursor = Len(frames) + 1
      BY <1>1, <2>4 DEF EndOfFrames
    <3> QED BY <1>1, <1>2, <3>1, <3>2 DEF FrameId, ProcessingInv, ProcessingTypeOK
  <2>5. CASE UNCHANGED all_vars
    BY <2>5 DEF all_vars, vars, processing_vars, FrameId
  <2> QED BY <2>1, <2>2, <2>3, <2>4, <2>5
<1>4. ProcessingTypeOK'
  BY <1>1, <1>2, <1>3 DEF ProcessingInv, ProcessingTypeOK, counters
<1>5. ExtractedEndsInFrames'
  <2>1. CASE UNCHANGED <<src_ip, cursor, frames>>
    BY <1>2, <2>1 DEF ProcessingInv, ExtractedEndsInFrames
  <2>2. CASE frames' = <<>>
    BY <2>2 DEF ExtractedEndsInFrames
  <2> QED BY <1>3, <2>1, <2>2
<1>6. \A i : VetoSent(i)' <=> VetoSent(i)
  BY <1>2 DEF VetoSent, SentFor
<1>7. VetoesAlwaysTransmitted' /\ ErrorIsSent'
  BY <1>3, <1>6 DEF ProcessingInv, VetoesAlwaysTransmitted, ErrorIsSent, FramesDone
<1>8. SentForExtracted'
  BY <1>2 DEF ProcessingInv, SentForExtracted, PeriodOnlyFromControlBoard
<1> QED BY <1>4, <1>5, <1>7, <1>8 DEF ProcessingInv

LEMMA SendPu00Keeps ==
  ASSUME Framing!FramingInv, ProcessingInv, SendPu00
  PROVE  ProcessingInv'
<1> DEFINE o == [message |-> Pu00(frame, src_ip), id |-> FrameId]
<1>1. /\ At("pu00", "parse") /\ pc = "pu00"
      /\ out' = Append(out, o)
      /\ UNCHANGED <<frames, extracted, src_ip, cursor, counters>> /\ pc' = "parse"
  BY DEF SendPu00, Send, At
<1>2. /\ cursor <= Len(frames) /\ src_ip \in Sources
      /\ out \in Seq([message : Messages, id : Nat])
  BY <1>1 DEF ProcessingInv, ProcessingTypeOK
<1>3. /\ frame \in Headers /\ FrameId \in 1..Len(extracted) /\ Len(extracted) \in Nat
      /\ extracted[FrameId].header = frame /\ extracted[FrameId].src = src_ip
  BY <1>2, FrameInHand DEF ProcessingInv, ProcessingTypeOK
<1>4. o \in [message : Messages, id : Nat]
  BY <1>2, <1>3 DEF Messages
<1>5. /\ out' \in Seq([message : Messages, id : Nat])
      /\ \A j \in DOMAIN out : j \in DOMAIN out' /\ out'[j] = out[j]
      /\ Len(out) + 1 \in DOMAIN out' /\ out'[Len(out) + 1] = o
      /\ \A j \in DOMAIN out' : j \in DOMAIN out \/ j = Len(out) + 1
  <2> HIDE DEF o
  <2> QED BY <1>1, <1>2, <1>4, AppendFacts
<1>6. ProcessingTypeOK' /\ ExtractedEndsInFrames' /\ ErrorIsSent'
  BY <1>1, <1>5
  DEF ProcessingInv, ProcessingTypeOK, ExtractedEndsInFrames, ErrorIsSent, counters
<1>7. FrameId' = FrameId /\ FramesDone' = FramesDone
  BY <1>1 DEF FrameId, FramesDone
<1>8. VetoSent(FrameId)'
  BY <1>1, <1>3, <1>5, <1>7 DEF VetoSent, SentFor, Pu00
<1>9. \A i \in 1..FramesDone : VetoSent(i)'
  BY <1>1, <1>5, VetoStaysSent DEF ProcessingInv, VetoesAlwaysTransmitted
<1>10. SentForExtracted'
  <2> SUFFICES ASSUME NEW j \in DOMAIN out'
               PROVE  /\ out'[j].id \in 1..Len(extracted)
                      /\ LET m == out'[j].message
                             f == extracted[out'[j].id]
                         IN  m.kind = "pu00" =>
                               \/ /\ f.src = ControlBoard
                                  /\ m.period_number = f.header.period_number
                                  /\ m.proton_charge = f.header.ppp_per_frame
                               \/ /\ f.src # ControlBoard
                                  /\ m.period_number = Absent
                                  /\ m.proton_charge = Absent
    BY <1>1 DEF SentForExtracted, PeriodOnlyFromControlBoard
  <2>1. CASE j \in DOMAIN out
    BY <1>5, <2>1 DEF ProcessingInv, SentForExtracted, PeriodOnlyFromControlBoard
  <2>2. CASE j = Len(out) + 1
    BY <1>3, <1>5, <2>2 DEF Pu00
  <2> QED BY <1>5, <2>1, <2>2
<1> QED BY <1>6, <1>7, <1>8, <1>9, <1>10 DEF ProcessingInv, VetoesAlwaysTransmitted

LEMMA SendEv44Keeps ==
  ASSUME Framing!FramingInv, ProcessingInv, SendEv44
  PROVE  ProcessingInv'
<1> DEFINE o == [message |-> Ev44(frame), id |-> FrameId]
<1>1. /\ At("ev44", "process") /\ pc = "ev44"
      /\ out' = Append(out, o)
      /\ cursor' = cursor + 1 /\ UNCHANGED counters
  BY DEF SendEv44, Send, At
<1>2. /\ cursor <= Len(frames)
      /\ out \in Seq([message : Messages, id : Nat])
      /\ processing_errors \in [PacketTypes -> Nat]
  BY <1>1 DEF ProcessingInv, ProcessingTypeOK
<1>3. frame \in Headers /\ FrameId \in 1..Len(extracted) /\ Len(extracted) \in Nat
  BY <1>2, FrameInHand DEF ProcessingInv, ProcessingTypeOK
<1>4. o \in [message : Messages, id : Nat]
  BY <1>3 DEF Messages
<1>5. /\ out' \in Seq([message : Messages, id : Nat])
      /\ \A j \in DOMAIN out : j \in DOMAIN out' /\ out'[j] = out[j]
      /\ \A j \in DOMAIN out' : j \in DOMAIN out \/ out'[j] = o
  <2> HIDE DEF o
  <2> QED BY <1>1, <1>2, <1>4, AppendFacts
<1>6. VetoSent(FrameId)
  BY <1>1 DEF ProcessingInv, VetoesAlwaysTransmitted
<1>7. o.id \in 1..Len(extracted) /\ o.message.kind = "ev44"
  BY <1>3 DEF Ev44
<1>8. SentForExtracted'
  BY <1>1, <1>5, <1>7 DEF At, ProcessingInv, SentForExtracted, PeriodOnlyFromControlBoard
<1> QED BY <1>1, <1>2, <1>5, <1>6, <1>8, LastStepKeeps DEF counters

LEMMA FrameStepKeeps ==
  ASSUME Framing!FramingInv, ProcessingInv,
         \/ BeginFrame \/ RejectTime \/ AcceptTime \/ Panic \/ RejectData
         \/ NoEvents \/ CountEvents \/ CountError
  PROVE  ProcessingInv'
<1>1. /\ cursor <= Len(frames)
      /\ headers \in [PacketTypes -> Nat]
      /\ processing_errors \in [PacketTypes -> Nat]
      /\ streaming_control_board_frames \in Nat
      /\ neutron_events \in Nat /\ invalid_neutron_events \in Nat
      /\ out \in Seq([message : Messages, id : Nat])
  BY DEF ProcessingInv, ProcessingTypeOK, BeginFrame, RejectTime, AcceptTime, Panic,
         RejectData, NoEvents, CountEvents, CountError, At
<1>2. frame \in Headers /\ extracted[FrameId].header = frame
  BY <1>1, FrameInHand
<1>3. CASE BeginFrame
  <2>1. headers' \in [PacketTypes -> Nat]
    BY <1>1, <1>3, PacketTypeIsOne DEF BeginFrame
  <2>2. PacketType(frame) # "NeutronData" => VetoSent(FrameId)
    BY <1>2 DEF VetoSent
  <2>3. PICK there \in {"neutron", "error"} :
          At("process", there) /\ (there = "error" => PacketType(frame) # "NeutronData")
    BY <1>3 DEF BeginFrame
  <2> QED BY <1>1, <1>3, <2>1, <2>2, <2>3, QuietStepKeeps DEF BeginFrame, Working
<1>4. CASE RejectTime
  <2>1. VetoSent(FrameId)
    BY <1>2, <1>4 DEF RejectTime, VetoSent
  <2> QED BY <1>1, <1>4, <2>1, QuietStepKeeps DEF RejectTime, Working, counters
<1>5. CASE AcceptTime
  BY <1>1, <1>5, QuietStepKeeps DEF AcceptTime, Working
<1>6. CASE Panic \/ RejectData \/ CountEvents
  <2>1. VetoSent(FrameId)
    BY <1>6 DEF Panic, RejectData, CountEvents, At, ProcessingInv, VetoesAlwaysTransmitted
  <2>2. frame.invalid_events \in Nat
    BY <1>2, ConversionAssumption
  <2>3. CASE Panic
    BY <1>1, <2>1, <2>3, QuietStepKeeps DEF Panic, Working, counters
  <2>4. CASE RejectData
    <3>1. invalid_neutron_events' \in Nat
      BY <1>1, <2>2, <2>4 DEF RejectData
    <3> QED BY <1>1, <2>1, <2>4, <3>1, QuietStepKeeps DEF RejectData, Working
  <2>5. CASE CountEvents
    <3>1. neutron_events' \in Nat
      BY <1>1, <1>2, <2>5, EventCountIsNat DEF CountEvents
    <3> QED BY <1>1, <2>1, <2>5, <3>1, QuietStepKeeps DEF CountEvents, Working
  <2> QED BY <1>6, <2>3, <2>4, <2>5
<1>7. CASE NoEvents
  <2>1. VetoSent(FrameId)
    BY <1>7 DEF NoEvents, At, ProcessingInv, VetoesAlwaysTransmitted
  <2>2. SentForExtracted'
    BY <1>7 DEF NoEvents, At, ProcessingInv, SentForExtracted, PeriodOnlyFromControlBoard
  <2> QED BY <1>1, <1>7, <2>1, <2>2, LastStepKeeps DEF NoEvents, counters
<1>8. CASE CountError
  <2>1. VetoSent(FrameId)
    BY <1>8 DEF CountError, At, ProcessingInv, ErrorIsSent
  <2>2. processing_errors' \in [PacketTypes -> Nat]
    BY <1>1, <1>8, PacketTypeIsOne DEF CountError
  <2>3. SentForExtracted'
    BY <1>8 DEF CountError, At, ProcessingInv, SentForExtracted, PeriodOnlyFromControlBoard
  <2> QED BY <1>1, <1>8, <2>1, <2>2, <2>3, LastStepKeeps DEF CountError
<1> QED BY <1>3, <1>4, <1>5, <1>6, <1>7, <1>8

LEMMA ProcessingStep ==
  Framing!FramingInv /\ ProcessingInv /\ [ProcessingNext]_all_vars => ProcessingInv'
  BY SocketStepKeeps, ExtractFrameKeeps, SendPu00Keeps, SendEv44Keeps, FrameStepKeeps
  DEF ProcessingNext, Thread, ProcessFrames

(* The strengthening holds always. *)
THEOREM ProcessingInvariant == ProcessingSpec => []ProcessingInv
  BY ProcessingInitInv, ProcessingStep, FramingKept, PTL DEF ProcessingSpec

-----------------------------------------------------------------------------
(* The frame in hand always exists, and every message sent is a conversion *)
(* of a header by the rules of FrameConversion.                            *)
THEOREM ProcessingTypeCorrect == ProcessingSpec => []ProcessingTypeOK
  BY ProcessingInvariant, PTL DEF ProcessingInv

(* No neutron frame with a valid time loses its vetoes, whatever its data, *)
(* and even when its data stops the process.                               *)
THEOREM NoVetoIsLost == ProcessingSpec => []VetoesAlwaysTransmitted
  BY ProcessingInvariant, PTL DEF ProcessingInv

(* No consumer ever reads a period or a charge that did not come from the  *)
(* control board, in the frame it belongs to.                              *)
THEOREM PeriodIsTrusted == ProcessingSpec => []PeriodOnlyFromControlBoard
  BY ProcessingInvariant, PTL DEF ProcessingInv, SentForExtracted

-----------------------------------------------------------------------------
(* The events of the messages sent.  The recursion of EventsIn has a       *)
(* solution, and one more message adds its own events to the sum.          *)
Sent == [message : Messages, id : Nat]

SumStep(f, s) ==
  [n \in 0..Len(s) |-> IF n = 0 THEN 0 ELSE f[n - 1] + EventsOf(s[n].message)]

EventSums(s) == CHOOSE f : f = SumStep(f, s)

(* The same recursion, for PowersOfTwoProofs. *)
AddEvents(s) ==
  [p \in Int \X Nat |->
     p[1] + (IF p[2] \in 1..Len(s) THEN EventsOf(s[p[2]].message) ELSE 0)]

LEMMA EventsOfType == ASSUME NEW m \in Messages PROVE EventsOf(m) \in Int
<1>1. CASE \E h \in Headers, s \in Sources : m = Pu00(h, s)
  BY <1>1 DEF Pu00, EventsOf
<1>2. CASE \E h \in Headers : m = Ev44(h)
  <2>1. PICK h \in Headers : m = Ev44(h)
    BY <1>2
  <2>2. DataWords(h) \in Int
    BY HeaderAssumption DEF DataWords
  <2>3. EventCount(h) \in Int
    BY <2>2, ConversionAssumption DEF EventCount
  <2> QED BY <2>1, <2>3 DEF Ev44, EventsOf
<1> QED BY <1>1, <1>2 DEF Messages

LEMMA AddEventsType ==
  ASSUME NEW s \in Seq(Sent)
  PROVE  /\ AddEvents(s) \in [Int \X Nat -> Int]
         /\ \A i \in 1..Len(s), v \in Int :
              AddEvents(s)[<<v, i>>] = v + EventsOf(s[i].message)
<1>1. Len(s) \in Nat /\ \A i \in 1..Len(s) : s[i] \in Sent
  BY ElementOfSeq
<1>2. \A i \in 1..Len(s) : i \in Nat /\ EventsOf(s[i].message) \in Int
  BY <1>1, EventsOfType DEF Sent
<1>3. ASSUME NEW v \in Int, NEW i \in Nat
      PROVE  v + (IF i \in 1..Len(s) THEN EventsOf(s[i].message) ELSE 0) \in Int
  BY <1>2
<1> QED BY <1>1, <1>2, <1>3 DEF AddEvents

LEMMA EventSumsFollow ==
  ASSUME NEW s \in Seq(Sent)
  PROVE  /\ Follows(EventSums(s), 0, AddEvents(s), Len(s))
         /\ \A n \in 0..Len(s) : EventSums(s)[n] \in Int
         /\ EventsIn(s) = EventSums(s)[Len(s)]
<1> DEFINE step == AddEvents(s)
           top == Len(s)
<1>1. top \in Nat
  OBVIOUS
<1>2. step \in [Int \X Nat -> Int]
  BY AddEventsType
<1>3. \A i \in 1..top, v \in Int : step[<<v, i>>] = v + EventsOf(s[i].message)
  BY AddEventsType
<1> HIDE DEF step, top
<1>4. PICK f \in [0..top -> Int] : Follows(f, 0, step, top)
  <2>1. 0 \in Int
    OBVIOUS
  <2>2. \A n \in Nat : \E f \in [0..n -> Int] : Follows(f, 0, step, n)
    BY <1>2, <2>1, FiniteRecursion
  <2> QED BY <1>1, <2>2
<1>5. ASSUME NEW n \in 0..top
      PROVE  f[n] = IF n = 0 THEN 0 ELSE f[n - 1] + EventsOf(s[n].message)
  <2>1. CASE n = 0
    BY <2>1, <1>4 DEF Follows
  <2>2. CASE n # 0
    <3>1. n \in 1..top /\ n - 1 \in 0..top
      BY <2>2, <1>1
    <3>2. f[n - 1] \in Int
      BY <3>1
    <3> QED BY <3>1, <3>2, <2>2, <1>3, <1>4 DEF Follows
  <2> QED BY <2>1, <2>2
<1>6. f = SumStep(f, s)
  BY <1>5 DEF SumStep, top
<1>7. EventSums(s) = SumStep(EventSums(s), s)
  BY <1>6 DEF EventSums
<1> DEFINE g == EventSums(s)
<1>8. g = SumStep(g, s)
  BY <1>7
<1> HIDE DEF g
<1>9. \A n \in 0..top : g[n] = IF n = 0 THEN 0 ELSE g[n - 1] + EventsOf(s[n].message)
  BY <1>8 DEF SumStep, top
<1>10. \A n \in 0..top : g[n] \in Int
  <2> DEFINE S == {n \in Nat : n <= top => g[n] \in Int}
  <2>1. 0 \in S
    BY <1>1, <1>9
  <2>2. ASSUME NEW n \in S PROVE n + 1 \in S
    <3>1. ASSUME n + 1 <= top PROVE g[n + 1] \in Int
      <4>1. n \in 0..top /\ n + 1 \in 1..top /\ (n + 1) - 1 = n /\ g[n] \in Int
        BY <3>1, <1>1
      <4>2. step[<<g[n], n + 1>>] = g[n] + EventsOf(s[n + 1].message)
        BY <4>1, <1>3
      <4>3. <<g[n], n + 1>> \in Int \X Nat
        BY <4>1
      <4>4. step[<<g[n], n + 1>>] \in Int
        BY <4>3, <1>2
      <4> QED BY <4>1, <4>2, <4>4, <1>9
    <3> QED BY <3>1
  <2> HIDE DEF S
  <2>3. S \in SUBSET Nat
    BY DEF S
  <2>4. S = Nat
    BY <2>1, <2>2, <2>3, Induction
  <2> QED BY <2>4, <1>1 DEF S
<1>11. Follows(g, 0, step, top)
  <2>1. g[0] = 0
    BY <1>1, <1>9
  <2>2. ASSUME NEW i \in 1..top PROVE g[i] = step[<<g[i - 1], i>>]
    <3>1. i \in 0..top /\ i - 1 \in 0..top /\ i # 0
      BY <1>1
    <3>2. g[i] = g[i - 1] + EventsOf(s[i].message) /\ g[i - 1] \in Int
      BY <3>1, <1>9, <1>10
    <3> QED BY <3>2, <1>3
  <2> QED BY <2>1, <2>2 DEF Follows
<1>12. EventsIn(s) = EventSums(s)[Len(s)]
  BY Zenon DEF EventsIn, EventSums, SumStep
<1> QED BY <1>10, <1>11, <1>12 DEF g, step, top

LEMMA EventsInNothing == EventsIn(<<>>) = 0
<1>1. <<>> \in Seq(Sent) /\ Len(<<>>) = 0
  OBVIOUS
<1> QED BY <1>1, EventSumsFollow DEF Follows

LEMMA EventsAdd ==
  ASSUME NEW s \in Seq(Sent), NEW e \in Sent
  PROVE  /\ EventsIn(s) \in Int
         /\ EventsIn(Append(s, e)) = EventsIn(s) + EventsOf(e.message)
<1> DEFINE t == Append(s, e)
           f == EventSums(s)
           g == EventSums(t)
           n == Len(s)
<1>1. /\ t \in Seq(Sent) /\ n \in Nat /\ Len(t) = n + 1
      /\ \A i \in 1..n : t[i] = s[i]
      /\ t[n + 1] = e
  BY AppendFacts
<1>2. /\ Follows(f, 0, AddEvents(s), n)
      /\ \A i \in 0..n : f[i] \in Int
      /\ EventsIn(s) = f[n]
  BY EventSumsFollow
<1> HIDE DEF t, f, n
<1>3. /\ Follows(g, 0, AddEvents(t), n + 1)
      /\ \A i \in 0..(n + 1) : g[i] \in Int
      /\ EventsIn(t) = g[n + 1]
  BY <1>1, EventSumsFollow
<1> HIDE DEF g
<1>4. \A i \in 1..n : i \in 1..(n + 1) /\ i - 1 \in 0..n /\ i - 1 \in 0..(n + 1)
  BY <1>1
<1>5. /\ \A i \in 1..n, v \in Int : AddEvents(s)[<<v, i>>] = v + EventsOf(s[i].message)
      /\ \A i \in 1..(n + 1), v \in Int :
           AddEvents(t)[<<v, i>>] = v + EventsOf(t[i].message)
  BY <1>1, AddEventsType DEF n
<1>6. Follows(g, 0, AddEvents(s), n)
  <2>1. ASSUME NEW i \in 1..n PROVE g[i] = AddEvents(s)[<<g[i - 1], i>>]
    <3>1. g[i] = AddEvents(t)[<<g[i - 1], i>>] /\ g[i - 1] \in Int
      BY <1>3, <1>4 DEF Follows
    <3> QED BY <3>1, <1>1, <1>4, <1>5
  <2> QED BY <2>1, <1>3 DEF Follows
<1>7. f[n] = g[n]
  BY <1>1, <1>2, <1>6, RecursionIsUnique
<1>8. g[n + 1] = g[n] + EventsOf(e.message)
  <2>1. n + 1 \in 1..(n + 1) /\ (n + 1) - 1 = n /\ n \in 0..(n + 1)
    BY <1>1
  <2>2. g[n + 1] = AddEvents(t)[<<g[n], n + 1>>] /\ g[n] \in Int
    BY <2>1, <1>3 DEF Follows
  <2> QED BY <2>1, <2>2, <1>1, <1>5
<1>9. f[n] \in Int
  BY <1>1, <1>2
<1> QED BY <1>2, <1>3, <1>7, <1>8, <1>9 DEF t

LEMMA OutType == ASSUME ProcessingInv PROVE out \in Seq(Sent) /\ EventsIn(out) \in Int
<1>1. out \in Seq(Sent)
  BY DEF ProcessingInv, ProcessingTypeOK, Sent
<1> DEFINE g == EventSums(out)
<1>2. Len(out) \in 0..Len(out)
  BY <1>1
<1>3. (\A n \in 0..Len(out) : g[n] \in Int) /\ EventsIn(out) = g[Len(out)]
  BY <1>1, EventSumsFollow
<1> HIDE DEF g
<1> QED BY <1>1, <1>2, <1>3

LEMMA EventsInit == ProcessingInit => EventsAccountedFor
  BY EventsInNothing DEF ProcessingInit, Init, EventsAccountedFor

LEMMA CountEventsAccounts ==
  ASSUME Framing!FramingInv, ProcessingInv, EventsAccountedFor, CountEvents
  PROVE  EventsAccountedFor'
<1>1. /\ pc = "parse" /\ pc' = "ev44" /\ DataWords(frame) > 0
      /\ neutron_events' = neutron_events + EventCount(frame)
      /\ UNCHANGED <<frames, cursor, out>>
  BY DEF CountEvents, At
<1>2. cursor <= Len(frames) /\ neutron_events \in Nat
  BY <1>1 DEF ProcessingInv, ProcessingTypeOK
<1>3. EventCount(frame) \in Nat
  BY <1>1, <1>2, FrameInHand, EventCountIsNat
<1>4. EventsIn(out') = EventsIn(out) /\ EventCount(frame)' = EventCount(frame)
  BY <1>1 DEF frame
<1>5. neutron_events = EventsIn(out)
  BY <1>1, OutType DEF EventsAccountedFor
<1> QED BY <1>1, <1>2, <1>3, <1>4, <1>5 DEF EventsAccountedFor

LEMMA SendAccounts ==
  ASSUME Framing!FramingInv, ProcessingInv, EventsAccountedFor, SendPu00 \/ SendEv44
  PROVE  EventsAccountedFor'
<1> DEFINE m == IF pc = "pu00" THEN Pu00(frame, src_ip) ELSE Ev44(frame)
           o == [message |-> m, id |-> FrameId]
<1>1. /\ pc \in {"pu00", "ev44"} /\ pc' # "ev44" /\ UNCHANGED neutron_events
      /\ out' = Append(out, o)
  BY DEF SendPu00, SendEv44, At, Send, counters
<1>2. cursor <= Len(frames) /\ src_ip \in Sources /\ Len(extracted) \in Nat
  BY <1>1 DEF ProcessingInv, ProcessingTypeOK
<1>3. frame \in Headers /\ FrameId \in Nat
  BY <1>2, FrameInHand
<1>4. m \in Messages
  BY <1>2, <1>3 DEF Messages
<1>5. EventsOf(m) = IF pc = "ev44" THEN EventCount(frame) ELSE 0
  BY <1>1 DEF EventsOf, Pu00, Ev44
<1> HIDE DEF m
<1>6. o \in Sent /\ o.message = m
  BY <1>3, <1>4 DEF Sent
<1> HIDE DEF o
<1>7. EventsIn(out') = EventsIn(out) + EventsOf(m)
  BY <1>1, <1>6, OutType, EventsAdd
<1>8. EventsIn(out) \in Int /\ EventsOf(m) \in Int
  BY <1>4, OutType, EventsOfType
<1> QED BY <1>1, <1>5, <1>7, <1>8 DEF EventsAccountedFor

LEMMA OtherEvents ==
  ASSUME EventsAccountedFor,
         \/ \E d \in Datagrams, s \in Sources : Receive(d, s)
         \/ ReceiveError \/ StopExtracting \/ ExtractFrame \/ EndOfFrames
         \/ BeginFrame \/ RejectTime \/ AcceptTime \/ Panic \/ RejectData
         \/ NoEvents \/ CountError \/ UNCHANGED all_vars
  PROVE  EventsAccountedFor'
<1>1. /\ UNCHANGED <<neutron_events, out>>
      /\ \/ pc # "ev44" /\ pc' # "ev44"
         \/ UNCHANGED <<pc, frames, cursor>>
  <2>1. CASE (\E d \in Datagrams, s \in Sources : Receive(d, s)) \/ ReceiveError
    BY <2>1 DEF Receive, RecvFrom, ReceiveError, RecvError, counters, processing_vars
  <2>2. CASE StopExtracting \/ ExtractFrame
    BY <2>2 DEF StopExtracting, ExtractFrame, PushFrame, BreakAtPadding, BreakTooShort,
                BreakTooLong, EndOfContent, Iterating, counters, processing_vars
  <2>3. CASE BeginFrame \/ RejectTime \/ AcceptTime \/ Panic
    BY <2>3 DEF BeginFrame, RejectTime, AcceptTime, Panic, At, counters
  <2>4. CASE RejectData \/ NoEvents \/ CountError \/ EndOfFrames
    BY <2>4 DEF RejectData, NoEvents, CountError, EndOfFrames, Return, At, counters
  <2>5. CASE UNCHANGED all_vars
    BY <2>5 DEF all_vars, vars, processing_vars, counters
  <2> QED BY <2>1, <2>2, <2>3, <2>4, <2>5
<1>2. EventsIn(out)' = EventsIn(out)
  BY <1>1
<1>3. UNCHANGED <<frames, cursor>> => EventCount(frame)' = EventCount(frame)
  BY DEF frame
<1> QED BY <1>1, <1>2, <1>3 DEF EventsAccountedFor

LEMMA EventsStep ==
  /\ Framing!FramingInv /\ ProcessingInv /\ EventsAccountedFor
  /\ [ProcessingNext]_all_vars
  => EventsAccountedFor'
  BY CountEventsAccounts, SendAccounts, OtherEvents
  DEF ProcessingNext, Thread, ProcessFrames

(* NEUTRON_EVENTS is at any time the number of events in the ev44 messages *)
(* sent and in the one about to be sent: however frames fail, none is      *)
(* counted that is not sent, and none is sent uncounted.                   *)
THEOREM EventsAreAccountedFor == ProcessingSpec => []EventsAccountedFor
  BY EventsInit, EventsStep, ProcessingInvariant, FramingKept, PTL DEF ProcessingSpec

-----------------------------------------------------------------------------
(* The frames of the counters.  A header is counted when its frame is      *)
(* begun, an error when it is left: at any time the two counters tell the  *)
(* frames begun, and those left without being converted in full.           *)
Handling == {"neutron", "pu00", "parse", "ev44", "error", "panicked"}

Begun == IF pc \in Handling THEN FrameId ELSE FramesDone

BegunOf(t) == {i \in 1..Begun : PacketType(extracted[i].header) = t}

FailedOf(t) ==
  {i \in 1..FramesDone : PacketType(extracted[i].header) = t /\ ~ConvertedInFull(i)}

CountersTellFrames ==
  \A t \in PacketTypes : /\ headers[t] = Cardinality(BegunOf(t))
                         /\ processing_errors[t] = Cardinality(FailedOf(t))

(* The last frame that a message may have been sent for. *)
Reached == IF pc \in {"parse", "ev44", "error", "panicked"} THEN FrameId ELSE FramesDone

(* How far the frame in hand has come: a step that counts it, or leaves it *)
(* uncounted, is right about what was sent for it.                         *)
FrameInHandTold ==
  /\ \A j \in DOMAIN out : out[j].id <= Reached
  /\ pc \in {"parse", "ev44"} =>
       SentFor(FrameId, "pu00") # {} /\ SentFor(FrameId, "ev44") = {}
  /\ pc = "ev44" => DataWords(frame) > 0
  /\ pc = "error" => ~ConvertedInFull(FrameId)

AccountInv == CountersTellFrames /\ FrameInHandTold

LEMMA DoneFacts ==
  ASSUME Framing!FramingInv, ProcessingInv
  PROVE  /\ Len(extracted) \in Nat /\ Len(frames) \in Nat /\ cursor \in Nat
         /\ FramesDone \in Nat /\ FramesDone <= Len(extracted)
         /\ FrameId = FramesDone + 1
         /\ DOMAIN out = 1..Len(out) /\ Len(out) \in Nat
         /\ \A j \in DOMAIN out : out[j].id \in Nat
<1>1. /\ Len(extracted) \in Nat /\ Len(frames) \in Nat
      /\ cursor \in 1..(Len(frames) + 1) /\ Len(frames) <= Len(extracted)
      /\ out \in Seq(Sent)
  BY FramingFacts, OutType DEF ProcessingInv, ProcessingTypeOK
<1>2. \A j \in DOMAIN out : out[j] \in Sent
  BY <1>1, ElementOfSeq
<1> QED BY <1>1, <1>2 DEF FrameId, FramesDone, Sent

(* A message of one frame says nothing of the others. *)
LEMMA SentForOthers ==
  ASSUME Framing!FramingInv, ProcessingInv, NEW i, NEW kind,
         out' = out \/ (i # FrameId /\ \E m : Send(m))
  PROVE  SentFor(i, kind)' = SentFor(i, kind)
<1>1. CASE out' = out
  BY <1>1 DEF SentFor
<1>2. CASE i # FrameId /\ \E m : Send(m)
  <2>1. PICK m : Send(m)
    BY <1>2
  <2> DEFINE o == [message |-> m, id |-> FrameId]
  <2>2. o.id = FrameId
    OBVIOUS
  <2> HIDE DEF o
  <2>3. out' = Append(out, o)
    BY <2>1 DEF Send, o
  <2>4. out \in Seq(Sent) /\ Len(out) \in Nat /\ DOMAIN out = 1..Len(out)
    BY DoneFacts, OutType
  <2>5. /\ DOMAIN out' = 1..(Len(out) + 1) /\ out'[Len(out) + 1] = o
        /\ \A j \in 1..Len(out) : out'[j] = out[j]
    <3>1. out \in Seq(Sent \cup {o})
      BY <2>4
    <3>2. o \in Sent \cup {o}
      OBVIOUS
    <3> QED BY <2>3, <3>1, <3>2, AppendFacts
  <2> QED BY <1>2, <2>2, <2>4, <2>5 DEF SentFor
<1> QED BY <1>1, <1>2

LEMMA ConvertedStays ==
  ASSUME Framing!FramingInv, ProcessingInv, NEW i, extracted'[i] = extracted[i],
         out' = out \/ (i # FrameId /\ \E m : Send(m))
  PROVE  ConvertedInFull(i)' <=> ConvertedInFull(i)
  BY SentForOthers DEF ConvertedInFull

LEMMA CountFacts ==
  ASSUME Framing!FramingInv, ProcessingInv, NEW t
  PROVE  /\ Begun \in Nat
         /\ IsFiniteSet(BegunOf(t)) /\ IsFiniteSet(FailedOf(t))
         /\ Cardinality(BegunOf(t)) \in Nat /\ Cardinality(FailedOf(t)) \in Nat
<1>1. Begun \in Nat /\ FramesDone \in Nat
  BY DoneFacts DEF Begun
<1>2. BegunOf(t) \in SUBSET (1..Begun) /\ FailedOf(t) \in SUBSET (1..FramesDone)
  BY DEF BegunOf, FailedOf
<1>3. IsFiniteSet(1..Begun) /\ IsFiniteSet(1..FramesDone)
  BY <1>1, FS_Interval
<1>4. IsFiniteSet(BegunOf(t)) /\ IsFiniteSet(FailedOf(t))
  BY <1>2, <1>3, FS_Subset
<1> QED BY <1>1, <1>4, FS_CardinalityType

(* The frames that were left behind are not touched. *)
LEMMA FailedStays ==
  ASSUME Framing!FramingInv, ProcessingInv,
         \A i \in 1..FramesDone : extracted'[i] = extracted[i],
         out' = out \/ \E m : Send(m)
  PROVE  \A i \in 1..FramesDone : ConvertedInFull(i)' <=> ConvertedInFull(i)
<1> SUFFICES ASSUME NEW i \in 1..FramesDone
             PROVE  ConvertedInFull(i)' <=> ConvertedInFull(i)
  OBVIOUS
<1>1. i # FrameId
  BY DoneFacts
<1> QED BY <1>1, ConvertedStays

LEMMA AccountInit == ProcessingInit => AccountInv
<1> SUFFICES ASSUME ProcessingInit PROVE AccountInv
  OBVIOUS
<1>1. pc = "recv" /\ FramesDone = 0 /\ out = <<>>
  BY DEF ProcessingInit, Init, FramesDone, FrameId
<1>2. 1..0 = {}
  OBVIOUS
<1>3. \A t : BegunOf(t) = {} /\ FailedOf(t) = {}
  BY <1>1, <1>2 DEF BegunOf, FailedOf, Begun, Handling
<1>4. CountersTellFrames
  BY <1>3, FS_EmptySet DEF ProcessingInit, CountersTellFrames
<1> QED BY <1>1, <1>4 DEF AccountInv, FrameInHandTold

(* Outside of a frame, no counter and no frame left behind is touched. *)
LEMMA SocketAccounts ==
  ASSUME Framing!FramingInv, ProcessingInv, AccountInv,
         \/ \E d \in Datagrams, s \in Sources : Receive(d, s)
         \/ ReceiveError \/ StopExtracting \/ ExtractFrame \/ EndOfFrames
         \/ UNCHANGED all_vars
  PROVE  AccountInv'
<1>1. /\ UNCHANGED <<headers, processing_errors, out>>
      /\ FrameId' = FrameId
      /\ \/ pc \notin Handling /\ pc' \notin Handling
         \/ UNCHANGED <<pc, frames, cursor>>
      /\ \A i \in 1..Len(extracted) : extracted'[i] = extracted[i]
      /\ pc \in Handling => extracted' = extracted
  <2>1. CASE ExtractFrame
    <3> DEFINE e == [header |-> CurrentHeader, src |-> src_ip]
               f == [start |-> offset, header |-> CurrentHeader]
    <3>1. /\ pc = "extract" /\ pc' = "extract" /\ UNCHANGED <<cursor, counters, out>>
          /\ extracted' = Append(extracted, e) /\ frames' = Append(frames, f)
      BY <2>1 DEF ExtractFrame, PushFrame, Iterating
    <3>2. /\ extracted \in Seq([header : Headers, src : Sources])
          /\ frames \in Seq([start : Nat, header : Headers])
          /\ cursor \in Nat
      BY FramingFacts, DoneFacts DEF ProcessingInv, ProcessingTypeOK
    <3> HIDE DEF e, f
    <3>3. /\ Len(extracted') = Len(extracted) + 1 /\ Len(frames') = Len(frames) + 1
          /\ \A i \in 1..Len(extracted) : extracted'[i] = extracted[i]
      BY <3>1, <3>2
    <3>4. FrameId' = FrameId
      BY <3>1, <3>2, <3>3 DEF FrameId
    <3> QED BY <3>1, <3>3, <3>4 DEF Handling, counters
  <2>2. CASE \E d \in Datagrams, s \in Sources : Receive(d, s)
    <3>1. /\ pc = "recv" /\ pc' = "extract" /\ frames' = frames /\ cursor' = 1
          /\ UNCHANGED <<counters, extracted, out>>
      BY <2>2 DEF Receive, RecvFrom
    <3>2. frames = <<>>
      BY <3>1, FramingFacts
    <3>3. cursor = 1
      BY <3>2 DEF ProcessingInv, ProcessingTypeOK
    <3> QED BY <3>1, <3>3 DEF FrameId, Handling, counters
  <2>3. CASE ReceiveError
    BY <2>3 DEF ReceiveError, RecvError, FrameId, Handling, counters, processing_vars
  <2>4. CASE StopExtracting
    BY <2>4 DEF StopExtracting, BreakAtPadding, BreakTooShort, BreakTooLong, EndOfContent,
                Iterating, FrameId, Handling, counters, processing_vars
  <2>5. CASE EndOfFrames
    <3>1. /\ pc = "process" /\ pc' = "recv" /\ frames' = <<>> /\ cursor' = 1
          /\ UNCHANGED <<counters, extracted, out>> /\ cursor > Len(frames)
      BY <2>5 DEF EndOfFrames, Return
    <3>2. cursor = Len(frames) + 1 /\ Len(extracted) \in Nat /\ Len(frames) \in Nat
      BY <3>1, DoneFacts DEF ProcessingInv, ProcessingTypeOK
    <3> QED BY <3>1, <3>2 DEF FrameId, Handling, counters
  <2>6. CASE UNCHANGED all_vars
    BY <2>6 DEF all_vars, vars, processing_vars, counters, FrameId
  <2> QED BY <2>1, <2>2, <2>3, <2>4, <2>5, <2>6
<1>2. /\ FramesDone' = FramesDone /\ Begun' = Begun /\ Reached' = Reached
      /\ Begun <= Len(extracted) /\ FramesDone <= Len(extracted)
      /\ Len(extracted) \in Nat /\ FramesDone \in Nat
  <2>1. FramesDone' = FramesDone
    BY <1>1 DEF FramesDone
  <2>2. pc \in Handling => FrameId \in 1..Len(extracted)
    <3>1. pc \in Handling => cursor <= Len(frames)
      BY DEF ProcessingInv, ProcessingTypeOK, Handling
    <3> QED BY <3>1, FrameInHand
  <2> QED BY <1>1, <2>1, <2>2, DoneFacts DEF Begun, Reached, Handling
<1>3. \A i \in 1..FramesDone : ConvertedInFull(i)' <=> ConvertedInFull(i)
  BY <1>1, <1>2, FailedStays
<1>4. \A t : BegunOf(t)' = BegunOf(t) /\ FailedOf(t)' = FailedOf(t)
  <2> SUFFICES ASSUME NEW t PROVE BegunOf(t)' = BegunOf(t) /\ FailedOf(t)' = FailedOf(t)
    OBVIOUS
  <2>1. \A i \in 1..Begun : extracted'[i] = extracted[i]
    BY <1>1, <1>2, DoneFacts DEF Begun
  <2>2. \A i \in 1..FramesDone : extracted'[i] = extracted[i]
    BY <1>1, <1>2
  <2> QED BY <1>2, <1>3, <2>1, <2>2 DEF BegunOf, FailedOf
<1>5. CountersTellFrames'
  BY <1>1, <1>4 DEF AccountInv, CountersTellFrames
<1>6. FrameInHandTold'
  <2>1. CASE pc \notin Handling /\ pc' \notin Handling
    BY <1>1, <1>2, <2>1 DEF AccountInv, FrameInHandTold, Handling
  <2>2. CASE pc \in Handling /\ UNCHANGED <<pc, frames, cursor>>
    BY <1>1, <1>2, <2>2
    DEF AccountInv, FrameInHandTold, SentFor, ConvertedInFull, frame
  <2>3. CASE pc \notin Handling /\ UNCHANGED <<pc, frames, cursor>>
    BY <2>1, <2>3
  <2> QED BY <1>1, <2>1, <2>2, <2>3
<1> QED BY <1>5, <1>6 DEF AccountInv

(* A step that stays with the frame in hand. *)
LEMMA WithinAccounts ==
  ASSUME Framing!FramingInv, ProcessingInv, AccountInv,
         NEW here \in Handling, NEW there \in Handling, At(here, there),
         UNCHANGED <<cursor, headers, processing_errors>>,
         out' = out \/ \E m : Send(m),
         FrameInHandTold'
  PROVE  AccountInv'
<1>1. /\ UNCHANGED <<frames, extracted>>
      /\ FrameId' = FrameId /\ FramesDone' = FramesDone /\ Begun' = Begun
  BY DEF At, FrameId, FramesDone, Begun
<1>2. \A i \in 1..FramesDone : ConvertedInFull(i)' <=> ConvertedInFull(i)
  BY <1>1, FailedStays
<1>3. \A t : BegunOf(t)' = BegunOf(t) /\ FailedOf(t)' = FailedOf(t)
  BY <1>1, <1>2 DEF BegunOf, FailedOf
<1>4. CountersTellFrames'
  BY <1>3 DEF AccountInv, CountersTellFrames
<1> QED BY <1>4 DEF AccountInv

LEMMA QuietWithinAccounts ==
  ASSUME Framing!FramingInv, ProcessingInv, AccountInv,
         RejectTime \/ AcceptTime \/ Panic \/ RejectData \/ CountEvents
  PROVE  AccountInv'
<1>1. /\ cursor <= Len(frames)
      /\ UNCHANGED <<cursor, headers, processing_errors, out>>
  BY DEF RejectTime, AcceptTime, Panic, RejectData, CountEvents, At, counters,
         ProcessingInv, ProcessingTypeOK
<1>2. /\ frame \in Headers /\ FrameId \in 1..Len(extracted)
      /\ extracted[FrameId].header = frame
  BY <1>1, FrameInHand
<1>3. FrameId = FramesDone + 1 /\ FramesDone \in Nat /\ \A j \in DOMAIN out : out[j].id \in Nat
  BY DoneFacts
<1>4. \E here, there \in Handling :
         /\ At(here, there) /\ pc = here
         /\ there \in {"parse", "ev44"} => here = "parse"
  BY DEF RejectTime, AcceptTime, Panic, RejectData, CountEvents, At, Handling
<1>5. /\ UNCHANGED <<frames, extracted, cursor, out>> /\ pc \in Handling
      /\ FrameId' = FrameId /\ FramesDone' = FramesDone /\ frame' = frame
      /\ \A i, kind : SentFor(i, kind)' = SentFor(i, kind)
      /\ \A i : ConvertedInFull(i)' <=> ConvertedInFull(i)
  BY <1>1, <1>4 DEF At, FrameId, FramesDone, frame, SentFor, ConvertedInFull
<1>6. pc' = "error" => ~ConvertedInFull(FrameId)
  <2>1. CASE RejectTime
    <3>1. \A j \in DOMAIN out : out[j].id <= FramesDone
      BY <2>1 DEF RejectTime, At, AccountInv, FrameInHandTold, Reached
    <3>2. SentFor(FrameId, "pu00") = {}
      BY <1>3, <3>1 DEF SentFor
    <3> QED BY <3>2 DEF ConvertedInFull
  <2>2. CASE RejectData
    <3>1. SentFor(FrameId, "ev44") = {}
      BY <2>2 DEF RejectData, At, AccountInv, FrameInHandTold
    <3>2. DataBytesInBounds(frame) /\ DataWords(frame) # 0
      BY <2>2 DEF RejectData, ParsePanics, ParseOk
    <3>3. DataWords(frame) > 0
      BY <3>2, <1>2, HeaderAssumption DEF DataBytesInBounds, DataWords
    <3> QED BY <3>1, <3>3, <1>2 DEF ConvertedInFull
  <2>3. CASE AcceptTime \/ Panic \/ CountEvents
    BY <2>3 DEF AcceptTime, Panic, CountEvents, At
  <2> QED BY <2>1, <2>2, <2>3
<1>7. pc' = "ev44" => DataWords(frame) > 0
  BY DEF RejectTime, AcceptTime, Panic, RejectData, CountEvents, At
<1>8. \A j \in DOMAIN out : out[j].id <= Reached'
  <2>1. \A j \in DOMAIN out : out[j].id <= Reached
    BY DEF AccountInv, FrameInHandTold
  <2>2. Reached' \in {FrameId, FramesDone}
    BY <1>5 DEF Reached
  <2>3. Reached' = FrameId \/ Reached = FramesDone
    BY <1>5 DEF Reached, RejectTime, AcceptTime, Panic, RejectData, CountEvents, At
  <2> QED BY <1>3, <2>1, <2>2, <2>3 DEF Reached
<1>9. pc' \in {"parse", "ev44"} =>
        SentFor(FrameId, "pu00") # {} /\ SentFor(FrameId, "ev44") = {}
  BY DEF AccountInv, FrameInHandTold, RejectTime, AcceptTime, Panic, RejectData,
         CountEvents, At
<1>10. FrameInHandTold'
  BY <1>5, <1>6, <1>7, <1>8, <1>9 DEF FrameInHandTold
<1> QED BY <1>1, <1>4, <1>10, WithinAccounts

LEMMA SendPu00Accounts ==
  ASSUME Framing!FramingInv, ProcessingInv, AccountInv, SendPu00
  PROVE  AccountInv'
<1> DEFINE o == [message |-> Pu00(frame, src_ip), id |-> FrameId]
<1>1. /\ pc = "pu00" /\ pc' = "parse" /\ At("pu00", "parse") /\ out' = Append(out, o)
      /\ UNCHANGED <<cursor, headers, processing_errors, frames, extracted>>
      /\ Send(Pu00(frame, src_ip))
  BY DEF SendPu00, Send, At, counters
<1>2. /\ o.id = FrameId /\ o.message.kind = "pu00"
  BY DEF Pu00
<1> HIDE DEF o
<1>3. /\ out \in Seq(Sent \cup {o}) /\ Len(out) \in Nat /\ DOMAIN out = 1..Len(out)
      /\ FrameId = FramesDone + 1 /\ FramesDone \in Nat
      /\ \A j \in DOMAIN out : out[j].id \in Nat
  BY DoneFacts, OutType
<1>4. o \in Sent \cup {o}
  OBVIOUS
<1>5. /\ DOMAIN out' = 1..(Len(out) + 1) /\ out'[Len(out) + 1] = o
      /\ \A j \in 1..Len(out) : out'[j] = out[j]
  BY <1>1, <1>3, <1>4, AppendFacts
<1>6. FrameId' = FrameId /\ Reached' = FrameId
  BY <1>1 DEF FrameId, Reached
<1>7. \A j \in DOMAIN out : out[j].id <= FramesDone
  BY <1>1 DEF AccountInv, FrameInHandTold, Reached
<1>8. \A j \in DOMAIN out' : out'[j].id <= FrameId
  BY <1>2, <1>3, <1>5, <1>7
<1>9. Len(out) + 1 \in SentFor(FrameId, "pu00")'
  BY <1>2, <1>3, <1>5, <1>6 DEF SentFor
<1>10. SentFor(FrameId, "ev44")' = {}
  BY <1>2, <1>3, <1>5, <1>6, <1>7 DEF SentFor
<1>11. FrameInHandTold'
  BY <1>1, <1>6, <1>8, <1>9, <1>10 DEF FrameInHandTold
<1> QED BY <1>1, <1>11, WithinAccounts DEF Handling

LEMMA BeginFrameAccounts ==
  ASSUME Framing!FramingInv, ProcessingInv, AccountInv, BeginFrame
  PROVE  AccountInv'
<1> DEFINE u == PacketType(frame)
<1>1. /\ pc = "process" /\ pc' = (IF u = "NeutronData" THEN "neutron" ELSE "error")
      /\ cursor <= Len(frames)
      /\ headers' = [headers EXCEPT ![u] = @ + 1]
      /\ UNCHANGED <<frames, extracted, cursor, processing_errors, out>>
  BY DEF BeginFrame, At
<1>2. /\ extracted[FrameId].header = frame
      /\ FrameId = FramesDone + 1 /\ FramesDone \in Nat
      /\ \A j \in DOMAIN out : out[j].id \in Nat
  BY <1>1, FrameInHand, DoneFacts
<1>3. FrameId' = FrameId /\ FramesDone' = FramesDone /\ Begun = FramesDone /\ Begun' = FrameId
  BY <1>1 DEF FrameId, FramesDone, Begun, Handling
<1>4. \A i : ConvertedInFull(i)' <=> ConvertedInFull(i)
  BY <1>1 DEF ConvertedInFull, SentFor
<1>5. \A t : FailedOf(t)' = FailedOf(t)
  BY <1>1, <1>3, <1>4 DEF FailedOf
<1>6. 1..FrameId = (1..FramesDone) \cup {FrameId} /\ FrameId \notin 1..FramesDone
  BY <1>2
<1>7. \A t : BegunOf(t)' = IF t = u THEN BegunOf(t) \cup {FrameId} ELSE BegunOf(t)
  BY <1>1, <1>2, <1>3, <1>6 DEF BegunOf
<1>8. ASSUME NEW t \in PacketTypes PROVE headers'[t] = Cardinality(BegunOf(t)')
  <2>1. FrameId \notin BegunOf(t)
    BY <1>3, <1>6 DEF BegunOf
  <2>2. Cardinality(BegunOf(t) \cup {FrameId}) = Cardinality(BegunOf(t)) + 1
    BY <2>1, CountFacts, FS_AddElement
  <2>3. headers'[t] = IF t = u THEN headers[t] + 1 ELSE headers[t]
    BY <1>1 DEF ProcessingInv, ProcessingTypeOK
  <2>4. headers[t] = Cardinality(BegunOf(t))
    BY DEF AccountInv, CountersTellFrames
  <2> QED BY <1>7, <2>2, <2>3, <2>4
<1>9. CountersTellFrames'
  BY <1>1, <1>5, <1>8 DEF AccountInv, CountersTellFrames
<1>10. \A j \in DOMAIN out : out[j].id <= FramesDone
  BY <1>1 DEF AccountInv, FrameInHandTold, Reached
<1>11. ~ConvertedInFull(FrameId)
  BY <1>2, <1>10 DEF ConvertedInFull, SentFor
<1>12. FrameInHandTold'
  <2>1. Reached' \in {FrameId, FramesDone}
    BY <1>3 DEF Reached
  <2> QED BY <1>1, <1>2, <1>3, <1>4, <1>10, <1>11, <2>1 DEF FrameInHandTold
<1> QED BY <1>9, <1>12 DEF AccountInv

(* A step that leaves the frame in hand behind: it counts an error if the  *)
(* frame is not converted in full, and none if it is.                      *)
LEMMA LeaveAccounts ==
  ASSUME Framing!FramingInv, ProcessingInv, AccountInv,
         NEW here \in Handling, At(here, "process"),
         cursor <= Len(frames), cursor' = cursor + 1, UNCHANGED headers,
         out' = out \/ \E m : Send(m),
         NEW k, k = FrameId,
         \/ ConvertedInFull(k)' /\ UNCHANGED processing_errors
         \/ /\ ~ConvertedInFull(k)'
            /\ processing_errors' =
                 [processing_errors EXCEPT ![PacketType(frame)] = @ + 1]
  PROVE  AccountInv'
<1> DEFINE u == PacketType(frame)
           failed == ~ConvertedInFull(k)'
<1>1. pc \in Handling /\ pc' = "process" /\ UNCHANGED <<frames, extracted>>
  BY DEF At
<1>2. /\ extracted[FrameId].header = frame
      /\ FrameId = FramesDone + 1 /\ FramesDone \in Nat
      /\ \A j \in DOMAIN out : out[j].id \in Nat
      /\ cursor \in Nat /\ Len(frames) \in Nat /\ Len(extracted) \in Nat
      /\ DOMAIN out = 1..Len(out) /\ Len(out) \in Nat
  BY FrameInHand, DoneFacts
<1>3. FramesDone' = FrameId /\ Begun = FrameId /\ Begun' = FrameId /\ Reached' = FrameId
  BY <1>1, <1>2 DEF FrameId, FramesDone, Begun, Handling, Reached
<1>4. \A i \in 1..FramesDone : ConvertedInFull(i)' <=> ConvertedInFull(i)
  BY <1>1, FailedStays
<1>5. 1..FrameId = (1..FramesDone) \cup {FrameId} /\ FrameId \notin 1..FramesDone
  BY <1>2
<1>6. \A t : BegunOf(t)' = BegunOf(t)
  BY <1>1, <1>3 DEF BegunOf
<1>7. \A t : FailedOf(t)' = IF t = u /\ failed THEN FailedOf(t) \cup {FrameId}
                                             ELSE FailedOf(t)
  <2> SUFFICES ASSUME NEW t
               PROVE  FailedOf(t)' = IF t = u /\ failed THEN FailedOf(t) \cup {FrameId}
                                                      ELSE FailedOf(t)
    OBVIOUS
  <2> DEFINE now == {i \in 1..FrameId :
                       PacketType(extracted[i].header) = t /\ ~ConvertedInFull(i)'}
  <2>1. FailedOf(t)' = now
    BY <1>1, <1>3 DEF FailedOf
  <2>2. \A i \in 1..FrameId :
          ~ConvertedInFull(i)' <=> IF i = k THEN failed ELSE ~ConvertedInFull(i)
    BY <1>4, <1>5
  <2>3. extracted[k].header = frame
    BY <1>2
  <2> HIDE DEF failed, u
  <2>4. now = {i \in 1..FrameId :
                 /\ PacketType(extracted[i].header) = t
                 /\ IF i = k THEN failed ELSE ~ConvertedInFull(i)}
    BY <2>2
  <2> HIDE DEF now
  <2>5. PacketType(extracted[k].header) = u /\ k \notin 1..FramesDone
    BY <2>3, <1>5 DEF u
  <2> QED BY <1>5, <2>1, <2>4, <2>5 DEF FailedOf
<1>8. ASSUME NEW t \in PacketTypes
      PROVE  processing_errors'[t] = Cardinality(FailedOf(t)')
  <2>1. FrameId \notin FailedOf(t)
    BY <1>5 DEF FailedOf
  <2>2. Cardinality(FailedOf(t) \cup {FrameId}) = Cardinality(FailedOf(t)) + 1
    BY <2>1, CountFacts, FS_AddElement
  <2>3. processing_errors'[t] = IF t = u /\ failed THEN processing_errors[t] + 1
                                                   ELSE processing_errors[t]
    BY DEF ProcessingInv, ProcessingTypeOK
  <2>4. processing_errors[t] = Cardinality(FailedOf(t))
    BY DEF AccountInv, CountersTellFrames
  <2> QED BY <1>7, <2>2, <2>3, <2>4
<1>9. CountersTellFrames'
  BY <1>6, <1>8 DEF AccountInv, CountersTellFrames
<1>10. \A j \in DOMAIN out' : out'[j].id <= FrameId
  <2>1. \A j \in DOMAIN out : out[j].id <= FrameId
    <3>1. Reached <= FrameId
      BY <1>2 DEF Reached
    <3>2. Reached \in Nat /\ FrameId \in Nat
      BY <1>2 DEF Reached
    <3> QED BY <1>2, <3>1, <3>2 DEF AccountInv, FrameInHandTold
  <2>2. CASE \E m : Send(m)
    <3>1. PICK m : Send(m)
      BY <2>2
    <3> DEFINE o == [message |-> m, id |-> FrameId]
    <3>2. o.id = FrameId /\ FrameId <= FrameId
      BY <1>2
    <3> HIDE DEF o
    <3>3. out \in Seq(Sent \cup {o}) /\ o \in Sent \cup {o} /\ out' = Append(out, o)
      BY <3>1, OutType DEF Send, o
    <3>4. /\ DOMAIN out' = 1..(Len(out) + 1) /\ out'[Len(out) + 1] = o
          /\ \A j \in 1..Len(out) : out'[j] = out[j]
      BY <3>3, AppendFacts
    <3> QED BY <1>2, <2>1, <3>2, <3>4
  <2> QED BY <2>1, <2>2
<1>11. FrameInHandTold'
  BY <1>1, <1>3, <1>10 DEF FrameInHandTold
<1> QED BY <1>9, <1>11 DEF AccountInv

LEMMA LeavingAccounts ==
  ASSUME Framing!FramingInv, ProcessingInv, AccountInv,
         NoEvents \/ SendEv44 \/ CountError
  PROVE  AccountInv'
<1>1. cursor <= Len(frames)
  BY DEF NoEvents, SendEv44, CountError, At, ProcessingInv, ProcessingTypeOK
<1>2. FrameId \in 1..Len(extracted) /\ extracted[FrameId].header = frame
  BY <1>1, FrameInHand
<1>3. PICK k \in 1..Len(extracted) : k = FrameId
  BY <1>2
<1>4. CASE NoEvents
  <2>1. /\ At("parse", "process") /\ pc = "parse" /\ DataWords(frame) = 0
        /\ cursor' = cursor + 1
        /\ UNCHANGED <<headers, processing_errors, out, extracted>>
    BY <1>4 DEF NoEvents, At, counters
  <2>2. SentFor(k, "pu00") # {}
    BY <1>3, <2>1 DEF AccountInv, FrameInHandTold
  <2>3. DataWords(extracted[k].header) = 0
    BY <1>2, <1>3, <2>1
  <2>4. ConvertedInFull(k)'
    BY <2>1, <2>2, <2>3 DEF ConvertedInFull, SentFor
  <2> QED BY <1>1, <1>3, <2>1, <2>4, LeaveAccounts DEF Handling
<1>5. CASE SendEv44
  <2> DEFINE o == [message |-> Ev44(frame), id |-> FrameId]
  <2>1. /\ At("ev44", "process") /\ pc = "ev44" /\ Send(Ev44(frame))
        /\ out' = Append(out, o)
        /\ cursor' = cursor + 1 /\ UNCHANGED <<headers, processing_errors, extracted>>
    BY <1>5 DEF SendEv44, Send, At, counters
  <2>2. o.id = k /\ o.message.kind = "ev44"
    BY <1>3 DEF Ev44
  <2> HIDE DEF o
  <2>3. out \in Seq(Sent \cup {o}) /\ o \in Sent \cup {o}
        /\ DOMAIN out = 1..Len(out) /\ Len(out) \in Nat
    BY OutType, DoneFacts
  <2>4. /\ DOMAIN out' = 1..(Len(out) + 1) /\ out'[Len(out) + 1] = o
        /\ \A j \in 1..Len(out) : out'[j] = out[j]
    BY <2>1, <2>3, AppendFacts
  <2>5. PICK j \in SentFor(k, "pu00") : TRUE
    BY <1>3, <2>1 DEF AccountInv, FrameInHandTold
  <2>6. j \in SentFor(k, "pu00")'
    BY <2>3, <2>4, <2>5 DEF SentFor
  <2>7. Len(out) + 1 \in SentFor(k, "ev44")'
    BY <2>2, <2>3, <2>4 DEF SentFor
  <2>8. ConvertedInFull(k)'
    BY <2>6, <2>7 DEF ConvertedInFull
  <2> QED BY <1>1, <1>3, <2>1, <2>8, LeaveAccounts DEF Handling
<1>6. CASE CountError
  <2>1. /\ At("error", "process") /\ pc = "error"
        /\ cursor' = cursor + 1 /\ UNCHANGED <<headers, out, extracted>>
        /\ processing_errors' = [processing_errors EXCEPT ![PacketType(frame)] = @ + 1]
    BY <1>6 DEF CountError, At
  <2>2. ~ConvertedInFull(k)
    BY <1>3, <2>1 DEF AccountInv, FrameInHandTold
  <2>3. ~ConvertedInFull(k)'
    BY <2>1, <2>2 DEF ConvertedInFull, SentFor
  <2> QED BY <1>1, <1>3, <2>1, <2>3, LeaveAccounts DEF Handling
<1> QED BY <1>4, <1>5, <1>6

LEMMA AccountStep ==
  /\ Framing!FramingInv /\ ProcessingInv /\ AccountInv /\ [ProcessingNext]_all_vars
  => AccountInv'
  BY SocketAccounts, QuietWithinAccounts, SendPu00Accounts, BeginFrameAccounts,
     LeavingAccounts
  DEF ProcessingNext, Thread, ProcessFrames

(* At any time, in the middle of a datagram too, INCOMING_UDP_HEADERS      *)
(* counts the frames begun, by type, and PROCESSING_ERRORS those left      *)
(* behind without all they owe.                                            *)
THEOREM CountersInvariant == ProcessingSpec => []AccountInv
  BY AccountInit, AccountStep, ProcessingInvariant, FramingKept, PTL DEF ProcessingSpec

(* Between two datagrams every frame was begun and left. *)
LEMMA IdleAccounts ==
  Framing!FramingInv /\ ProcessingInv /\ AccountInv => FramesAccountedFor
<1> SUFFICES ASSUME Framing!FramingInv, ProcessingInv, AccountInv, pc = "recv",
                    NEW t \in PacketTypes
             PROVE  LET seen == {i \in DOMAIN extracted :
                                   PacketType(extracted[i].header) = t} IN
                    /\ headers[t] = Cardinality(seen)
                    /\ headers[t] - processing_errors[t]
                         = Cardinality({i \in seen : ConvertedInFull(i)})
  BY DEF FramesAccountedFor
<1> DEFINE seen == {i \in DOMAIN extracted : PacketType(extracted[i].header) = t}
           full == {i \in seen : ConvertedInFull(i)}
<1>1. frames = <<>> /\ cursor = 1 /\ DOMAIN extracted = 1..Len(extracted)
  BY FramingFacts DEF ProcessingInv, ProcessingTypeOK
<1>2. FramesDone = Len(extracted) /\ Begun = FramesDone
  BY <1>1, DoneFacts DEF FramesDone, FrameId, Begun, Handling
<1>3. seen = BegunOf(t) /\ FailedOf(t) = seen \ full /\ full \in SUBSET seen
  BY <1>1, <1>2 DEF BegunOf, FailedOf
<1>4. /\ IsFiniteSet(seen) /\ seen \cap full = full
      /\ Cardinality(seen) \in Nat
      /\ headers[t] = Cardinality(seen)
      /\ processing_errors[t] = Cardinality(seen \ full)
  BY <1>3, CountFacts DEF AccountInv, CountersTellFrames
<1> HIDE DEF seen, full
<1>5. Cardinality(seen \ full) = Cardinality(seen) - Cardinality(full)
  <2>1. Cardinality(seen \ full) = Cardinality(seen) - Cardinality(seen \cap full)
    BY <1>4, FS_Difference
  <2>2. Cardinality(seen \cap full) = Cardinality(full)
    BY <1>4
  <2> QED BY <2>1, <2>2
<1>6. Cardinality(full) \in Nat
  BY <1>3, <1>4, FS_Subset, FS_CardinalityType
<1>7. headers[t] - processing_errors[t] = Cardinality(full)
  BY <1>4, <1>5, <1>6
<1> QED BY <1>4, <1>7 DEF seen, full

(* When the thread waits at the socket, the headers counted are all the    *)
(* frames there were, and those that gave no error are those that sent     *)
(* their pu00 and, if they hold events, their ev44: no frame is lost       *)
(* without a trace and none that was half sent passes for a success.       *)
THEOREM NoFrameIsLost == ProcessingSpec => []FramesAccountedFor
  BY IdleAccounts, CountersInvariant, ProcessingInvariant, FramingKept, PTL

-----------------------------------------------------------------------------
(* The thread is back at the socket after a bounded number of steps.       *)
StepsAreNatural ==
  /\ StepsLeft \in Nat
  /\ received \in Nat /\ offset \in 0..received
  /\ Len(frames) \in Nat /\ cursor \in 1..(Len(frames) + 1)
  /\ pc \in DOMAIN StepsIntoFrame =>
       StepsLeft = 5 * (Len(frames) + 1 - cursor) + 1 - StepsIntoFrame[pc]

LEMMA StepsAreCounted ==
  ASSUME Framing!FramingInv, ProcessingInv
  PROVE  StepsAreNatural
<1> SUFFICES /\ StepsLeft \in Nat
             /\ received \in Nat /\ offset \in 0..received
             /\ Len(frames) \in Nat /\ cursor \in 1..(Len(frames) + 1)
             /\ pc \in DOMAIN StepsIntoFrame =>
                  StepsLeft = 5 * (Len(frames) + 1 - cursor) + 1 - StepsIntoFrame[pc]
  BY DEF StepsAreNatural
<1>1. /\ received \in Nat /\ offset \in 0..received
      /\ Len(frames) \in Nat /\ cursor \in 1..(Len(frames) + 1)
  BY FramingAssumption, FramingFacts
  DEF Framing!FramingInv, Framing!TypeOK, ProcessingInv, ProcessingTypeOK
<1>2. CASE pc = "extract"
  BY <1>1, <1>2 DEF StepsLeft, StepsIntoFrame
<1>3. CASE pc \in {"recv", "panicked"}
  BY <1>1, <1>3 DEF StepsLeft, StepsIntoFrame
<1>4. CASE pc = "process"
  <2>1. StepsLeft = 5 * (Len(frames) + 1 - cursor) + 1 - 0
    BY <1>4 DEF StepsLeft, StepsIntoFrame
  <2> QED BY <1>1, <1>4, <2>1 DEF StepsIntoFrame
<1>5. CASE pc \in {"neutron", "pu00", "parse", "ev44", "error"}
  <2>1. /\ StepsLeft = 5 * (Len(frames) + 1 - cursor) + 1 - StepsIntoFrame[pc]
        /\ StepsIntoFrame[pc] \in 1..4
    BY <1>5 DEF StepsLeft, StepsIntoFrame
  <2>2. cursor <= Len(frames)
    BY <1>5 DEF ProcessingInv, ProcessingTypeOK
  <2> QED BY <1>1, <2>1, <2>2
<1> QED BY <1>2, <1>3, <1>4, <1>5, <1>1 DEF ProcessingInv, ProcessingTypeOK

LEMMA ReceiveSteps ==
  ASSUME Framing!FramingInv, ProcessingInv, StepsAreNatural, StepsAreNatural',
         ReceiveError \/ \E d \in Datagrams, s \in Sources : Receive(d, s)
  PROVE  pc = "recv" /\ StepsLeft' <= 6 * received' + 2
<1>1. received' \in Nat /\ offset' \in 0..received'
  BY DEF StepsAreNatural
<1>2. CASE ReceiveError
  BY <1>1, <1>2 DEF ReceiveError, RecvError, StepsLeft
<1>3. CASE \E d \in Datagrams, s \in Sources : Receive(d, s)
  <2>1. pc = "recv" /\ pc' = "extract" /\ frames' = <<>>
    BY <1>3, FramingFacts DEF Receive, RecvFrom
  <2>2. Len(frames') = 0
    BY <2>1
  <2>3. StepsLeft' = 6 * (received' - offset') + 5 * Len(frames') + 2
    BY <2>1 DEF StepsLeft
  <2>4. 6 * (received' - offset') + 5 * 0 + 2 <= 6 * received' + 2
    <3>1. \A r \in Nat : \A o \in 0..r : 6 * (r - o) + 5 * 0 + 2 <= 6 * r + 2
      OBVIOUS
    <3> QED BY <1>1, <3>1
  <2> QED BY <2>1, <2>2, <2>3, <2>4
<1> QED BY <1>2, <1>3

LEMMA PushFrameSteps ==
  ASSUME Framing!FramingInv, ProcessingInv, StepsAreNatural, ExtractFrame
  PROVE  pc = "extract" /\ StepsLeft' < StepsLeft
<1> DEFINE f == [start |-> offset, header |-> CurrentHeader]
           n == CurrentHeader.total_length_words
<1>1. /\ pc = "extract" /\ pc' = "extract" /\ offset < received
      /\ NewView(CurrentHeader, received - offset) = "Ok"
      /\ frames' = Append(frames, f) /\ offset' = offset + n /\ received' = received
  BY DEF ExtractFrame, PushFrame, Iterating, Advance
<1>2. /\ received \in Nat /\ offset \in Nat
      /\ frames \in Seq([start : Nat, header : Headers]) /\ CurrentHeader \in Headers
  BY <1>1, FramingFacts DEF StepsAreNatural
<1>3. n \in Nat /\ n >= 1
  BY <1>1, <1>2, HeaderAssumption DEF NewView
<1> HIDE DEF f, n
<1>4. Len(frames') = Len(frames) + 1 /\ Len(frames) \in Nat
  BY <1>1, <1>2
<1>5. /\ StepsLeft = 6 * (received - offset) + 5 * Len(frames) + 2
      /\ StepsLeft' = 6 * (received - (offset + n)) + 5 * (Len(frames) + 1) + 2
  BY <1>1, <1>4 DEF StepsLeft
<1> QED BY <1>1, <1>2, <1>3, <1>4, <1>5

LEMMA StopExtractingSteps ==
  ASSUME Framing!FramingInv, ProcessingInv, StepsAreNatural, StepsAreNatural',
         StopExtracting
  PROVE  pc = "extract" /\ StepsLeft' < StepsLeft
<1>1. /\ pc = "extract" /\ pc' = "process" /\ UNCHANGED <<frames, cursor>>
  BY DEF StopExtracting, BreakAtPadding, BreakTooShort, BreakTooLong, EndOfContent,
         Iterating, processing_vars
<1>2. /\ received \in Nat /\ offset \in 0..received
      /\ Len(frames) \in Nat /\ cursor \in 1..(Len(frames) + 1)
  BY DEF StepsAreNatural
<1>3. /\ StepsLeft = 6 * (received - offset) + 5 * Len(frames) + 2
      /\ StepsLeft' = 5 * (Len(frames) + 1 - cursor) + 1 - 0
  BY <1>1 DEF StepsLeft, StepsIntoFrame
<1> QED BY <1>1, <1>2, <1>3

LEMMA FrameSteps ==
  ASSUME Framing!FramingInv, ProcessingInv, StepsAreNatural, StepsAreNatural',
         ProcessFrames
  PROVE  pc # "recv" /\ StepsLeft' < StepsLeft
<1>1. /\ pc \in DOMAIN StepsIntoFrame =>
           StepsLeft = 5 * (Len(frames) + 1 - cursor) + 1 - StepsIntoFrame[pc]
      /\ pc' \in DOMAIN StepsIntoFrame =>
           StepsLeft' = 5 * (Len(frames') + 1 - cursor') + 1 - StepsIntoFrame[pc']
      /\ Len(frames) \in Nat /\ cursor \in 1..(Len(frames) + 1)
  BY DEF StepsAreNatural
<1>2. DOMAIN StepsIntoFrame = {"process", "neutron", "pu00", "parse", "ev44", "error"}
  BY DEF StepsIntoFrame
<1>3. CASE BeginFrame \/ RejectTime \/ AcceptTime \/ SendPu00 \/ RejectData \/ CountEvents
  <2>1. /\ pc \in DOMAIN StepsIntoFrame /\ pc' \in DOMAIN StepsIntoFrame
        /\ StepsIntoFrame[pc] \in Nat /\ StepsIntoFrame[pc'] \in Nat
        /\ StepsIntoFrame[pc] < StepsIntoFrame[pc']
        /\ UNCHANGED <<frames, cursor>>
    BY <1>3 DEF BeginFrame, RejectTime, AcceptTime, SendPu00, RejectData, CountEvents,
                At, StepsIntoFrame
  <2> QED BY <1>1, <1>2, <2>1
<1>4. CASE NoEvents \/ SendEv44 \/ CountError
  <2>1. /\ pc \in DOMAIN StepsIntoFrame /\ pc' = "process"
        /\ StepsIntoFrame[pc] \in 3..4 /\ StepsIntoFrame["process"] = 0
        /\ frames' = frames /\ cursor' = cursor + 1
    BY <1>4 DEF NoEvents, SendEv44, CountError, At, StepsIntoFrame
  <2> QED BY <1>1, <1>2, <2>1
<1>5. CASE Panic
  <2>1. pc = "parse" /\ pc' = "panicked"
    BY <1>5 DEF Panic, At
  <2>2. cursor <= Len(frames)
    BY <2>1 DEF ProcessingInv, ProcessingTypeOK
  <2>3. StepsLeft = 5 * (Len(frames) + 1 - cursor) + 1 - 3 /\ StepsLeft' = 0
    BY <2>1 DEF StepsLeft, StepsIntoFrame
  <2> QED BY <1>1, <2>1, <2>2, <2>3
<1>6. CASE EndOfFrames
  <2>1. pc = "process" /\ pc' = "recv"
    BY <1>6 DEF EndOfFrames, Return
  <2>2. StepsLeft = 5 * (Len(frames) + 1 - cursor) + 1 - 0 /\ StepsLeft' = 0
    BY <2>1 DEF StepsLeft, StepsIntoFrame
  <2> QED BY <1>1, <2>1, <2>2
<1> QED BY <1>3, <1>4, <1>5, <1>6 DEF ProcessFrames

LEMMA StepsStep ==
  ASSUME Framing!FramingInv, ProcessingInv, StepsAreNatural, StepsAreNatural',
         [ProcessingNext]_all_vars
  PROVE  [/\ StepsLeft' \in Nat
          /\ pc # "recv" => StepsLeft' < StepsLeft
          /\ pc = "recv" => StepsLeft' <= 6 * received' + 2]_all_vars
<1>1. StepsLeft' \in Nat
  BY DEF StepsAreNatural
<1>2. CASE ReceiveError \/ \E d \in Datagrams, s \in Sources : Receive(d, s)
  BY <1>1, <1>2, ReceiveSteps
<1>3. CASE Thread
  BY <1>1, <1>3, PushFrameSteps, StopExtractingSteps, FrameSteps DEF Thread
<1>4. CASE UNCHANGED all_vars
  BY <1>4
<1> QED BY <1>2, <1>3, <1>4 DEF ProcessingNext

(* However the lengths in the headers are declared, the thread takes at    *)
(* most six steps for a word received, and two more, before it waits at    *)
(* the socket again or has panicked: neither loop runs for ever.           *)
THEOREM StepsAlwaysRunOut == ProcessingSpec => StepsRunOut
<1>1. StepsAreNatural /\ StepsAreNatural' /\ Framing!FramingInv /\ ProcessingInv
      /\ [ProcessingNext]_all_vars
      => [/\ StepsLeft' \in Nat
          /\ pc # "recv" => StepsLeft' < StepsLeft
          /\ pc = "recv" => StepsLeft' <= 6 * received' + 2]_all_vars
  BY StepsStep
<1>2. Framing!FramingInv /\ ProcessingInv => StepsAreNatural
  BY StepsAreCounted
<1> QED
  BY <1>1, <1>2, ProcessingInvariant, FramingKept, PTL DEF ProcessingSpec, StepsRunOut
=============================================================================
