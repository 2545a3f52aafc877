--------------------------- MODULE DataProcessing ---------------------------
(***************************************************************************)
(* process_udp_bytes_to_kafka: the frames of a datagram, split by          *)
(* PacketToFrames, are converted one after the other, each by the rules of *)
(* FrameConversion, and their messages handed to the sink.  A frame that   *)
(* cannot be converted is counted and skipped.                             *)
(***************************************************************************)
EXTENDS PacketToFrames, FrameConversion, FiniteSets

VARIABLES
  src_ip,                         \* sender of the datagram in hand
  cursor,                         \* the frame in hand: an index of frames
  headers,                        \* INCOMING_UDP_HEADERS, by type
  processing_errors,              \* PROCESSING_ERRORS, by type
  streaming_control_board_frames, \* STREAMING_CONTROL_BOARD_FRAMES
  neutron_events,                 \* NEUTRON_EVENTS
  invalid_neutron_events,         \* INVALID_NEUTRON_EVENTS
  extracted,  \* history: every frame ever extracted, with its source
  out         \* history: every message given to the sink, and for which frame

counters == <<headers, processing_errors, streaming_control_board_frames,
              neutron_events, invalid_neutron_events>>

processing_vars == <<src_ip, cursor, counters, extracted, out>>

all_vars == <<vars, processing_vars>>

ProcessingInit ==
  /\ Init
  /\ src_ip = ControlBoard
  /\ cursor = 1
  /\ headers = [t \in PacketTypes |-> 0]
  /\ processing_errors = [t \in PacketTypes |-> 0]
  /\ streaming_control_board_frames = 0
  /\ neutron_events = 0
  /\ invalid_neutron_events = 0
  /\ extracted = <<>>
  /\ out = <<>>

-----------------------------------------------------------------------------
frame == frames[cursor].header
content_len == received - frames[cursor].start
FrameId == Len(extracted) - Len(frames) + cursor

Receive(d, s) ==
  /\ RecvFrom(d)
  /\ src_ip' = s
  /\ cursor' = 1
  /\ UNCHANGED <<counters, extracted, out>>

ReceiveError == RecvError /\ UNCHANGED processing_vars

ExtractFrame ==
  /\ PushFrame
  /\ extracted' = Append(extracted, [header |-> CurrentHeader, src |-> src_ip])
  /\ UNCHANGED <<src_ip, cursor, counters, out>>

StopExtracting ==
  /\ BreakAtPadding \/ BreakTooShort \/ BreakTooLong \/ EndOfContent
  /\ UNCHANGED processing_vars

(* Steps of the thread inside the loop over frames change neither the      *)
(* buffer nor the frames.                                                  *)
At(here, there) ==
  /\ pc = here
  /\ pc' = there
  /\ UNCHANGED <<udp_buf, received, offset, frames, framing_counters, sent,
                 src_ip, extracted>>

BeginFrame ==
  LET t == PacketType(frame) IN
  /\ cursor <= Len(frames)
  /\ At("process", IF t = "NeutronData" THEN "neutron" ELSE "error")
  /\ headers' = [headers EXCEPT ![t] = @ + 1]
  /\ UNCHANGED <<cursor, processing_errors, streaming_control_board_frames,
                 neutron_events, invalid_neutron_events, out>>

(* process_neutron_frame, in its order. *)
RejectTime ==
  /\ At("neutron", "error")
  /\ frame.pulse_time = NoTime
  /\ UNCHANGED <<cursor, counters, out>>

AcceptTime ==
  /\ At("neutron", "pu00")
  /\ frame.pulse_time # NoTime
  /\ streaming_control_board_frames' =
       streaming_control_board_frames + (IF src_ip = ControlBoard THEN 1 ELSE 0)
  /\ UNCHANGED <<cursor, headers, processing_errors, neutron_events,
                 invalid_neutron_events, out>>

(* send_pu00 and send_ev44 reset the shared FlatBufferBuilder first, so    *)
(* that what the sink gets is this message and no other.                   *)
Send(m) == out' = Append(out, [message |-> m, id |-> FrameId])

BadSendPu00 ==
  /\ At("pu00", "parse")
  /\ IF ParseOk(frame) THEN Send(Pu00(frame, src_ip)) ELSE UNCHANGED out
  /\ UNCHANGED <<cursor, counters>>

SendPu00 ==
  /\ At("pu00", "parse")
  /\ Send(Pu00(frame, src_ip))
  /\ UNCHANGED <<cursor, counters>>

Panic ==
  /\ At("parse", "panicked")
  /\ ParsePanics(frame, content_len)
  /\ UNCHANGED <<cursor, counters, out>>

BadRejectData ==
  /\ At("parse", "process")
  /\ ~ParsePanics(frame, content_len)
  /\ ~ParseOk(frame)
  /\ invalid_neutron_events' = invalid_neutron_events
       + (IF ReachesEvents(frame) THEN frame.invalid_events ELSE 0)
  /\ cursor' = cursor + 1
  /\ UNCHANGED <<headers, processing_errors, streaming_control_board_frames,
                 neutron_events, out>>

RejectData ==
  /\ At("parse", "error")
  /\ ~ParsePanics(frame, content_len)
  /\ ~ParseOk(frame)
  /\ invalid_neutron_events' = invalid_neutron_events
       + (IF ReachesEvents(frame) THEN frame.invalid_events ELSE 0)
  /\ UNCHANGED <<cursor, headers, processing_errors,
                 streaming_control_board_frames, neutron_events, out>>

NoEvents ==
  /\ At("parse", "process")
  /\ ~ParsePanics(frame, content_len)
  /\ DataWords(frame) = 0
  /\ cursor' = cursor + 1
  /\ UNCHANGED <<counters, out>>

BadCountEvents ==
  /\ At("parse", "ev44")
  /\ ~ParsePanics(frame, content_len)
  /\ ParseOk(frame) /\ DataWords(frame) > 0
  /\ neutron_events' = neutron_events + 1
  /\ UNCHANGED <<cursor, headers, processing_errors,
                 streaming_control_board_frames, invalid_neutron_events, out>>

CountEvents ==
  /\ At("parse", "ev44")
  /\ ~ParsePanics(frame, content_len)
  /\ ParseOk(frame) /\ DataWords(frame) > 0
  /\ neutron_events' = neutron_events + EventCount(frame)
  /\ UNCHANGED <<cursor, headers, processing_errors,
                 streaming_control_board_frames, invalid_neutron_events, out>>

SendEv44 ==
  /\ At("ev44", "process")
  /\ Send(Ev44(frame))
  /\ cursor' = cursor + 1
  /\ UNCHANGED counters

(* An Err of one frame is counted; the loop goes on with the next.         *)
BadCountError ==
  /\ At("error", "process")
  /\ processing_errors' = [processing_errors EXCEPT ![PacketType(frame)] = @ + 1]
  /\ cursor' = Len(frames) + 1
  /\ UNCHANGED <<headers, streaming_control_board_frames, neutron_events,
                 invalid_neutron_events, out>>

CountError ==
  /\ At("error", "process")
  /\ processing_errors' = [processing_errors EXCEPT ![PacketType(frame)] = @ + 1]
  /\ cursor' = cursor + 1
  /\ UNCHANGED <<headers, streaming_control_board_frames, neutron_events,
                 invalid_neutron_events, out>>

BadKeepCursor ==
  /\ cursor > Len(frames)
  /\ Return
  /\ UNCHANGED processing_vars

BadMissLastFrame ==
  /\ cursor > Len(frames) + 1
  /\ Return
  /\ cursor' = 1
  /\ UNCHANGED <<src_ip, counters, extracted, out>>

EndOfFrames ==
  /\ cursor > Len(frames)
  /\ Return
  /\ cursor' = 1
  /\ UNCHANGED <<src_ip, counters, extracted, out>>

ProcessFrames ==
  \/ BeginFrame \/ RejectTime \/ AcceptTime \/ SendPu00 \/ Panic \/ RejectData
  \/ NoEvents \/ CountEvents \/ SendEv44 \/ CountError \/ EndOfFrames

Thread == ExtractFrame \/ StopExtracting \/ ProcessFrames

ProcessingNext ==
  \/ \E d \in Datagrams, s \in Sources : Receive(d, s)
  \/ ReceiveError
  \/ Thread

ProcessingSpec == ProcessingInit /\ [][ProcessingNext]_all_vars

(* The thread keeps running; nothing makes a datagram arrive. *)
FairProcessingSpec == ProcessingSpec /\ WF_all_vars(Thread)

-----------------------------------------------------------------------------
(* Frames the thread has left behind, of all it has extracted. *)
FramesDone == FrameId - 1

SentFor(i, kind) ==
  {j \in DOMAIN out : out[j].id = i /\ out[j].message.kind = kind}

ConvertedInFull(i) ==
  /\ SentFor(i, "pu00") # {}
  /\ DataWords(extracted[i].header) > 0 => SentFor(i, "ev44") # {}

(* Every variable has its type, and the frame in hand exists. *)
ProcessingTypeOK ==
  /\ pc \in {"recv", "extract", "process", "neutron", "pu00", "parse", "ev44",
            "error", "panicked"}
  /\ src_ip \in Sources
  /\ cursor \in 1..(Len(frames) + 1)
  /\ pc \notin {"recv", "extract", "process"} => cursor <= Len(frames)
  /\ headers \in [PacketTypes -> Nat]
  /\ processing_errors \in [PacketTypes -> Nat]
  /\ streaming_control_board_frames \in Nat
  /\ neutron_events \in Nat
  /\ invalid_neutron_events \in Nat
  /\ extracted \in Seq([header : Headers, src : Sources])
  /\ Len(frames) <= Len(extracted)
  /\ out \in Seq([message : Messages, id : Nat])

VetoSent(i) ==
  LET h == extracted[i].header IN
  PacketType(h) = "NeutronData" /\ h.pulse_time # NoTime
    => \E j \in SentFor(i, "pu00") :
         /\ out[j].message.vetoes = h.vetoes
         /\ out[j].message.reference_time = h.pulse_time

(* "Vetoes are always transmitted" (data_processing.rs:140): a neutron     *)
(* frame with a valid time has its vetoes sent on before its event data is *)
(* looked at, so that they are not lost with data that is refused, nor     *)
(* when that data stops the process.                                       *)
VetoesAlwaysTransmitted ==
  /\ \A i \in 1..FramesDone : VetoSent(i)
  /\ pc \in {"parse", "ev44", "panicked"} => VetoSent(FrameId)

(* "The period number and PPP only ever come from the streaming control    *)
(* board packets" (data_processing.rs:134): what a consumer reads in a     *)
(* pu00 is what the control board declared in that very frame, or nothing. *)
PeriodOnlyFromControlBoard ==
  \A j \in DOMAIN out :
    LET m == out[j].message
        f == extracted[out[j].id]
    IN  m.kind = "pu00" =>
          \/ /\ f.src = ControlBoard
             /\ m.period_number = f.header.period_number
             /\ m.proton_charge = f.header.ppp_per_frame
          \/ /\ f.src # ControlBoard
             /\ m.period_number = Absent
             /\ m.proton_charge = Absent

(* The headers of each type that were counted are those that gave an error *)
(* and those that were converted in full: a frame whose data is refused,   *)
(* and which sent its pu00 alone, is never taken for a success, and none   *)
(* is lost without a trace (process_udp_bytes_to_kafka's two counters).    *)
FramesAccountedFor ==
  pc = "recv" =>
    \A t \in PacketTypes :
      LET seen == {i \in DOMAIN extracted : PacketType(extracted[i].header) = t} IN
      /\ headers[t] = Cardinality(seen)
      /\ headers[t] - processing_errors[t]
           = Cardinality({i \in seen : ConvertedInFull(i)})

EventsOf(m) == IF m.kind = "ev44" THEN m.events ELSE 0

EventsIn(s) ==
  LET upTo[n \in 0..Len(s)] ==
        IF n = 0 THEN 0 ELSE upTo[n - 1] + EventsOf(s[n].message)
  IN  upTo[Len(s)]

(* NEUTRON_EVENTS is the number of events in the ev44 messages given to    *)
(* the sink, and those of the message about to be given to it: no event of *)
(* data that the decoder refused is counted, and none goes out uncounted   *)
(* (process_neutron_frame).  What Kafka does with the message is no matter.*)
EventsAccountedFor ==
  neutron_events = EventsIn(out) + (IF pc = "ev44" THEN EventCount(frame) ELSE 0)

(* Every datagram is served to its end, whatever it holds, and the thread  *)
(* is back at the socket -- or a malformed header stopped the process.     *)
EveryDatagramIsServed == pc = "extract" ~> pc \in {"recv", "panicked"}

(* Steps the thread takes at most until it waits at the socket again: a    *)
(* word received may yet be a frame, and a frame takes five steps.         *)
StepsIntoFrame ==
  [process |-> 0, neutron |-> 1, pu00 |-> 2, parse |-> 3, ev44 |-> 4, error |-> 4]

StepsLeft ==
  IF pc = "extract" THEN 6 * (received - offset) + 5 * Len(frames) + 2
  ELSE IF pc \in {"recv", "panicked"} THEN 0
  ELSE 5 * (Len(frames) + 1 - cursor) + 1 - StepsIntoFrame[pc]

(* No datagram keeps the thread from the socket for longer than its size   *)
(* allows, whatever lengths its headers declare: every step of the loops   *)
(* of packet_to_frames and process_udp_bytes_to_kafka uses up one of the   *)
(* steps left, of which there are at most six for a word received.         *)
StepsRunOut ==
  [][/\ StepsLeft' \in Nat
     /\ pc # "recv" => StepsLeft' < StepsLeft
     /\ pc = "recv" => StepsLeft' <= 6 * received' + 2]_all_vars

(* The process is a relay: what it sends is what the datagrams owe by the  *)
(* abstract specification, in order, each message once, nothing of an      *)
(* earlier datagram, and nothing of one frame changed by another's failure.*)
InHand == SubSeq(sent, 1, received)

SentOfDatagram ==
  Cardinality({j \in DOMAIN out : out[j].id > Len(extracted) - Len(frames)})

Promise ==
  INSTANCE Relay WITH
    status <- IF pc = "recv" THEN "idle"
              ELSE IF pc = "panicked" THEN "stopped"
              ELSE IF Fatal(InHand, src_ip) THEN "doomed" ELSE "busy",
    owed <- IF pc = "recv" THEN <<>>
            ELSE LET all == Owed(InHand, src_ip)
                 IN  SubSeq(all, SentOfDatagram + 1, Len(all)),
    delivered <- [j \in DOMAIN out |-> out[j].message]

RelayKept == Promise!RelaySpec

(* lib.rs:60 of udp_process: "Listen to a UDP socket and produce messages  *)
(* onto the output Kafka topic forever": no datagram keeps the thread from *)
(* getting back to the socket.                                             *)
ProducesForever == pc = "extract" ~> pc = "recv"

(* metrics.rs:88 of STREAMING_CONTROL_BOARD_FRAMES: "Number of frame       *)
(* headers received from streaming control board."                         *)
ControlBoardHeadersCounted ==
  pc = "recv" =>
    streaming_control_board_frames
      = Cardinality({i \in DOMAIN extracted : extracted[i].src = ControlBoard})
=============================================================================
