----------------------------- MODULE UdpToKafka -----------------------------
(***************************************************************************)
(* The running program: the kernel's socket queue in front of the thread   *)
(* of udp_process, and librdkafka's queue and the topic behind it.  What   *)
(* the thread does with a datagram is the module Relay; here its messages  *)
(* are given to producer.send one by one, which takes them or refuses      *)
(* them, and the process may die at any time and be started again.         *)
(*                                                                         *)
(* A message is known by its position in `delivered', the history of all   *)
(* calls of send.  A topic keeps no order here: the messages have an empty *)
(* key, so the partitioner spreads them.  A recv_from that fails changes   *)
(* nothing here (PacketToFrames counts it).                                *)
(***************************************************************************)
EXTENDS Relay, FiniteSets

CONSTANTS
  Streamed,     \* what the boards send: pairs of a datagram and its sender
  SocketMax,    \* datagrams the kernel keeps for the socket
  QueueMax,     \* queue.buffering.max.messages of config.kafka_producer
  MaxArrivals,  \* bound: datagrams sent
  MaxRestarts   \* bound: restarts of the process

ASSUME StreamAssumption ==
  /\ Streamed \subseteq Datagrams \X Sources
  /\ SocketMax \in Nat /\ QueueMax \in Nat
  /\ MaxArrivals \in Nat /\ MaxRestarts \in Nat

(* The control board declares one period for a pulse.  What the other      *)
(* boards declare is anything.                                             *)
ASSUME ControlBoardAssumption ==
  \A ds, es \in Streamed : ds[2] = ControlBoard /\ es[2] = ControlBoard =>
    \A i \in 1..Len(ds[1]), j \in 1..Len(es[1]) :
      /\ Timed(ds[1][i]) /\ Timed(es[1][j])
      /\ ds[1][i].pulse_time = es[1][j].pulse_time
      => ds[1][i].period_number = es[1][j].period_number

VARIABLES
  arrived,            \* history: the datagrams sent, with their senders
  socket,             \* those waiting in the socket, by number
  read,               \* history: those read, with Len(delivered) at that time
  interrupted,        \* history: positions in `read' that a kill cut short
  fate,               \* of each message handed to send
  reports,            \* delivery reports nobody has polled for yet
  topic,              \* messages written to the topic
  outgoing_messages,  \* OUTGOING_KAFKA_MESSAGES
  produce_errors,     \* OUTGOING_KAFKA_PRODUCE_ERRORS
  run_start,          \* history: Len(delivered) when this process started
  restarts            \* restarts so far

network_vars == <<arrived, socket>>
history_vars == <<read, interrupted, run_start, restarts>>
kafka_vars == <<fate, reports, topic>>
counter_vars == <<outgoing_messages, produce_errors>>
vars == <<relay_vars, network_vars, history_vars, kafka_vars, counter_vars>>

Fates == {"queued", "refused", "acknowledged", "expired", "purged"}

Handed == 1..Len(fate)
With(f) == {j \in Handed : fate[j] = f}

(* librdkafka counts a message until its report has been polled for. *)
Occupied == Cardinality(With("queued")) + Cardinality(reports)

Init ==
  /\ RelayInit
  /\ arrived = <<>> /\ socket = <<>>
  /\ read = <<>> /\ interrupted = {} /\ run_start = 0 /\ restarts = 0
  /\ fate = <<>> /\ reports = {} /\ topic = {}
  /\ outgoing_messages = 0 /\ produce_errors = 0

-----------------------------------------------------------------------------
(* The kernel: a datagram for which there is no room, or no socket, is     *)
(* dropped and nobody is told.                                             *)
Arrive(d, s) ==
  /\ Len(arrived) < MaxArrivals
  /\ arrived' = Append(arrived, [datagram |-> d, src |-> s])
  /\ socket' = IF status # "stopped" /\ Len(socket) < SocketMax
                 THEN Append(socket, Len(arrived) + 1) ELSE socket
  /\ UNCHANGED <<relay_vars, history_vars, kafka_vars, counter_vars>>

-----------------------------------------------------------------------------
(* The thread. *)
Receive ==
  /\ socket # <<>>
  /\ Take(arrived[Head(socket)].datagram, arrived[Head(socket)].src)
  /\ socket' = Tail(socket)
  /\ read' = Append(read, [arrival |-> Head(socket), first |-> Len(delivered)])
  /\ UNCHANGED <<arrived, interrupted, run_start, restarts, kafka_vars, counter_vars>>

(* The sink: producer.send never waits, and its result only moves one of   *)
(* two counters.  It fails when the queue is full, and may fail otherwise  *)
(* (a topic that does not exist).                                          *)
Enqueue ==
  /\ Deliver
  /\ Occupied < QueueMax
  /\ fate' = Append(fate, "queued")
  /\ outgoing_messages' = outgoing_messages + 1
  /\ UNCHANGED <<network_vars, history_vars, reports, topic, produce_errors>>

BadRefuseRetries == Occupied >= QueueMax /\ owed # <<>> /\ UNCHANGED vars

BadRefuseCountsBoth ==
  /\ Deliver
  /\ fate' = Append(fate, "refused")
  /\ produce_errors' = produce_errors + 1
  /\ outgoing_messages' = outgoing_messages + 1
  /\ UNCHANGED <<network_vars, history_vars, reports, topic>>

BadRefuseSkipsRest ==
  /\ owed # <<>>
  /\ delivered' = Append(delivered, Head(owed))
  /\ owed' = <<>>
  /\ fate' = Append(fate, "refused")
  /\ produce_errors' = produce_errors + 1
  /\ UNCHANGED <<status, network_vars, history_vars, reports, topic, outgoing_messages>>

Refuse ==
  /\ Deliver
  /\ fate' = Append(fate, "refused")
  /\ produce_errors' = produce_errors + 1
  /\ UNCHANGED <<network_vars, history_vars, reports, topic, outgoing_messages>>

Return ==
  /\ Finish
  /\ UNCHANGED <<network_vars, history_vars, kafka_vars, counter_vars>>

(* With the process go its socket and what librdkafka had not sent. *)
LoseProcess ==
  /\ socket' = <<>>
  /\ fate' = [j \in Handed |-> IF fate[j] = "queued" THEN "purged" ELSE fate[j]]
  /\ reports' = {}

BadPanic ==
  /\ Die
  /\ UNCHANGED <<network_vars, history_vars, kafka_vars, counter_vars>>

Panic ==
  /\ Die
  /\ LoseProcess
  /\ UNCHANGED <<arrived, history_vars, topic, counter_vars>>

Thread == Receive \/ Enqueue \/ Refuse \/ Return \/ Panic

-----------------------------------------------------------------------------
(* The process from outside: it is killed at any time, and started again   *)
(* with counters that initialize_metrics sets to zero.                     *)
Kill ==
  /\ status # "stopped"
  /\ status' = "stopped"
  /\ owed' = <<>>
  /\ interrupted' = interrupted \cup (IF status = "idle" THEN {} ELSE {Len(read)})
  /\ LoseProcess
  /\ UNCHANGED <<delivered, arrived, read, run_start, restarts, topic, counter_vars>>

Start ==
  /\ status = "stopped"
  /\ restarts < MaxRestarts
  /\ status' = "idle"
  /\ outgoing_messages' = 0 /\ produce_errors' = 0
  /\ run_start' = Len(delivered)
  /\ restarts' = restarts + 1
  /\ UNCHANGED <<owed, delivered, network_vars, read, interrupted, kafka_vars>>

-----------------------------------------------------------------------------
(* Kafka.  A message may be written as long as a request that holds it is  *)
(* under way, which outlives its expiry and the process.  The report of an *)
(* expired message may be wrong: its acknowledgment was lost.              *)
Write(j) ==
  /\ fate[j] \in {"queued", "expired", "purged"}
  /\ topic' = topic \cup {j}
  /\ UNCHANGED <<relay_vars, network_vars, history_vars, fate, reports, counter_vars>>

Report(j) ==
  /\ fate[j] = "queued"
  /\ \E f \in {"expired"} \cup (IF j \in topic THEN {"acknowledged"} ELSE {}) :
       fate' = [fate EXCEPT ![j] = f]
  /\ reports' = reports \cup {j}
  /\ UNCHANGED <<relay_vars, network_vars, history_vars, topic, counter_vars>>

(* The thread of the ThreadedProducer; DefaultProducerContext ignores what *)
(* the reports say.                                                        *)
BadPoll == FALSE /\ UNCHANGED vars

Poll ==
  /\ reports # {}
  /\ reports' = {}
  /\ UNCHANGED <<relay_vars, network_vars, history_vars, fate, topic, counter_vars>>

Next ==
  \/ \E ds \in Streamed : Arrive(ds[1], ds[2])
  \/ Thread
  \/ Kill \/ Start
  \/ \E j \in Handed : Write(j) \/ Report(j)
  \/ Poll

Spec == Init /\ [][Next]_vars

(* A broker that never answers: only the thread is sure to go on. *)
StalledSpec == Spec /\ WF_vars(Thread)

(* Every message is answered or expires (message.timeout.ms), and the      *)
(* producer's thread polls.                                                *)
FairSpec == StalledSpec /\ WF_vars(\E j \in Handed : Report(j)) /\ WF_vars(Poll)

-----------------------------------------------------------------------------
(* Every variable has its type, the producer never holds more messages     *)
(* than it may, and a process that is gone holds neither a datagram nor a  *)
(* message.                                                                *)
TypeOK ==
  /\ status \in {"idle", "busy", "doomed", "stopped"}
  /\ owed \in Seq(Messages) /\ delivered \in Seq(Messages)
  /\ owed # <<>> => status \in {"busy", "doomed"}
  /\ arrived \in Seq([datagram : Datagrams, src : Sources])
  /\ socket \in Seq(1..Len(arrived)) /\ Len(socket) <= SocketMax
  /\ read \in Seq([arrival : 1..Len(arrived), first : 0..Len(delivered)])
  /\ interrupted \subseteq 1..Len(read)
  /\ fate \in Seq(Fates) /\ Len(fate) = Len(delivered)
  /\ reports \subseteq With("acknowledged") \cup With("expired")
  /\ topic \subseteq Handed
  /\ outgoing_messages \in Nat /\ produce_errors \in Nat
  /\ run_start \in 0..Len(delivered) /\ restarts \in Nat
  /\ Occupied <= QueueMax
  /\ status = "stopped" => socket = <<>> /\ Occupied = 0

ThisRun == (run_start + 1)..Len(delivered)

(* Over refusals, expiries, crashes and restarts, the two counters tell    *)
(* what became of the calls of send (lib.rs:89-95): one counts those that  *)
(* were refused, which no consumer will see, and the other all else, which *)
(* is no less than what consumers see of this process.                     *)
CountersTellFates ==
  /\ produce_errors = Cardinality(ThisRun \cap With("refused"))
  /\ outgoing_messages = Cardinality(ThisRun \ With("refused"))
  /\ topic \cap With("refused") = {}

(* What was handed to send for the k-th datagram read, and what it owes. *)
HandedFor(k) ==
  SubSeq(delivered, read[k].first + 1,
         IF k = Len(read) THEN Len(delivered) ELSE read[k + 1].first)

OwedBy(k) ==
  Owed(Cut(arrived[read[k].arrival].datagram), arrived[read[k].arrival].src)

(* Every datagram read has its messages handed to send once each and in    *)
(* order, whatever became of those before them: a message that is refused  *)
(* takes no other with it, and a restart repeats nothing.  Only a kill in  *)
(* the middle of a datagram leaves out the last of them.                   *)
NothingSkippedOrRepeated ==
  \A k \in 1..Len(read) :
    IF k \in interrupted THEN SubSeq(OwedBy(k), 1, Len(HandedFor(k))) = HandedFor(k)
    ELSE IF k = Len(read) THEN HandedFor(k) \o owed = OwedBy(k)
    ELSE HandedFor(k) = OwedBy(k)

(* "This is to prevent duplicate frames appearing in downstream consumers" *)
(* (data_processing.rs:136): whatever is lost, late or out of order on the *)
(* way, no pulse is seen in two periods, though boards other than the      *)
(* control board declare periods of their own.                             *)
OnePeriodPerPulse ==
  \A i, j \in topic :
    LET m == delivered[i]
        n == delivered[j]
    IN  /\ m.kind = "pu00" /\ n.kind = "pu00"
        /\ m.reference_time = n.reference_time
        /\ m.period_number # Absent /\ n.period_number # Absent
        => m.period_number = n.period_number

(* However long Kafka takes, the thread gets back to the socket: every     *)
(* datagram in the kernel's queue is read in the end, or goes with the     *)
(* process (udp_process never waits for a delivery).                       *)
ReadingNeverWaits ==
  \A n \in 1..MaxArrivals :
    (\E i \in 1..Len(socket) : socket[i] = n)
      ~> ~(\E i \in 1..Len(socket) : socket[i] = n)

(* A full queue is a full queue for a time only: the reports of messages   *)
(* are polled for, which frees their places (make_producer, a threaded     *)
(* producer).                                                              *)
QueueDrains == Occupied >= QueueMax ~> Occupied < QueueMax
=============================================================================
