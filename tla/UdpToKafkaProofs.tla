-------------------------- MODULE UdpToKafkaProofs --------------------------
(***************************************************************************)
(* What holds of the running program whatever the boards stream, however   *)
(* long its queues and its life, and however many datagrams arrive.        *)
(***************************************************************************)
EXTENDS UdpToKafka, FrameConversionProofs, FiniteSetTheorems, SequenceTheorems

LEMMA CutType ==
  ASSUME NEW d \in Datagrams
  PROVE  Cut(d) \in Seq(Headers) /\ Len(Cut(d)) <= Len(d)
         /\ \A i \in 1..Len(Cut(d)) : i \in 1..Len(d) /\ Cut(d)[i] = d[i]
<1> DEFINE n == IF Len(d) < BufferWords THEN Len(d) ELSE BufferWords
<1>1. d \in Seq(Headers) /\ n \in 0..Len(d)
  BY RelayAssumption
<1>2. \A i \in 1..n : d[i] \in Headers
  BY <1>1
<1> HIDE DEF n
<1>3. /\ SubSeq(d, 1, n) \in Seq(Headers) /\ Len(SubSeq(d, 1, n)) = n
      /\ \A i \in 1..n : SubSeq(d, 1, n)[i] = d[i]
  BY <1>1, <1>2, SubSeqProperties
<1> QED BY <1>1, <1>3 DEF Cut, n

LEMMA OwedOfDatagram ==
  ASSUME NEW d \in Datagrams, NEW s \in Sources
  PROVE  Owed(Cut(d), s) \in Seq(Messages)
  BY CutType, OwedType, MessagesFromType, SeqMonotonic

-----------------------------------------------------------------------------
(* The parts of TypeOK. *)
ThreadTypeOK ==
  /\ status \in {"idle", "busy", "doomed", "stopped"}
  /\ owed \in Seq(Messages) /\ delivered \in Seq(Messages)
  /\ owed # <<>> => status \in {"busy", "doomed"}

NetworkTypeOK ==
  /\ arrived \in Seq([datagram : Datagrams, src : Sources])
  /\ socket \in Seq(1..Len(arrived)) /\ Len(socket) <= SocketMax

HistoryTypeOK ==
  /\ read \in Seq([arrival : 1..Len(arrived), first : 0..Len(delivered)])
  /\ interrupted \subseteq 1..Len(read)
  /\ run_start \in 0..Len(delivered) /\ restarts \in Nat

KafkaTypeOK ==
  /\ fate \in Seq(Fates) /\ Len(fate) = Len(delivered)
  /\ reports \subseteq With("acknowledged") \cup With("expired")
  /\ topic \subseteq Handed
  /\ outgoing_messages \in Nat /\ produce_errors \in Nat

QueueOK ==
  /\ Occupied <= QueueMax
  /\ status = "stopped" => socket = <<>> /\ Occupied = 0

TypeInv == ThreadTypeOK /\ NetworkTypeOK /\ HistoryTypeOK /\ KafkaTypeOK

LEMMA ThreadTypeInit == Init => TypeInv
  BY StreamAssumption DEF Init, RelayInit, TypeInv, ThreadTypeOK, NetworkTypeOK, HistoryTypeOK,
     KafkaTypeOK, With, Handed

LEMMA ArriveType ==
  ASSUME TypeInv, NEW ds \in Streamed, Arrive(ds[1], ds[2])
  PROVE  TypeInv'
<1>1. ds[1] \in Datagrams /\ ds[2] \in Sources
  BY StreamAssumption
<1>2. /\ arrived' \in Seq([datagram : Datagrams, src : Sources])
      /\ Len(arrived') = Len(arrived) + 1 /\ Len(arrived) \in Nat
  BY <1>1 DEF TypeInv, NetworkTypeOK, Arrive
<1>3. NetworkTypeOK'
  <2>1. socket \in Seq(1..Len(arrived')) /\ Len(arrived) + 1 \in 1..Len(arrived')
    BY <1>2, SeqMonotonic DEF TypeInv, NetworkTypeOK
  <2>2. Len(socket) \in Nat /\ Len(socket) <= SocketMax
    BY DEF TypeInv, NetworkTypeOK
  <2>3. CASE status # "stopped" /\ Len(socket) < SocketMax
    <3>1. socket' = Append(socket, Len(arrived) + 1)
      BY <2>3 DEF Arrive
    <3> QED BY <1>2, <2>1, <2>2, <2>3, <3>1, AppendProperties, StreamAssumption DEF NetworkTypeOK
  <2>4. CASE ~(status # "stopped" /\ Len(socket) < SocketMax)
    <3>1. socket' = socket
      BY <2>4 DEF Arrive
    <3> QED BY <1>2, <2>1, <2>2, <3>1 DEF NetworkTypeOK
  <2> QED BY <2>3, <2>4
<1>4. HistoryTypeOK'
  <2>1. [arrival : 1..Len(arrived), first : 0..Len(delivered)]
          \subseteq [arrival : 1..Len(arrived'), first : 0..Len(delivered)]
    BY <1>2
  <2>2. read \in Seq([arrival : 1..Len(arrived'), first : 0..Len(delivered)])
    BY <2>1, SeqMonotonic DEF TypeInv, HistoryTypeOK
  <2> QED BY <2>2 DEF TypeInv, HistoryTypeOK, Arrive, relay_vars, history_vars
<1>5. ThreadTypeOK' /\ KafkaTypeOK'
  BY DEF TypeInv, ThreadTypeOK, KafkaTypeOK, Arrive, relay_vars, kafka_vars, counter_vars, With, Handed
<1> QED BY <1>3, <1>4, <1>5 DEF TypeInv

LEMMA ReceiveType ==
  ASSUME TypeInv, Receive
  PROVE  TypeInv'
<1> DEFINE n == Head(socket)
<1>1. /\ n \in 1..Len(arrived) /\ Tail(socket) \in Seq(1..Len(arrived))
      /\ Len(Tail(socket)) = Len(socket) - 1 /\ Len(socket) \in Nat /\ Len(socket) <= SocketMax
  <2>1. socket \in Seq(1..Len(arrived)) /\ socket # <<>> /\ Len(socket) <= SocketMax
    BY DEF TypeInv, NetworkTypeOK, Receive
  <2> DEFINE N == 1..Len(arrived)
  <2> HIDE DEF N
  <2>2. socket \in Seq(N)
    BY <2>1 DEF N
  <2>3. /\ Head(socket) \in N /\ Tail(socket) \in Seq(N)
        /\ Len(Tail(socket)) = Len(socket) - 1 /\ Len(socket) \in Nat
    BY <2>1, <2>2, HeadTailProperties
  <2> QED BY <2>1, <2>3 DEF N
<1>2. arrived[n].datagram \in Datagrams /\ arrived[n].src \in Sources
  <2>1. arrived[n] \in [datagram : Datagrams, src : Sources]
    <3> DEFINE R == [datagram : Datagrams, src : Sources]
    <3>1. arrived \in Seq(R)
      BY DEF TypeInv, NetworkTypeOK
    <3> HIDE DEF R, n
    <3> QED BY <1>1, <3>1, ElementOfSeq DEF R
  <2> QED BY <2>1
<1>3. Owed(Cut(arrived[n].datagram), arrived[n].src) \in Seq(Messages)
  BY <1>2, OwedOfDatagram
<1>4. ThreadTypeOK'
  BY <1>3 DEF TypeInv, ThreadTypeOK, Receive, Take
<1>5. NetworkTypeOK'
  BY <1>1, StreamAssumption DEF TypeInv, NetworkTypeOK, Receive
<1>6. HistoryTypeOK'
  <2>1. Len(delivered) \in 0..Len(delivered)
    BY DEF TypeInv, ThreadTypeOK
  <2>2. [arrival |-> n, first |-> Len(delivered)] \in [arrival : 1..Len(arrived), first : 0..Len(delivered)]
    BY <1>1, <2>1
  <2>3. /\ read' \in Seq([arrival : 1..Len(arrived), first : 0..Len(delivered)])
        /\ Len(read') = Len(read) + 1 /\ Len(read) \in Nat
    BY <2>2, AppendProperties DEF TypeInv, HistoryTypeOK, Receive
  <2> QED BY <2>3 DEF TypeInv, HistoryTypeOK, Receive, Take
<1>7. KafkaTypeOK'
  BY DEF TypeInv, KafkaTypeOK, Receive, Take, kafka_vars, counter_vars, With, Handed
<1> QED BY <1>4, <1>5, <1>6, <1>7 DEF TypeInv

(* One more call of send, whose message is queued or refused. *)
LEMMA SendType ==
  ASSUME TypeInv, Deliver, NEW f \in Fates, fate' = Append(fate, f),
         UNCHANGED <<network_vars, history_vars, reports, topic>>,
         outgoing_messages' \in Nat, produce_errors' \in Nat
  PROVE  TypeInv'
<1>1. /\ delivered' \in Seq(Messages) /\ Len(delivered') = Len(delivered) + 1
      /\ owed' \in Seq(Messages) /\ Len(delivered) \in Nat /\ status' = status
  BY HeadTailProperties, AppendProperties DEF TypeInv, ThreadTypeOK, Deliver
<1>2. ThreadTypeOK'
  BY <1>1 DEF TypeInv, ThreadTypeOK, Deliver
<1>3. NetworkTypeOK'
  BY DEF TypeInv, NetworkTypeOK, network_vars
<1>4. HistoryTypeOK'
  <2>1. [arrival : 1..Len(arrived), first : 0..Len(delivered)]
          \subseteq [arrival : 1..Len(arrived), first : 0..Len(delivered')]
    BY <1>1
  <2>2. read \in Seq([arrival : 1..Len(arrived), first : 0..Len(delivered')])
    BY <2>1, SeqMonotonic DEF TypeInv, HistoryTypeOK
  <2> QED BY <1>1, <2>2 DEF TypeInv, HistoryTypeOK, network_vars, history_vars
<1>5. KafkaTypeOK'
  <2>1. /\ fate' \in Seq(Fates) /\ Len(fate') = Len(fate) + 1 /\ Len(fate) \in Nat
        /\ \A j \in 1..Len(fate) : fate'[j] = fate[j]
    BY AppendProperties DEF TypeInv, KafkaTypeOK
  <2>2. \A g : With(g) \subseteq With(g)'
    BY <2>1 DEF With, Handed
  <2> QED BY <1>1, <2>1, <2>2 DEF TypeInv, KafkaTypeOK, Handed
<1> QED BY <1>2, <1>3, <1>4, <1>5 DEF TypeInv

LEMMA EnqueueType ==
  ASSUME TypeInv, Enqueue
  PROVE  TypeInv'
<1>1. "queued" \in Fates /\ outgoing_messages' \in Nat /\ produce_errors' \in Nat
  BY DEF Fates, TypeInv, KafkaTypeOK, Enqueue
<1> QED BY <1>1, SendType DEF Enqueue

LEMMA RefuseType ==
  ASSUME TypeInv, Refuse
  PROVE  TypeInv'
<1>1. "refused" \in Fates /\ outgoing_messages' \in Nat /\ produce_errors' \in Nat
  BY DEF Fates, TypeInv, KafkaTypeOK, Refuse
<1> QED BY <1>1, SendType DEF Refuse

(* What the end of a process does to the fates of its messages. *)
LEMMA LoseProcessFates ==
  ASSUME TypeInv, LoseProcess
  PROVE  /\ fate' \in Seq(Fates) /\ Len(fate') = Len(fate)
         /\ With("queued")' = {} /\ With("refused")' = With("refused")
         /\ \A f \in {"acknowledged", "expired"} : With(f)' = With(f)
<1> DEFINE g == [j \in 1..Len(fate) |-> IF fate[j] = "queued" THEN "purged" ELSE fate[j]]
<1>1. Len(fate) \in Nat /\ fate' = g /\ \A j \in 1..Len(fate) : fate[j] \in Fates
  BY DEF TypeInv, KafkaTypeOK, LoseProcess, Handed
<1>2. \A j \in 1..Len(fate) : g[j] \in Fates
  BY <1>1 DEF Fates
<1>3. g \in Seq(Fates) /\ Len(g) = Len(fate)
  BY <1>1, <1>2
<1>4. \A j \in 1..Len(fate) : fate'[j] = IF fate[j] = "queued" THEN "purged" ELSE fate[j]
  BY <1>1
<1> QED BY <1>1, <1>3, <1>4 DEF With, Handed

LEMMA LoseProcessType ==
  ASSUME TypeInv, LoseProcess, UNCHANGED <<arrived, delivered, read, run_start, restarts, topic, counter_vars>>,
         interrupted' \subseteq 1..Len(read), ThreadTypeOK'
  PROVE  TypeInv'
<1>1. NetworkTypeOK'
  BY StreamAssumption DEF TypeInv, NetworkTypeOK, LoseProcess
<1>2. HistoryTypeOK'
  BY DEF TypeInv, HistoryTypeOK
<1>3. KafkaTypeOK'
  BY LoseProcessFates DEF TypeInv, KafkaTypeOK, LoseProcess, Handed, counter_vars
<1> QED BY <1>1, <1>2, <1>3 DEF TypeInv

LEMMA PanicType ==
  ASSUME TypeInv, Panic
  PROVE  TypeInv'
<1>1. ThreadTypeOK' /\ interrupted' \subseteq 1..Len(read)
  BY DEF TypeInv, ThreadTypeOK, HistoryTypeOK, Panic, Die, history_vars
<1> QED BY <1>1, LoseProcessType DEF Panic, Die, history_vars

(* A datagram is in hand only once one was read. *)
InHandWasRead == status \in {"busy", "doomed"} => Len(read) \in 1..Len(read)

LEMMA KillType ==
  ASSUME TypeInv, InHandWasRead, Kill
  PROVE  TypeInv'
<1>1. ThreadTypeOK'
  BY DEF TypeInv, ThreadTypeOK, Kill
<1>2. interrupted' \subseteq 1..Len(read)
  BY DEF TypeInv, ThreadTypeOK, HistoryTypeOK, Kill, InHandWasRead
<1> QED BY <1>1, <1>2, LoseProcessType DEF Kill

LEMMA StartType ==
  ASSUME TypeInv, Start
  PROVE  TypeInv'
<1>1. ThreadTypeOK' /\ NetworkTypeOK' /\ HistoryTypeOK'
  BY DEF TypeInv, ThreadTypeOK, NetworkTypeOK, HistoryTypeOK, Start, network_vars
<1>2. KafkaTypeOK'
  BY DEF TypeInv, KafkaTypeOK, Start, kafka_vars, With, Handed
<1> QED BY <1>1, <1>2 DEF TypeInv

LEMMA WriteType ==
  ASSUME TypeInv, NEW j \in Handed, Write(j)
  PROVE  TypeInv'
<1>1. ThreadTypeOK' /\ NetworkTypeOK' /\ HistoryTypeOK'
  BY DEF TypeInv, ThreadTypeOK, NetworkTypeOK, HistoryTypeOK, Write, relay_vars, network_vars, history_vars
<1>2. KafkaTypeOK'
  BY DEF TypeInv, KafkaTypeOK, Write, relay_vars, counter_vars, With, Handed
<1> QED BY <1>1, <1>2 DEF TypeInv

(* What a delivery report does to the fates. *)
LEMMA ReportFates ==
  ASSUME TypeInv, NEW j \in Handed, Report(j)
  PROVE  /\ fate' \in Seq(Fates) /\ Len(fate') = Len(fate)
         /\ With("queued")' = With("queued") \ {j} /\ j \in With("queued")
         /\ With("refused")' = With("refused")
         /\ j \in With("acknowledged")' \cup With("expired")'
         /\ \A f \in {"acknowledged", "expired"} : With(f) \subseteq With(f)'
<1>1. fate[j] = "queued" /\ j \in 1..Len(fate)
  BY DEF Report, Handed
<1>2. PICK f \in {"expired", "acknowledged"} : fate' = [fate EXCEPT ![j] = f]
  BY DEF Report
<1>3. f \in Fates
  BY DEF Fates
<1>4. /\ fate' \in Seq(Fates) /\ Len(fate') = Len(fate)
      /\ \A i \in 1..Len(fate) : fate'[i] = IF i = j THEN f ELSE fate[i]
  BY <1>1, <1>2, <1>3 DEF TypeInv, KafkaTypeOK
<1> QED BY <1>1, <1>4 DEF With, Handed

LEMMA ReportType ==
  ASSUME TypeInv, NEW j \in Handed, Report(j)
  PROVE  TypeInv'
<1>1. ThreadTypeOK' /\ NetworkTypeOK' /\ HistoryTypeOK'
  BY DEF TypeInv, ThreadTypeOK, NetworkTypeOK, HistoryTypeOK, Report, relay_vars, network_vars, history_vars
<1>2. KafkaTypeOK'
  BY ReportFates DEF TypeInv, KafkaTypeOK, Report, relay_vars, counter_vars, Handed
<1> QED BY <1>1, <1>2 DEF TypeInv

LEMMA PollType ==
  ASSUME TypeInv, Poll
  PROVE  TypeInv'
  BY DEF TypeInv, ThreadTypeOK, NetworkTypeOK, HistoryTypeOK, KafkaTypeOK, Poll, relay_vars,
     network_vars, history_vars, counter_vars, With, Handed

-----------------------------------------------------------------------------
(* The producer's queue. *)
LEMMA Positions ==
  ASSUME NEW n \in Nat, NEW S \in SUBSET (1..n)
  PROVE  IsFiniteSet(S) /\ Cardinality(S) \in Nat
<1>1. IsFiniteSet(1..n)
  BY FS_Interval
<1>2. IsFiniteSet(S)
  BY <1>1, FS_Subset
<1> QED BY <1>2, FS_CardinalityType

LEMMA QueueType ==
  ASSUME KafkaTypeOK
  PROVE  /\ \A f : IsFiniteSet(With(f)) /\ Cardinality(With(f)) \in Nat
         /\ IsFiniteSet(reports) /\ Cardinality(reports) \in Nat
         /\ Len(fate) \in Nat
<1>1. Len(fate) \in Nat
  BY DEF KafkaTypeOK
<1>2. \A f : With(f) \in SUBSET (1..Len(fate))
  BY DEF With, Handed
<1>3. reports \in SUBSET (1..Len(fate))
  BY <1>2 DEF KafkaTypeOK
<1> QED BY <1>1, <1>2, <1>3, Positions

(* One more message in the history: it has the fate f. *)
LEMMA SendFates ==
  ASSUME KafkaTypeOK, NEW f, fate' = Append(fate, f)
  PROVE  /\ Handed' = Handed \cup {Len(fate) + 1} /\ Len(fate) + 1 \notin Handed
         /\ \A g : With(g)' = IF g = f THEN With(g) \cup {Len(fate) + 1} ELSE With(g)
<1>1. /\ Len(fate') = Len(fate) + 1 /\ Len(fate) \in Nat
      /\ fate'[Len(fate) + 1] = f /\ \A j \in 1..Len(fate) : fate'[j] = fate[j]
  BY DEF KafkaTypeOK
<1>2. 1..Len(fate') = 1..Len(fate) \cup {Len(fate) + 1} /\ Len(fate) + 1 \notin 1..Len(fate)
  BY <1>1
<1> HIDE DEF KafkaTypeOK
<1>3. ASSUME NEW g PROVE With(g)' = IF g = f THEN With(g) \cup {Len(fate) + 1} ELSE With(g)
  BY <1>1, <1>2 DEF With, Handed
<1> QED BY <1>2, <1>3 DEF Handed

LEMMA EnqueueQueue ==
  ASSUME TypeInv, QueueOK, Enqueue
  PROVE  QueueOK'
<1>1. KafkaTypeOK /\ Occupied < QueueMax /\ fate' = Append(fate, "queued") /\ reports' = reports
  BY DEF TypeInv, Enqueue
<1>2. With("queued")' = With("queued") \cup {Len(fate) + 1} /\ Len(fate) + 1 \notin With("queued")
  BY <1>1, SendFates DEF With
<1>3. Cardinality(With("queued")') = Cardinality(With("queued")) + 1
  BY <1>1, <1>2, QueueType, FS_AddElement
<1>4. Occupied' = Occupied + 1 /\ Occupied \in Nat
  BY <1>1, <1>3, QueueType DEF Occupied
<1>5. status' # "stopped"
  BY DEF TypeInv, ThreadTypeOK, Enqueue, Deliver
<1> QED BY <1>1, <1>4, <1>5, StreamAssumption DEF QueueOK

LEMMA RefuseQueue ==
  ASSUME TypeInv, QueueOK, Refuse
  PROVE  QueueOK'
<1>1. KafkaTypeOK /\ fate' = Append(fate, "refused") /\ reports' = reports
  BY DEF TypeInv, Refuse
<1>2. With("queued")' = With("queued")
  BY <1>1, SendFates
<1>3. status' # "stopped"
  BY DEF TypeInv, ThreadTypeOK, Refuse, Deliver
<1> QED BY <1>1, <1>2, <1>3 DEF QueueOK, Occupied

LEMMA LoseProcessQueue ==
  ASSUME TypeInv, LoseProcess
  PROVE  QueueOK'
<1>1. With("queued")' = {} /\ reports' = {} /\ socket' = <<>>
  BY LoseProcessFates DEF LoseProcess
<1>2. Occupied' = 0
  BY <1>1, FS_EmptySet DEF Occupied
<1> QED BY <1>1, <1>2, StreamAssumption DEF QueueOK

LEMMA ReportQueue ==
  ASSUME TypeInv, QueueOK, NEW j \in Handed, Report(j)
  PROVE  QueueOK'
<1>1. KafkaTypeOK /\ j \in With("queued") /\ With("queued")' = With("queued") \ {j}
  BY ReportFates DEF TypeInv
<1>2. reports' = reports \cup {j} /\ j \notin reports
  BY <1>1 DEF KafkaTypeOK, With, Report
<1>3. Cardinality(With("queued")') = Cardinality(With("queued")) - 1
  BY <1>1, QueueType, FS_RemoveElement
<1>4. Cardinality(reports') = Cardinality(reports) + 1
  BY <1>1, <1>2, QueueType, FS_AddElement
<1>5. Occupied' = Occupied
  BY <1>1, <1>3, <1>4, QueueType DEF Occupied
<1> QED BY <1>5 DEF QueueOK, Report, relay_vars, network_vars

LEMMA PollQueue ==
  ASSUME TypeInv, QueueOK, Poll
  PROVE  QueueOK'
<1>1. KafkaTypeOK /\ With("queued")' = With("queued") /\ reports' = {}
  BY DEF TypeInv, Poll, With, Handed
<1>2. Occupied' = Cardinality(With("queued"))
  BY <1>1, FS_EmptySet, QueueType DEF Occupied
<1>3. /\ Cardinality(With("queued")) \in Nat /\ Cardinality(reports) \in Nat
      /\ Occupied = Cardinality(With("queued")) + Cardinality(reports)
  BY <1>1, QueueType DEF Occupied
<1>4. Occupied' <= Occupied /\ (Occupied = 0 => Occupied' = 0)
  BY <1>2, <1>3
<1>5. status' = status /\ socket' = socket
  BY DEF Poll, relay_vars, network_vars
<1> QED BY <1>2, <1>3, <1>4, <1>5, StreamAssumption DEF QueueOK

(* The steps that leave the messages of the producer alone. *)
LEMMA OtherQueue ==
  ASSUME QueueOK, UNCHANGED <<fate, reports>>,
         status' = "stopped" => status = "stopped" /\ socket' = socket
  PROVE  QueueOK'
  BY DEF QueueOK, Occupied, With, Handed

-----------------------------------------------------------------------------
(* Type correctness.                                                       *)
KafkaInv == TypeInv /\ QueueOK /\ InHandWasRead

LEMMA KafkaInvNext ==
  ASSUME KafkaInv, [Next]_vars
  PROVE  KafkaInv'
<1> USE DEF KafkaInv
<1>1. ASSUME NEW ds \in Streamed, Arrive(ds[1], ds[2]) PROVE KafkaInv'
  <2>1. QueueOK'
    BY <1>1, OtherQueue DEF Arrive, relay_vars, kafka_vars
  <2>2. InHandWasRead'
    BY <1>1 DEF InHandWasRead, Arrive, relay_vars, history_vars
  <2> QED BY <1>1, <2>1, <2>2, ArriveType
<1>2. CASE Receive
  <2>1. QueueOK'
    BY <1>2, OtherQueue DEF Receive, Take, kafka_vars
  <2>2. InHandWasRead'
    BY <1>2 DEF InHandWasRead, Receive, TypeInv, HistoryTypeOK
  <2> QED BY <1>2, <2>1, <2>2, ReceiveType
<1>3. CASE Enqueue
  <2>1. InHandWasRead'
    BY <1>3 DEF InHandWasRead, Enqueue, Deliver, history_vars
  <2> QED BY <1>3, <2>1, EnqueueType, EnqueueQueue
<1>4. CASE Refuse
  <2>1. InHandWasRead'
    BY <1>4 DEF InHandWasRead, Refuse, Deliver, history_vars
  <2> QED BY <1>4, <2>1, RefuseType, RefuseQueue
<1>5. CASE Return
  <2>1. QueueOK'
    BY <1>5, OtherQueue DEF Return, Finish, kafka_vars
  <2>2. TypeInv'
    BY <1>5 DEF TypeInv, ThreadTypeOK, NetworkTypeOK, HistoryTypeOK, KafkaTypeOK, Return, Finish,
       network_vars, history_vars, kafka_vars, counter_vars, With, Handed
  <2>3. InHandWasRead'
    BY <1>5 DEF InHandWasRead, Return, Finish
  <2> QED BY <2>1, <2>2, <2>3
<1>6. CASE Panic
  <2>1. InHandWasRead'
    BY <1>6 DEF InHandWasRead, Panic, Die
  <2> QED BY <1>6, <2>1, PanicType, LoseProcessQueue DEF Panic
<1>7. CASE Kill
  <2>1. InHandWasRead'
    BY <1>7 DEF InHandWasRead, Kill
  <2> QED BY <1>7, <2>1, KillType, LoseProcessQueue DEF Kill
<1>8. CASE Start
  <2>1. QueueOK'
    BY <1>8, OtherQueue DEF Start, kafka_vars
  <2>2. InHandWasRead'
    BY <1>8 DEF InHandWasRead, Start
  <2> QED BY <1>8, <2>1, <2>2, StartType
<1>9. ASSUME NEW j \in Handed, Write(j) PROVE KafkaInv'
  <2>1. QueueOK'
    BY <1>9, OtherQueue DEF Write, relay_vars, network_vars
  <2>2. InHandWasRead'
    BY <1>9 DEF InHandWasRead, Write, relay_vars, history_vars
  <2> QED BY <1>9, <2>1, <2>2, WriteType
<1>10. ASSUME NEW j \in Handed, Report(j) PROVE KafkaInv'
  <2>1. InHandWasRead'
    BY <1>10 DEF InHandWasRead, Report, relay_vars, history_vars
  <2> QED BY <1>10, <2>1, ReportType, ReportQueue
<1>11. CASE Poll
  <2>1. InHandWasRead'
    BY <1>11 DEF InHandWasRead, Poll, relay_vars, history_vars
  <2> QED BY <1>11, <2>1, PollType, PollQueue
<1>12. CASE UNCHANGED vars
  BY <1>12 DEF vars, relay_vars, network_vars, history_vars, kafka_vars, counter_vars, TypeInv,
     ThreadTypeOK, NetworkTypeOK, HistoryTypeOK, KafkaTypeOK, QueueOK, Occupied, InHandWasRead, With, Handed
<1> HIDE DEF KafkaInv
<1> QED BY <1>1, <1>2, <1>3, <1>4, <1>5, <1>6, <1>7, <1>8, <1>9, <1>10, <1>11, <1>12 DEF Next, Thread

LEMMA KafkaInvInit == Init => KafkaInv
<1> SUFFICES ASSUME Init PROVE KafkaInv
  OBVIOUS
<1>1. With("queued") = {} /\ reports = {} /\ status = "idle"
  BY DEF Init, RelayInit, With, Handed
<1>2. QueueOK
  BY <1>1, FS_EmptySet, StreamAssumption DEF QueueOK, Occupied
<1>3. InHandWasRead
  BY <1>1 DEF InHandWasRead
<1> QED BY <1>2, <1>3, ThreadTypeInit DEF KafkaInv

(* Whatever arrives, is refused, expires or dies: the types hold, the queue *)
(* is within its bound, and the datagram in hand is the last one read       *)
(* (udp_process, lib.rs:61-111).                                            *)
THEOREM KafkaInvariant == Spec => []KafkaInv
  BY KafkaInvInit, KafkaInvNext, PTL DEF Spec

(* The producer never holds more than it may and a process that is gone    *)
(* holds nothing, however many datagrams arrive and however often it dies  *)
(* (config.kafka_producer, lib.rs:48-58).                                  *)
THEOREM TypeCorrect == Spec => []TypeOK
<1>1. KafkaInv => TypeOK
  BY DEF KafkaInv, TypeInv, ThreadTypeOK, NetworkTypeOK, HistoryTypeOK, KafkaTypeOK, QueueOK, TypeOK
<1> QED BY <1>1, KafkaInvariant, PTL

-----------------------------------------------------------------------------
(* The counters.                                                           *)
(* One more call of send is one more of this run. *)
LEMMA SendThisRun ==
  ASSUME TypeInv, Deliver, run_start' = run_start
  PROVE  /\ ThisRun' = ThisRun \cup {Len(fate) + 1} /\ Len(fate) + 1 \notin ThisRun
         /\ IsFiniteSet(ThisRun)
<1>1. /\ Len(delivered) \in Nat /\ Len(delivered') = Len(delivered) + 1 /\ Len(fate) = Len(delivered)
      /\ run_start \in 0..Len(delivered)
  BY DEF TypeInv, ThreadTypeOK, HistoryTypeOK, KafkaTypeOK, Deliver
<1> DEFINE n == Len(delivered)
<1>2. ThisRun' = (run_start + 1)..(n + 1) /\ ThisRun = (run_start + 1)..n
  BY <1>1 DEF ThisRun
<1> HIDE DEF n
<1>3. n \in Nat /\ run_start \in 0..n /\ Len(fate) = n
  BY <1>1 DEF n
<1>4. \A x : x \in (run_start + 1)..(n + 1) <=> x \in (run_start + 1)..n \/ x = n + 1
  BY <1>3
<1>5. IsFiniteSet((run_start + 1)..n)
  BY <1>3, FS_Interval
<1> QED BY <1>2, <1>3, <1>4, <1>5

LEMMA EnqueueCounters ==
  ASSUME TypeInv, CountersTellFates, Enqueue
  PROVE  CountersTellFates'
<1> DEFINE n == Len(fate) + 1
           S == ThisRun \ With("refused")
<1>1. /\ KafkaTypeOK /\ fate' = Append(fate, "queued") /\ topic' = topic /\ Deliver
      /\ run_start' = run_start /\ produce_errors' = produce_errors
      /\ outgoing_messages' = outgoing_messages + 1
  BY DEF TypeInv, Enqueue, history_vars
<1>2. With("refused")' = With("refused") /\ n \notin With("refused")
  <2>1. With("refused")' = With("refused") /\ n \notin Handed
    BY <1>1, SendFates
  <2> QED BY <2>1 DEF With
<1>3. ThisRun' = ThisRun \cup {n} /\ n \notin ThisRun /\ IsFiniteSet(ThisRun)
  BY <1>1, SendThisRun
<1>4. IsFiniteSet(S) /\ n \notin S
  BY <1>3, FS_Subset
<1>5. (ThisRun \ With("refused"))' = S \cup {n} /\ (ThisRun \cap With("refused"))' = ThisRun \cap With("refused")
  BY <1>2, <1>3
<1> HIDE DEF n
<1>6. Cardinality(S \cup {n}) = Cardinality(S) + 1
  BY <1>4, FS_AddElement
<1> QED BY <1>1, <1>2, <1>5, <1>6 DEF CountersTellFates

LEMMA RefuseCounters ==
  ASSUME TypeInv, CountersTellFates, Refuse
  PROVE  CountersTellFates'
<1> DEFINE n == Len(fate) + 1
           S == ThisRun \cap With("refused")
<1>1. /\ KafkaTypeOK /\ fate' = Append(fate, "refused") /\ topic' = topic /\ Deliver
      /\ run_start' = run_start /\ produce_errors' = produce_errors + 1
      /\ outgoing_messages' = outgoing_messages
  BY DEF TypeInv, Refuse, history_vars
<1>2. With("refused")' = With("refused") \cup {n} /\ n \notin Handed
  BY <1>1, SendFates
<1>3. ThisRun' = ThisRun \cup {n} /\ n \notin ThisRun /\ IsFiniteSet(ThisRun)
  BY <1>1, SendThisRun
<1>4. IsFiniteSet(S) /\ n \notin S
  BY <1>3, FS_Subset
<1>5. (ThisRun \cap With("refused"))' = S \cup {n} /\ (ThisRun \ With("refused"))' = ThisRun \ With("refused")
  BY <1>2, <1>3
<1>6. n \notin topic
  BY <1>1, <1>2 DEF KafkaTypeOK
<1> HIDE DEF n
<1>7. Cardinality(S \cup {n}) = Cardinality(S) + 1
  BY <1>4, FS_AddElement
<1> QED BY <1>1, <1>2, <1>5, <1>6, <1>7 DEF CountersTellFates

LEMMA StartCounters ==
  ASSUME TypeInv, CountersTellFates, Start
  PROVE  CountersTellFates'
<1>1. Len(delivered) \in Nat /\ run_start' = Len(delivered) /\ delivered' = delivered
  BY DEF TypeInv, ThreadTypeOK, Start
<1>2. ThisRun' = {}
  BY <1>1 DEF ThisRun
<1>3. With("refused")' = With("refused") /\ topic' = topic /\ produce_errors' = 0 /\ outgoing_messages' = 0
  BY DEF Start, kafka_vars, With, Handed
<1> QED BY <1>2, <1>3, FS_EmptySet DEF CountersTellFates

(* The steps that call no send and start no process. *)
LEMMA OtherCounters ==
  ASSUME CountersTellFates, With("refused")' = With("refused"),
         UNCHANGED <<delivered, run_start, counter_vars>>,
         topic' \cap With("refused") = {}
  PROVE  CountersTellFates'
  BY DEF CountersTellFates, ThisRun, counter_vars

(* What the two counters mean, over any number of refusals, expiries,      *)
(* crashes and restarts (lib.rs:89-95).                                    *)
THEOREM CountersAreRight == Spec => []CountersTellFates
<1>1. Init => CountersTellFates
  <2> SUFFICES ASSUME Init PROVE CountersTellFates
    OBVIOUS
  <2>1. ThisRun = {} /\ topic = {} /\ produce_errors = 0 /\ outgoing_messages = 0
    BY DEF Init, RelayInit, ThisRun
  <2> QED BY <2>1, FS_EmptySet DEF CountersTellFates
<1>2. ASSUME KafkaInv, CountersTellFates, [Next]_vars PROVE CountersTellFates'
  <2>0. TypeInv /\ topic \cap With("refused") = {}
    BY <1>2 DEF KafkaInv, CountersTellFates
  <2> USE <1>2, <2>0
  <2>1. ASSUME NEW ds \in Streamed, Arrive(ds[1], ds[2]) PROVE CountersTellFates'
    BY <2>1, OtherCounters DEF Arrive, relay_vars, history_vars, kafka_vars, With, Handed
  <2>2. CASE Receive
    BY <2>2, OtherCounters DEF Receive, Take, kafka_vars, With, Handed
  <2>3. CASE Enqueue
    BY <2>3, EnqueueCounters
  <2>4. CASE Refuse
    BY <2>4, RefuseCounters
  <2>5. CASE Return
    BY <2>5, OtherCounters DEF Return, Finish, history_vars, kafka_vars, With, Handed
  <2>6. CASE Panic
    <3>1. With("refused")' = With("refused")
      BY <2>6, LoseProcessFates DEF Panic
    <3> QED BY <2>6, <3>1, OtherCounters DEF Panic, Die, history_vars
  <2>7. CASE Kill
    <3>1. With("refused")' = With("refused")
      BY <2>7, LoseProcessFates DEF Kill
    <3> QED BY <2>7, <3>1, OtherCounters DEF Kill
  <2>8. CASE Start
    BY <2>8, StartCounters
  <2>9. ASSUME NEW j \in Handed, Write(j) PROVE CountersTellFates'
    <3>1. With("refused")' = With("refused")
      BY <2>9 DEF Write, With, Handed
    <3>2. topic' \cap With("refused") = {}
      BY <2>9 DEF Write, With
    <3> QED BY <2>9, <3>1, <3>2, OtherCounters DEF Write, relay_vars, history_vars
  <2>10. ASSUME NEW j \in Handed, Report(j) PROVE CountersTellFates'
    <3>1. With("refused")' = With("refused")
      BY <2>10, ReportFates
    <3> QED BY <2>10, <3>1, OtherCounters DEF Report, relay_vars, history_vars
  <2>11. CASE Poll
    BY <2>11, OtherCounters DEF Poll, relay_vars, history_vars, With, Handed
  <2>12. CASE UNCHANGED vars
    BY <2>12, OtherCounters DEF vars, relay_vars, history_vars, kafka_vars, With, Handed
  <2> QED BY <2>1, <2>2, <2>3, <2>4, <2>5, <2>6, <2>7, <2>8, <2>9, <2>10, <2>11, <2>12 DEF Next, Thread
<1> QED BY <1>1, <1>2, KafkaInvariant, PTL DEF Spec

-----------------------------------------------------------------------------
(* Every message comes from a header that was streamed. *)
StreamMessages == UNION {MessagesFrom(Cut(ds[1]), ds[2]) : ds \in Streamed}

StreamInv ==
  /\ \A n \in 1..Len(arrived) : <<arrived[n].datagram, arrived[n].src>> \in Streamed
  /\ owed \in Seq(StreamMessages) /\ delivered \in Seq(StreamMessages)

LEMMA OwedIsStreamed ==
  ASSUME NEW d, NEW s, <<d, s>> \in Streamed
  PROVE  Owed(Cut(d), s) \in Seq(StreamMessages)
<1>1. d \in Datagrams /\ s \in Sources
  BY StreamAssumption
<1>2. Cut(d) \in Seq(Headers)
  BY <1>1, CutType
<1>3. MessagesFrom(Cut(d), s) \subseteq StreamMessages
  <2> DEFINE ds == <<d, s>>
  <2>1. ds \in Streamed /\ ds[1] = d /\ ds[2] = s
    OBVIOUS
  <2> HIDE DEF ds
  <2> QED BY <2>1 DEF StreamMessages
<1> QED BY <1>2, <1>3, OwedType, SeqMonotonic

(* A period is some header's of the control board, for its own pulse. *)
LEMMA PeriodIsTheControlBoards ==
  ASSUME NEW m \in StreamMessages, m.kind = "pu00", m.period_number # Absent
  PROVE  \E ds \in Streamed : \E i \in 1..Len(ds[1]) :
           /\ ds[2] = ControlBoard /\ Timed(ds[1][i])
           /\ m.reference_time = ds[1][i].pulse_time
           /\ m.period_number = ds[1][i].period_number
<1>1. PICK ds \in Streamed : m \in MessagesFrom(Cut(ds[1]), ds[2])
  BY DEF StreamMessages
<1> DEFINE c == Cut(ds[1])
<1> HIDE DEF c
<1>2. PICK i \in 1..Len(c) : Timed(c[i]) /\ m \in {Pu00(c[i], ds[2]), Ev44(c[i])}
  BY <1>1 DEF MessagesFrom, c
<1>3. ds[1] \in Datagrams
  BY StreamAssumption
<1>4. i \in 1..Len(ds[1]) /\ c[i] = ds[1][i]
  BY <1>3, CutType DEF c
<1>5. m = Pu00(c[i], ds[2])
  BY <1>2 DEF Ev44
<1>6. m.reference_time = c[i].pulse_time /\ ds[2] = ControlBoard /\ m.period_number = c[i].period_number
  BY <1>5 DEF Pu00
<1> QED BY <1>2, <1>4, <1>6

LEMMA StreamInvInit == Init => StreamInv
  BY DEF Init, RelayInit, StreamInv

LEMMA DeliverStreamInv ==
  ASSUME StreamInv, Deliver, arrived' = arrived
  PROVE  StreamInv'
<1> DEFINE S == StreamMessages
<1>1. owed \in Seq(S) /\ delivered \in Seq(S) /\ owed # <<>>
      /\ delivered' = Append(delivered, Head(owed)) /\ owed' = Tail(owed)
  BY DEF StreamInv, Deliver
<1> HIDE DEF S
<1>2. owed' \in Seq(S) /\ delivered' \in Seq(S)
  BY <1>1, HeadTailProperties, AppendProperties
<1> QED BY <1>2 DEF StreamInv, S

LEMMA StreamInvNext ==
  ASSUME TypeInv, StreamInv, [Next]_vars
  PROVE  StreamInv'
<1>1. ASSUME NEW ds \in Streamed, Arrive(ds[1], ds[2]) PROVE StreamInv'
  <2>1. ds = <<ds[1], ds[2]>> /\ ds[1] \in Datagrams /\ ds[2] \in Sources
    BY StreamAssumption
  <2> DEFINE a == [datagram |-> ds[1], src |-> ds[2]]
  <2>2. /\ Len(arrived') = Len(arrived) + 1 /\ Len(arrived) \in Nat
        /\ arrived'[Len(arrived) + 1] = a /\ \A n \in 1..Len(arrived) : arrived'[n] = arrived[n]
    <3>1. arrived \in Seq([datagram : Datagrams, src : Sources]) /\ arrived' = Append(arrived, a)
      BY <1>1 DEF TypeInv, NetworkTypeOK, Arrive
    <3> HIDE DEF a
    <3> QED BY <3>1
  <2>3. a.datagram = ds[1] /\ a.src = ds[2]
    OBVIOUS
  <2> HIDE DEF a
  <2>4. \A n \in 1..Len(arrived') : <<arrived'[n].datagram, arrived'[n].src>> \in Streamed
    BY <2>1, <2>2, <2>3 DEF StreamInv
  <2> QED BY <1>1, <2>4 DEF StreamInv, Arrive, relay_vars
<1>2. CASE Receive
  <2> DEFINE n == Head(socket)
  <2>1. n \in 1..Len(arrived)
    <3> DEFINE N == 1..Len(arrived)
    <3>1. socket \in Seq(N) /\ socket # <<>>
      BY <1>2 DEF TypeInv, NetworkTypeOK, Receive
    <3> HIDE DEF N
    <3> QED BY <3>1, HeadTailProperties DEF N
  <2>2. <<arrived[n].datagram, arrived[n].src>> \in Streamed
    BY <2>1 DEF StreamInv
  <2>3. owed' \in Seq(StreamMessages)
    BY <1>2, <2>2, OwedIsStreamed DEF Receive, Take
  <2> QED BY <1>2, <2>3 DEF StreamInv, Receive, Take
<1>3. CASE Enqueue \/ Refuse
  BY <1>3, DeliverStreamInv DEF Enqueue, Refuse, network_vars
<1>4. CASE Return \/ Panic \/ Start \/ Poll \/ \E j \in Handed : Write(j) \/ Report(j)
  BY <1>4 DEF StreamInv, Return, Finish, Panic, Die, Start, Poll, Write, Report, relay_vars, network_vars
<1>5. CASE Kill
  BY <1>5 DEF StreamInv, Kill
<1>6. CASE UNCHANGED vars
  BY <1>6 DEF StreamInv, vars, relay_vars, network_vars
<1> QED BY <1>1, <1>2, <1>3, <1>4, <1>5, <1>6 DEF Next, Thread

(* No pulse is seen in two periods, whatever the boards other than the     *)
(* control board declare (data_processing.rs:131-152).                     *)
THEOREM PulsesHaveOnePeriod == Spec => []OnePeriodPerPulse
<1>1. KafkaInv /\ StreamInv => OnePeriodPerPulse
  <2> SUFFICES ASSUME KafkaInv, StreamInv, NEW i \in topic, NEW j \in topic,
                      delivered[i].kind = "pu00", delivered[j].kind = "pu00",
                      delivered[i].reference_time = delivered[j].reference_time,
                      delivered[i].period_number # Absent, delivered[j].period_number # Absent
               PROVE  delivered[i].period_number = delivered[j].period_number
    BY DEF OnePeriodPerPulse
  <2>1. i \in 1..Len(delivered) /\ j \in 1..Len(delivered)
    BY DEF KafkaInv, TypeInv, KafkaTypeOK, Handed
  <2>2. delivered[i] \in StreamMessages /\ delivered[j] \in StreamMessages
    BY <2>1, ElementOfSeq DEF StreamInv
  <2>3. PICK ds \in Streamed : \E k \in 1..Len(ds[1]) :
          /\ ds[2] = ControlBoard /\ Timed(ds[1][k])
          /\ delivered[i].reference_time = ds[1][k].pulse_time
          /\ delivered[i].period_number = ds[1][k].period_number
    BY <2>2, PeriodIsTheControlBoards
  <2>4. PICK es \in Streamed : \E k \in 1..Len(es[1]) :
          /\ es[2] = ControlBoard /\ Timed(es[1][k])
          /\ delivered[j].reference_time = es[1][k].pulse_time
          /\ delivered[j].period_number = es[1][k].period_number
    BY <2>2, PeriodIsTheControlBoards
  <2> QED BY <2>3, <2>4, ControlBoardAssumption
<1>2. KafkaInv => TypeInv
  BY DEF KafkaInv
<1> QED BY <1>1, <1>2, StreamInvInit, StreamInvNext, KafkaInvariant, PTL DEF Spec

-----------------------------------------------------------------------------
(* Sequences of which one grows by what the other loses. *)
LEMMA SubSeqOfAppend ==
  ASSUME NEW S, NEW s \in Seq(S), NEW e \in S, NEW a \in Nat \ {0}, NEW b \in 0..Len(s)
  PROVE  SubSeq(Append(s, e), a, b) = SubSeq(s, a, b)
<1> DEFINE t == Append(s, e)
<1>1. /\ Len(s) \in Nat /\ \A i \in 1..Len(s) : t[i] = s[i] /\ s[i] \in S
      /\ \A i \in a..b : i \in 1..Len(s)
  BY AppendProperties, ElementOfSeq
<1>2. \A i \in a..b : t[i] = s[i] /\ s[i] \in S
  BY <1>1
<1> HIDE DEF t
<1>3. \A i \in a..b : t[i] \in S
  BY <1>2
<1>4. /\ SubSeq(s, a, b) \in Seq(S) /\ SubSeq(t, a, b) \in Seq(S)
      /\ Len(SubSeq(s, a, b)) = Len(SubSeq(t, a, b))
      /\ Len(SubSeq(s, a, b)) = IF a <= b THEN b - a + 1 ELSE 0
      /\ \A i \in 1..(b - a + 1) : SubSeq(s, a, b)[i] = s[a + i - 1] /\ SubSeq(t, a, b)[i] = t[a + i - 1]
  BY <1>2, <1>3, SubSeqProperties
<1>5. \A i \in 1..Len(SubSeq(s, a, b)) : i \in 1..(b - a + 1) /\ a + i - 1 \in a..b
  BY <1>4
<1>6. \A i \in 1..Len(SubSeq(s, a, b)) : SubSeq(s, a, b)[i] = SubSeq(t, a, b)[i]
  BY <1>2, <1>4, <1>5
<1>7. SubSeq(t, a, b) = SubSeq(s, a, b)
  BY <1>4, <1>6, SeqEqual
<1> QED BY <1>7 DEF t

LEMMA EndOfAppend ==
  ASSUME NEW S, NEW s \in Seq(S), NEW e \in S, NEW f \in 0..Len(s)
  PROVE  SubSeq(Append(s, e), f + 1, Len(s) + 1) = Append(SubSeq(s, f + 1, Len(s)), e)
<1> DEFINE t == Append(s, e)
           n == Len(s) + 1
<1>1. t \in Seq(S) /\ Len(t) = n /\ t[n] = e /\ n \in Nat /\ f + 1 \in 1..Len(t) /\ n \in (f + 1)..Len(t)
  BY AppendProperties
<1>2. SubSeq(t, f + 1, n) = SubSeq(t, f + 1, n - 1) \o <<e>>
  <2> HIDE DEF t, n
  <2> QED BY <1>1, SubSeqRecursiveSecond
<1>3. n - 1 = Len(s) /\ SubSeq(t, f + 1, Len(s)) = SubSeq(s, f + 1, Len(s))
  BY SubSeqOfAppend
<1>4. SubSeq(s, f + 1, Len(s)) \in Seq(S)
  <2>1. \A i \in (f + 1)..Len(s) : s[i] \in S
    BY ElementOfSeq
  <2> QED BY <2>1, SubSeqProperties
<1>5. Append(SubSeq(s, f + 1, Len(s)), e) = SubSeq(s, f + 1, Len(s)) \o <<e>>
  BY <1>4, AppendIsConcat
<1> HIDE DEF t
<1> QED BY <1>2, <1>3, <1>5 DEF t

LEMMA MoveHead ==
  ASSUME NEW S, NEW a \in Seq(S), NEW o \in Seq(S), o # <<>>
  PROVE  Append(a, Head(o)) \o Tail(o) = a \o o
<1> DEFINE x == Append(a, Head(o)) \o Tail(o)
           y == a \o o
<1>1. /\ Head(o) \in S /\ Tail(o) \in Seq(S) /\ Len(Tail(o)) = Len(o) - 1 /\ Len(o) \in Nat \ {0}
      /\ Head(o) = o[1] /\ \A i \in 1..Len(Tail(o)) : Tail(o)[i] = o[i + 1]
  BY HeadTailProperties
<1>2. /\ Append(a, Head(o)) \in Seq(S) /\ Len(Append(a, Head(o))) = Len(a) + 1 /\ Len(a) \in Nat
      /\ Append(a, Head(o))[Len(a) + 1] = o[1]
      /\ \A i \in 1..Len(a) : Append(a, Head(o))[i] = a[i]
  BY <1>1, AppendProperties
<1> DEFINE b == Append(a, Head(o))
           u == Tail(o)
<1>2a. Len(u) = Len(o) - 1 /\ \A i \in 1..Len(u) : u[i] = o[i + 1]
  BY <1>1
<1> HIDE DEF b, u
<1>3. /\ b \o u \in Seq(S) /\ Len(b \o u) = Len(a) + Len(o)
      /\ \A i \in 1..(Len(a) + Len(o)) : (b \o u)[i] = IF i <= Len(a) + 1 THEN b[i] ELSE u[i - (Len(a) + 1)]
  BY <1>1, <1>2, ConcatProperties DEF b, u
<1>4. /\ a \o o \in Seq(S) /\ Len(a \o o) = Len(a) + Len(o)
      /\ \A i \in 1..(Len(a) + Len(o)) : (a \o o)[i] = IF i <= Len(a) THEN a[i] ELSE o[i - Len(a)]
  BY ConcatProperties
<1>5. ASSUME NEW i \in 1..(Len(a) + Len(o)) PROVE (b \o u)[i] = (a \o o)[i]
  <2>1. CASE i <= Len(a)
    BY <2>1, <1>1, <1>2, <1>3, <1>4 DEF b
  <2>2. CASE i = Len(a) + 1
    BY <2>2, <1>1, <1>2, <1>3, <1>4 DEF b
  <2>3. CASE i > Len(a) + 1
    <3>1. i - (Len(a) + 1) \in 1..Len(u) /\ i - (Len(a) + 1) + 1 = i - Len(a)
      BY <2>3, <1>1, <1>2, <1>2a
    <3>2. (b \o u)[i] = u[i - (Len(a) + 1)] /\ (a \o o)[i] = o[i - Len(a)]
      BY <2>3, <1>1, <1>2, <1>3, <1>4
    <3> QED BY <3>1, <3>2, <1>2a
  <2>4. i <= Len(a) \/ i = Len(a) + 1 \/ i > Len(a) + 1
    BY <1>1, <1>2
  <2> QED BY <2>1, <2>2, <2>3, <2>4
<1>6. b \o u = a \o o
  BY <1>3, <1>4, <1>5, SeqEqual
<1> QED BY <1>6 DEF b, u

-----------------------------------------------------------------------------
(* What holds of the k-th datagram read. *)
Served(k) ==
  IF k \in interrupted THEN SubSeq(OwedBy(k), 1, Len(HandedFor(k))) = HandedFor(k)
  ELSE IF k = Len(read) THEN HandedFor(k) \o owed = OwedBy(k)
  ELSE HandedFor(k) = OwedBy(k)

ServedInv ==
  /\ \A k \in 1..Len(read) : Served(k)
  /\ status \in {"busy", "doomed"} => Len(read) \notin interrupted

LEMMA ReadType ==
  ASSUME TypeInv, NEW k \in 1..Len(read)
  PROVE  /\ read[k].arrival \in 1..Len(arrived) /\ read[k].first \in 0..Len(delivered)
         /\ Len(read) \in Nat
         /\ k # Len(read) => k + 1 \in 1..Len(read)
<1> DEFINE R == [arrival : 1..Len(arrived), first : 0..Len(delivered)]
<1>1. read \in Seq(R) /\ Len(read) \in Nat
  BY DEF TypeInv, HistoryTypeOK
<1>2. read[k] \in R
  <2> HIDE DEF R
  <2> QED BY <1>1, ElementOfSeq
<1> QED BY <1>1, <1>2

LEMMA HandedType ==
  ASSUME TypeInv, NEW k \in 1..Len(read)
  PROVE  HandedFor(k) \in Seq(Messages)
<1> DEFINE last == IF k = Len(read) THEN Len(delivered) ELSE read[k + 1].first
<1>1. delivered \in Seq(Messages) /\ Len(delivered) \in Nat
  BY DEF TypeInv, ThreadTypeOK
<1>2. read[k].first + 1 \in Int /\ read[k].first >= 0 /\ last \in Int /\ last <= Len(delivered)
  BY <1>1, ReadType
<1>3. \A i \in (read[k].first + 1)..last : delivered[i] \in Messages
  BY <1>1, <1>2, ReadType, ElementOfSeq
<1> HIDE DEF last
<1>4. SubSeq(delivered, read[k].first + 1, last) \in Seq(Messages)
  BY <1>2, <1>3, SubSeqProperties
<1> QED BY <1>4 DEF HandedFor, last

(* The steps that read no datagram, call no send and interrupt nothing. *)
LEMMA OtherServed ==
  ASSUME TypeInv, ServedInv, UNCHANGED <<owed, delivered, read, interrupted>>,
         \A n \in 1..Len(arrived) : arrived'[n] = arrived[n],
         status' \in {"busy", "doomed"} => status \in {"busy", "doomed"}
  PROVE  ServedInv'
<1>1. ASSUME NEW k \in 1..Len(read) PROVE Served(k)'
  <2>1. OwedBy(k)' = OwedBy(k)
    BY ReadType DEF OwedBy
  <2>2. HandedFor(k)' = HandedFor(k)
    BY DEF HandedFor
  <2> QED BY <2>1, <2>2 DEF ServedInv, Served
<1> QED BY <1>1 DEF ServedInv

LEMMA ReceiveServed ==
  ASSUME TypeInv, ServedInv, Receive
  PROVE  ServedInv'
<1> DEFINE n == Len(read)
           r == [arrival |-> Head(socket), first |-> Len(delivered)]
<1>1. /\ n \in Nat /\ Len(read') = n + 1 /\ read'[n + 1] = r /\ \A k \in 1..n : read'[k] = read[k]
      /\ interrupted \subseteq 1..n
  <2>1. read \in Seq([arrival : 1..Len(arrived), first : 0..Len(delivered)]) /\ read' = Append(read, r)
    BY DEF TypeInv, HistoryTypeOK, Receive
  <2> HIDE DEF r
  <2>2. interrupted \subseteq 1..n
    BY DEF TypeInv, HistoryTypeOK
  <2> QED BY <2>1, <2>2
<1>2. delivered' = delivered /\ arrived' = arrived /\ interrupted' = interrupted
  BY DEF Receive, Take
<1>3. owed = <<>> /\ delivered \in Seq(Messages) /\ Len(delivered) \in Nat
  BY DEF TypeInv, ThreadTypeOK, Receive, Take
<1>4. r.first = Len(delivered) /\ r.arrival = Head(socket)
  OBVIOUS
<1> HIDE DEF r, n
<1>5. ASSUME NEW k \in 1..n PROVE Served(k)'
  <2>1. OwedBy(k)' = OwedBy(k)
    BY <1>1, <1>2, <1>5 DEF OwedBy
  <2>2. HandedFor(k)' = HandedFor(k)
    <3>1. CASE k = n
      BY <1>1, <1>2, <1>4, <3>1 DEF HandedFor, n
    <3>2. CASE k # n
      <4>1. k # n + 1 /\ k + 1 # n + 1 /\ k + 1 \in 1..n
        BY <1>1, <3>2
      <4> QED BY <1>1, <1>2, <4>1, <3>2 DEF HandedFor, n
    <3> QED BY <3>1, <3>2
  <2>3. k = n => HandedFor(k) \o owed = HandedFor(k)
    BY <1>3, HandedType, ConcatEmptySeq DEF n
  <2>4. k # Len(read')
    BY <1>1
  <2> QED BY <1>2, <2>1, <2>2, <2>3, <2>4 DEF ServedInv, Served, n
<1>6. ASSUME NEW k, k = n + 1 PROVE Served(k)'
  <2>1. k \notin interrupted' /\ k = Len(read') /\ read'[k].first = Len(delivered) /\ read'[k].arrival = Head(socket)
    BY <1>1, <1>2, <1>4, <1>6
  <2>2. HandedFor(k)' = <<>>
    <3>1. HandedFor(k)' = SubSeq(delivered, Len(delivered) + 1, Len(delivered))
      BY <1>2, <2>1 DEF HandedFor
    <3> QED BY <3>1, <1>3, SubSeqEmpty
  <2>3. OwedBy(k)' = owed'
    BY <1>2, <2>1 DEF OwedBy, Receive, Take
  <2>4. owed' \in Seq(Messages)
    BY ReceiveType DEF TypeInv, ThreadTypeOK
  <2>5. <<>> \o owed' = owed'
    BY <2>4, ConcatEmptySeq
  <2> QED BY <2>1, <2>2, <2>3, <2>5 DEF Served
<1>7. 1..Len(read') = 1..n \cup {n + 1} /\ Len(read') \notin interrupted'
  BY <1>1, <1>2
<1> QED BY <1>5, <1>6, <1>7 DEF ServedInv

LEMMA DeliverServed ==
  ASSUME TypeInv, InHandWasRead, ServedInv, Deliver, UNCHANGED <<arrived, read, interrupted>>
  PROVE  ServedInv'
<1> DEFINE n == Len(read)
           e == Head(owed)
<1>1. /\ status \in {"busy", "doomed"} /\ status' = status
      /\ owed \in Seq(Messages) /\ owed # <<>> /\ delivered \in Seq(Messages)
      /\ delivered' = Append(delivered, e) /\ owed' = Tail(owed)
  BY DEF TypeInv, ThreadTypeOK, Deliver
<1>2. n \in 1..n /\ n \notin interrupted
  BY <1>1 DEF InHandWasRead, ServedInv
<1>3. e \in Messages
  BY <1>1, HeadTailProperties
<1> HIDE DEF e
<1>4. Len(delivered') = Len(delivered) + 1
  BY <1>1, <1>3, AppendProperties
<1>5. ASSUME NEW k \in 1..n PROVE OwedBy(k)' = OwedBy(k)
  BY DEF OwedBy
<1>6. ASSUME NEW k \in 1..n, k # n PROVE HandedFor(k)' = HandedFor(k)
  <2>1. k + 1 \in 1..n /\ read[k].first + 1 \in Nat \ {0} /\ read[k + 1].first \in 0..Len(delivered)
    BY <1>6, ReadType
  <2>2. SubSeq(delivered', read[k].first + 1, read[k + 1].first)
          = SubSeq(delivered, read[k].first + 1, read[k + 1].first)
    BY <1>1, <1>3, <2>1, SubSeqOfAppend
  <2> QED BY <1>6, <2>2 DEF HandedFor
<1>7. HandedFor(n)' = Append(HandedFor(n), e)
  <2>1. read[n].first \in 0..Len(delivered)
    BY <1>2, ReadType
  <2>2. SubSeq(delivered', read[n].first + 1, Len(delivered'))
          = Append(SubSeq(delivered, read[n].first + 1, Len(delivered)), e)
    BY <1>1, <1>3, <1>4, <2>1, EndOfAppend
  <2> QED BY <2>2 DEF HandedFor
<1>8. HandedFor(n)' \o owed' = HandedFor(n) \o owed
  <2>1. HandedFor(n) \in Seq(Messages)
    BY <1>2, HandedType
  <2> QED BY <1>1, <1>7, <2>1, MoveHead DEF e
<1>9. ASSUME NEW k \in 1..n PROVE Served(k)'
  <2>1. CASE k = n
    BY <2>1, <1>2, <1>5, <1>8 DEF ServedInv, Served
  <2>2. CASE k # n
    BY <2>2, <1>5, <1>6 DEF ServedInv, Served
  <2> QED BY <2>1, <2>2
<1> QED BY <1>1, <1>2, <1>9 DEF ServedInv

LEMMA KillServed ==
  ASSUME TypeInv, ServedInv, Kill
  PROVE  ServedInv'
<1>1. /\ UNCHANGED <<arrived, read, delivered>> /\ owed' = <<>> /\ status' = "stopped"
      /\ interrupted' = interrupted \cup (IF status = "idle" THEN {} ELSE {Len(read)})
      /\ status # "stopped" /\ owed \in Seq(Messages)
      /\ status = "idle" => owed = <<>>
  BY DEF Kill, TypeInv, ThreadTypeOK
<1>2. ASSUME NEW k \in 1..Len(read) PROVE Served(k)'
  <2>1. OwedBy(k)' = OwedBy(k) /\ HandedFor(k)' = HandedFor(k)
    BY <1>1 DEF OwedBy, HandedFor
  <2>2. Served(k)
    BY DEF ServedInv
  <2>3. CASE k \in interrupted \/ k # Len(read) \/ status = "idle"
    BY <1>1, <2>1, <2>2, <2>3 DEF Served
  <2>4. CASE k \notin interrupted /\ k = Len(read) /\ status # "idle"
    <3>1. HandedFor(k) \o owed = OwedBy(k) /\ k \in interrupted'
      BY <1>1, <2>2, <2>4 DEF Served
    <3>2. HandedFor(k) \in Seq(Messages)
      BY HandedType
    <3>3. SubSeq(HandedFor(k) \o owed, 1, Len(HandedFor(k))) = HandedFor(k)
      <4>1. Len(HandedFor(k)) \in Nat
        BY <3>2
      <4>2. CASE Len(HandedFor(k)) = 0
        <5>1. HandedFor(k) = <<>>
          BY <3>2, <4>2, EmptySeq
        <5> QED BY <4>2, <5>1, SubSeqEmpty
      <4>3. CASE Len(HandedFor(k)) # 0
        <5>1. 1 \in 1..Len(HandedFor(k)) /\ Len(HandedFor(k)) \in 1..Len(HandedFor(k))
          BY <4>1, <4>3
        <5>2. SubSeq(HandedFor(k) \o owed, 1, Len(HandedFor(k))) = SubSeq(HandedFor(k), 1, Len(HandedFor(k)))
          BY <1>1, <3>2, <5>1, SubSeqOfConcat1
        <5> QED BY <3>2, <5>2, SubSeqFull
      <4> QED BY <4>2, <4>3
    <3> QED BY <2>1, <3>1, <3>3 DEF Served
  <2> QED BY <2>3, <2>4
<1> QED BY <1>1, <1>2 DEF ServedInv

LEMMA ServedInvInit == Init => ServedInv
  BY DEF Init, RelayInit, ServedInv

LEMMA ServedInvNext ==
  ASSUME KafkaInv, ServedInv, [Next]_vars
  PROVE  ServedInv'
<1>1. TypeInv /\ InHandWasRead
  BY DEF KafkaInv
<1>2. ASSUME NEW ds \in Streamed, Arrive(ds[1], ds[2]) PROVE ServedInv'
  <2> DEFINE a == [datagram |-> ds[1], src |-> ds[2]]
  <2>1. \A n \in 1..Len(arrived) : arrived'[n] = arrived[n]
    <3>1. arrived \in Seq([datagram : Datagrams, src : Sources]) /\ arrived' = Append(arrived, a)
      BY <1>1, <1>2 DEF TypeInv, NetworkTypeOK, Arrive
    <3> HIDE DEF a
    <3> QED BY <3>1
  <2> QED BY <1>1, <1>2, <2>1, OtherServed DEF Arrive, relay_vars, history_vars
<1>3. CASE Receive
  BY <1>1, <1>3, ReceiveServed
<1>4. CASE Enqueue \/ Refuse
  BY <1>1, <1>4, DeliverServed DEF Enqueue, Refuse, network_vars, history_vars
<1>5. CASE Return
  BY <1>1, <1>5, OtherServed DEF Return, Finish, network_vars, history_vars
<1>6. CASE Panic
  BY <1>1, <1>6, OtherServed DEF Panic, Die, history_vars
<1>7. CASE Kill
  BY <1>1, <1>7, KillServed
<1>8. CASE Start
  BY <1>1, <1>8, OtherServed DEF Start, network_vars
<1>9. CASE Poll \/ \E j \in Handed : Write(j) \/ Report(j)
  BY <1>1, <1>9, OtherServed DEF Poll, Write, Report, relay_vars, network_vars, history_vars
<1>10. CASE UNCHANGED vars
  BY <1>1, <1>10, OtherServed DEF vars, relay_vars, network_vars, history_vars
<1> QED BY <1>2, <1>3, <1>4, <1>5, <1>6, <1>7, <1>8, <1>9, <1>10 DEF Next, Thread

(* Every datagram that is read has its messages handed to send once each   *)
(* and in order, over refusals, crashes and restarts; only a kill leaves   *)
(* out the last ones of the datagram in hand (lib.rs:77-105).              *)
THEOREM EveryMessageIsHandedOnce == Spec => []NothingSkippedOrRepeated
<1>1. ServedInv => NothingSkippedOrRepeated
  BY DEF ServedInv, Served, NothingSkippedOrRepeated
<1> QED BY <1>1, ServedInvInit, ServedInvNext, KafkaInvariant, PTL DEF Spec
=============================================================================
