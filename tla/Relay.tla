------------------------------- MODULE Relay --------------------------------
(***************************************************************************)
(* What the process promises, without its buffer, loops and counters.  A   *)
(* datagram owes a list of messages that depends on nothing but its own    *)
(* content, its sender and the size of the buffer; they are delivered one  *)
(* by one and in order, and then the next datagram is taken.  Some         *)
(* datagrams kill the process, after the messages they owe up to there.    *)
(***************************************************************************)
EXTENDS FrameConversion

CONSTANTS
  BufferWords,  \* config.udp_buffer_size()
  Datagrams     \* what may arrive: sequences over Headers, one entry a word

ASSUME RelayAssumption ==
  BufferWords \in Nat /\ Datagrams \subseteq Seq(Headers)

VARIABLES
  status,     \* "idle", "busy", "doomed" or "stopped"
  owed,       \* messages of the datagram in hand not yet delivered
  delivered   \* messages delivered

relay_vars == <<status, owed, delivered>>

Cut(d) == SubSeq(d, 1, IF Len(d) < BufferWords THEN Len(d) ELSE BufferWords)

RelayInit ==
  /\ status = "idle"
  /\ owed = <<>>
  /\ delivered = <<>>

Take(d, s) ==
  /\ status = "idle"
  /\ owed' = Owed(Cut(d), s)
  /\ status' = IF Fatal(Cut(d), s) THEN "doomed" ELSE "busy"
  /\ UNCHANGED delivered

Deliver ==
  /\ owed # <<>>
  /\ delivered' = Append(delivered, Head(owed))
  /\ owed' = Tail(owed)
  /\ UNCHANGED status

Finish ==
  /\ status = "busy" /\ owed = <<>>
  /\ status' = "idle"
  /\ UNCHANGED <<owed, delivered>>

Die ==
  /\ status = "doomed" /\ owed = <<>>
  /\ status' = "stopped"
  /\ UNCHANGED <<owed, delivered>>

RelayNext ==
  \/ \E d \in Datagrams, s \in Sources : Take(d, s)
  \/ Deliver
  \/ Finish
  \/ Die

RelaySpec == RelayInit /\ [][RelayNext]_relay_vars
=============================================================================
