-------------------------- MODULE MCPacketToFrames --------------------------
(* Every datagram of up to MaxWords words, each word a header with one of  *)
(* the declared lengths, or none: most are corrupt, some are well formed.  *)
EXTENDS PacketToFrames

CONSTANTS MaxWords, DeclaredLengths, HeaderLengths

MCZeroWord == [marker |-> FALSE, total_length_words |-> 0, header_length_words |-> 0]

MCHeaders ==
  {MCZeroWord} \cup
  [marker : {TRUE}, total_length_words : DeclaredLengths,
   header_length_words : HeaderLengths]

MCDatagrams == UNION {[1..n -> MCHeaders] : n \in 0..MaxWords}

-----------------------------------------------------------------------------
(* FairSpec with a bound on the views of one datagram.  A loop that moves,  *)
(* as FramesTile says, never meets it; one that stands still would push     *)
(* views for ever, and does here until the bound leaves it stuck.           *)
MaxFrames == BufferWords + 1

BoundedPushFrame == Len(frames) < MaxFrames /\ PushFrame

BoundedExtract ==
  \/ BoundedPushFrame \/ BreakAtPadding \/ BreakTooShort \/ BreakTooLong
  \/ EndOfContent

BoundedNext ==
  \/ \E d \in Datagrams : RecvFrom(d)
  \/ RecvError
  \/ BoundedExtract
  \/ Return

BoundedFairSpec ==
  Init /\ [][BoundedNext]_vars /\ WF_vars(BoundedExtract) /\ WF_vars(Return)

-----------------------------------------------------------------------------
(* Two messages of two words, the marker of the first damaged or not, and  *)
(* zero padding behind them or not.                                        *)
Marked ==
  [marker |-> TRUE, total_length_words |-> 2, header_length_words |-> 2]

Damaged == [Marked EXCEPT !.marker = FALSE]

MCDamagedHeaders == {MCZeroWord, Marked, Damaged}

TwoMessages(first) == <<first, MCZeroWord, Marked, MCZeroWord>>

MCDamagedDatagrams ==
  UNION {{TwoMessages(h), TwoMessages(h) \o <<MCZeroWord, MCZeroWord>>} :
           h \in {Marked, Damaged}}
=============================================================================
