----------------------- MODULE FrameConversionProofs ------------------------
(***************************************************************************)
(* What a datagram comes to, for datagrams of any length: the recursion of *)
(* Outcome over the starts of the messages is well defined, because each   *)
(* message that can be read ends after it starts.                          *)
(***************************************************************************)
EXTENDS FrameConversion, PowersOfTwoProofs, SequenceTheorems

-----------------------------------------------------------------------------
(* Outcome's recursion: one step of it, and the values it takes. *)
Rest(f, c, o) == f[o + c[o + 1].total_length_words]

OutcomeAt(f, c, s, o) ==
  IF ~WholeMessageAt(c, o) THEN [messages |-> <<>>, fatal |-> FALSE]
  ELSE IF Kills(c[o + 1])
    THEN [messages |-> MessagesOfFrame(c[o + 1], s), fatal |-> TRUE]
  ELSE [messages |-> MessagesOfFrame(c[o + 1], s) \o Rest(f, c, o).messages,
        fatal    |-> Rest(f, c, o).fatal]

Step(f, c, s) == [o \in 0..Len(c) |-> OutcomeAt(f, c, s, o)]

(* The messages that headers of c may become. *)
MessagesFrom(c, s) ==
  UNION {{Pu00(c[i], s), Ev44(c[i])} : i \in {j \in 1..Len(c) : Timed(c[j])}}

Outcomes(c, s) == [messages : Seq(MessagesFrom(c, s)), fatal : BOOLEAN]

LEMMA NextMessage ==
  ASSUME NEW c \in Seq(Headers), NEW o \in 0..Len(c), WholeMessageAt(c, o)
  PROVE  /\ o + 1 \in 1..Len(c)
         /\ c[o + 1] \in Headers
         /\ o + c[o + 1].total_length_words \in (o + 1)..Len(c)
  BY HeaderAssumption DEF WholeMessageAt

LEMMA FrameMessagesType ==
  ASSUME NEW c \in Seq(Headers), NEW s, NEW o \in 0..Len(c), WholeMessageAt(c, o)
  PROVE  MessagesOfFrame(c[o + 1], s) \in Seq(MessagesFrom(c, s))
<1> DEFINE h == c[o + 1]
<1>1. o + 1 \in 1..Len(c)
  BY NextMessage
<1>2. CASE Timed(h)
  <2>1. Pu00(h, s) \in MessagesFrom(c, s) /\ Ev44(h) \in MessagesFrom(c, s)
    BY <1>1, <1>2 DEF MessagesFrom
  <2> QED BY <1>2, <2>1 DEF MessagesOfFrame
<1>3. CASE ~Timed(h)
  BY <1>3 DEF MessagesOfFrame
<1> QED BY <1>2, <1>3

LEMMA OutcomeAtType ==
  ASSUME NEW c \in Seq(Headers), NEW s, NEW o \in 0..Len(c), NEW f,
         WholeMessageAt(c, o) => Rest(f, c, o) \in Outcomes(c, s)
  PROVE  OutcomeAt(f, c, s, o) \in Outcomes(c, s)
<1> DEFINE M == Seq(MessagesFrom(c, s))
           frame == MessagesOfFrame(c[o + 1], s)
<1>1. CASE ~WholeMessageAt(c, o)
  BY <1>1 DEF OutcomeAt, Outcomes
<1>2. CASE WholeMessageAt(c, o)
  <2>1. frame \in M
    BY <1>2, FrameMessagesType
  <2>2. Rest(f, c, o).messages \in M /\ Rest(f, c, o).fatal \in BOOLEAN
    BY <1>2 DEF Outcomes
  <2>3. frame \o Rest(f, c, o).messages \in M
    BY <2>1, <2>2
  <2> HIDE DEF M, frame
  <2>4. /\ [messages |-> frame, fatal |-> TRUE] \in [messages : M, fatal : BOOLEAN]
        /\ [messages |-> frame \o Rest(f, c, o).messages, fatal |-> Rest(f, c, o).fatal]
             \in [messages : M, fatal : BOOLEAN]
    BY <2>1, <2>2, <2>3
  <2> QED BY <1>2, <2>4 DEF OutcomeAt, Outcomes, M, frame
<1> QED BY <1>1, <1>2

(* The outcome at o depends on what follows o only. *)
LEMMA OutcomeDependsOnRest ==
  ASSUME NEW c \in Seq(Headers), NEW s, NEW o \in 0..Len(c), NEW f, NEW g,
         \A q \in (o + 1)..Len(c) : f[q] = g[q]
  PROVE  OutcomeAt(f, c, s, o) = OutcomeAt(g, c, s, o)
<1>1. CASE WholeMessageAt(c, o)
  <2>1. Rest(f, c, o) = Rest(g, c, o)
    BY <1>1, NextMessage DEF Rest
  <2> QED BY <2>1 DEF OutcomeAt
<1>2. CASE ~WholeMessageAt(c, o)
  BY <1>2 DEF OutcomeAt
<1> QED BY <1>1, <1>2

(* There is a function that the recursion defines: it is built from the    *)
(* end of the datagram to its start.                                       *)
LEMMA OutcomeExists ==
  ASSUME NEW c \in Seq(Headers), NEW s
  PROVE  \E g : g = Step(g, c, s)
<1> DEFINE n == Len(c)
           Good(g, k) == \A o \in (n - k)..n : g[o] = OutcomeAt(g, c, s, o)
           From(k) == [(n - k)..n -> Outcomes(c, s)]
           S == {k \in Nat : k <= n => \E g \in From(k) : Good(g, k)}
<1>1. n \in Nat
  OBVIOUS
<1>2. 0 \in S
  <2> DEFINE last == [o \in n..n |-> OutcomeAt(<<>>, c, s, o)]
  <2>1. ~WholeMessageAt(c, n)
    BY <1>1 DEF WholeMessageAt
  <2>2. \A f : OutcomeAt(f, c, s, n) = OutcomeAt(<<>>, c, s, n)
    BY <2>1 DEF OutcomeAt
  <2>3. OutcomeAt(<<>>, c, s, n) \in Outcomes(c, s)
    BY <1>1, <2>1, OutcomeAtType
  <2>4. (n - 0)..n = {n} /\ n..n = {n}
    BY <1>1
  <2>5. last \in From(0) /\ last[n] = OutcomeAt(<<>>, c, s, n)
    BY <2>3, <2>4
  <2> HIDE DEF last, n
  <2>6. Good(last, 0)
    BY <2>2, <2>4, <2>5
  <2> QED BY <2>5, <2>6
<1>3. ASSUME NEW k \in S PROVE k + 1 \in S
  <2>1. k \in Nat
    OBVIOUS
  <2>2. ASSUME k + 1 <= n PROVE \E g \in From(k + 1) : Good(g, k + 1)
    <3>1. k \in Nat /\ k <= n
      BY <2>2, <1>1
    <3>2. PICK g \in From(k) : Good(g, k)
      BY <3>1
    <3> DEFINE first == n - (k + 1)
               h == [o \in first..n |-> IF o = first THEN OutcomeAt(g, c, s, first) ELSE g[o]]
    <3>3. /\ first \in 0..n /\ first + 1 = n - k
          /\ first..n = {first} \cup ((n - k)..n) /\ first \notin (n - k)..n
      <4> HIDE DEF n
      <4>1. n \in Nat /\ k \in Nat /\ k + 1 <= n
        BY <3>1, <2>2, <1>1
      <4>2. first \in 0..n /\ first + 1 = n - k /\ first \notin (n - k)..n
        BY <4>1
      <4>3. \A o : o \in first..n <=> o = first \/ o \in (n - k)..n
        BY <4>1
      <4> QED BY <4>2, <4>3
    <3>4. \A o \in (n - k)..n : h[o] = g[o]
      BY <3>3
    <3>5. \A o \in first..n : OutcomeAt(h, c, s, o) = OutcomeAt(g, c, s, o)
      <4> SUFFICES ASSUME NEW o \in first..n
                   PROVE  OutcomeAt(h, c, s, o) = OutcomeAt(g, c, s, o)
        OBVIOUS
      <4>1. o \in 0..n
        BY <3>3, <1>1
      <4>2. \A q \in (o + 1)..n : q \in (n - k)..n
        BY <3>3, <3>1, <1>1
      <4> HIDE DEF h, first
      <4> QED BY <4>1, <4>2, <3>4, OutcomeDependsOnRest
    <3>6. OutcomeAt(g, c, s, first) \in Outcomes(c, s)
      <4>1. ASSUME WholeMessageAt(c, first)
            PROVE  Rest(g, c, first) \in Outcomes(c, s)
        <5>1. first + c[first + 1].total_length_words \in (first + 1)..n
          BY <4>1, <3>3, NextMessage
        <5> HIDE DEF first
        <5> QED BY <5>1, <3>3, <3>2 DEF Rest
      <4> HIDE DEF first
      <4> QED BY <4>1, <3>3, OutcomeAtType
    <3>7. h \in From(k + 1)
      <4>1. \A o \in (n - k)..n : g[o] \in Outcomes(c, s)
        BY <3>2
      <4> QED BY <4>1, <3>3, <3>6
    <3>8. Good(h, k + 1)
      <4>1. h[first] = OutcomeAt(g, c, s, first)
        BY <3>3, <1>1
      <4>2. \A o \in (n - k)..n : h[o] = OutcomeAt(g, c, s, o)
        BY <3>2, <3>4
      <4> HIDE DEF h
      <4> QED BY <4>1, <4>2, <3>3, <3>5
    <3> QED BY <3>7, <3>8
  <2> HIDE DEF n, From, Good
  <2> QED BY <2>1, <2>2
<1> HIDE DEF S
<1>4. n \in S
  BY <1>1, <1>2, <1>3, Induction DEF S
<1>5. PICK g \in From(n) : Good(g, n)
  BY <1>1, <1>4 DEF S
<1>6. g = Step(g, c, s)
  <2>1. (n - n)..n = 0..n
    BY <1>1
  <2> QED BY <1>5, <2>1 DEF Step
<1> QED BY <1>6

LEMMA OutcomeRecursion ==
  ASSUME NEW c \in Seq(Headers), NEW s
  PROVE  Outcome(c, s) = Step(Outcome(c, s), c, s)
<1>1. Outcome(c, s) = CHOOSE f : f = Step(f, c, s)
  BY Zenon DEF Outcome, Step, OutcomeAt, Rest
<1>2. \E g : g = Step(g, c, s)
  BY OutcomeExists
<1> QED BY <1>1, <1>2

LEMMA OutcomeUnfolds ==
  ASSUME NEW c \in Seq(Headers), NEW s, NEW o \in 0..Len(c)
  PROVE  Outcome(c, s)[o] = OutcomeAt(Outcome(c, s), c, s, o)
<1> DEFINE f == Outcome(c, s)
<1>1. f = Step(f, c, s)
  BY OutcomeRecursion
<1> HIDE DEF f
<1>2. Step(f, c, s)[o] = OutcomeAt(f, c, s, o)
  BY DEF Step
<1> QED BY <1>1, <1>2 DEF f

LEMMA OutcomeType ==
  ASSUME NEW c \in Seq(Headers), NEW s
  PROVE  \A o \in 0..Len(c) : Outcome(c, s)[o] \in Outcomes(c, s)
<1> DEFINE n == Len(c)
           f == Outcome(c, s)
           S == {k \in Nat : \A o \in 0..n : n - k <= o => f[o] \in Outcomes(c, s)}
<1>1. n \in Nat
  OBVIOUS
<1>2. ASSUME NEW o \in 0..n, \A q \in (o + 1)..n : f[q] \in Outcomes(c, s)
      PROVE  f[o] \in Outcomes(c, s)
  <2>1. f[o] = OutcomeAt(f, c, s, o)
    BY OutcomeUnfolds
  <2>2. WholeMessageAt(c, o) => Rest(f, c, o) \in Outcomes(c, s)
    BY <1>2, NextMessage DEF Rest
  <2> HIDE DEF f
  <2> QED BY <2>1, <2>2, OutcomeAtType
<1> HIDE DEF n, f
<1>3. 0 \in S
  <2> SUFFICES ASSUME NEW o \in 0..n, n - 0 <= o PROVE f[o] \in Outcomes(c, s)
    OBVIOUS
  <2>1. (o + 1)..n = {}
    BY <1>1
  <2> QED BY <1>2, <2>1
<1>4. ASSUME NEW k \in S PROVE k + 1 \in S
  <2>1. k \in Nat
    OBVIOUS
  <2>2. ASSUME NEW o \in 0..n, n - (k + 1) <= o PROVE f[o] \in Outcomes(c, s)
    <3>1. \A q \in (o + 1)..n : q \in 0..n /\ n - k <= q
      BY <2>1, <2>2, <1>1
    <3> QED BY <3>1, <1>2
  <2> QED BY <2>1, <2>2
<1>5. n \in S
  <2> HIDE DEF S
  <2>1. S \in SUBSET Nat
    BY DEF S
  <2> QED BY <1>1, <1>3, <1>4, <2>1, Induction
<1>6. ASSUME NEW o \in 0..n PROVE n - n <= o
  BY <1>1
<1> QED BY <1>5, <1>6 DEF n, f

(* What a datagram owes are conversions of its own headers. *)
LEMMA OwedType ==
  ASSUME NEW c \in Seq(Headers), NEW s
  PROVE  Owed(c, s) \in Seq(MessagesFrom(c, s)) /\ Fatal(c, s) \in BOOLEAN
<1>1. 0 \in 0..Len(c)
  OBVIOUS
<1>2. Outcome(c, s)[0] \in Outcomes(c, s)
  BY <1>1, OutcomeType
<1> QED BY <1>2 DEF Outcomes, Owed, Fatal

LEMMA MessagesFromType ==
  ASSUME NEW c \in Seq(Headers), NEW s \in Sources
  PROVE  MessagesFrom(c, s) \subseteq Messages
  BY DEF MessagesFrom, Messages

-----------------------------------------------------------------------------
(* The slices of a whole message are out of bounds just when its header    *)
(* declares itself shorter than its fixed part or longer than the message, *)
(* however much content follows it (board_specific_parameters, data_bytes).*)
LEMMA PanicsByHeader ==
  ASSUME NEW h \in Headers, NEW len \in Nat, h.total_length_words <= len
  PROVE  ParsePanics(h, len) <=> ~HeaderFits(h) \/ Overflows(h)
<1>1. /\ h.total_length_words \in Nat /\ h.header_length_words \in Nat
      /\ MINIMUM_HEADER_LEN_WORDS \in Nat
  BY HeaderAssumption
<1>2. HeaderFits(h) <=> BoardParametersInBounds(h, len) /\ DataBytesInBounds(h)
  BY <1>1 DEF HeaderFits, BoardParametersInBounds, DataBytesInBounds
<1> QED BY <1>2 DEF ParsePanics, Overflows

(* What a datagram loses when it is cut. *)
LEMMA WholeWhenCut ==
  ASSUME NEW d \in Seq(Headers), NEW n \in 0..Len(d), NEW o \in 0..n,
         WholeMessageAt(SubSeq(d, 1, n), o)
  PROVE  LET c == SubSeq(d, 1, n) IN
         /\ WholeMessageAt(d, o) /\ c[o + 1] = d[o + 1]
         /\ o + d[o + 1].total_length_words \in (o + 1)..n
<1> DEFINE c == SubSeq(d, 1, n)
           h == d[o + 1]
<1>1. /\ Len(d) \in Nat /\ n \in Nat /\ o \in Nat /\ n <= Len(d)
      /\ Len(c) = n /\ \A i \in 1..n : c[i] = d[i]
      /\ c \in Seq(Headers)
  OBVIOUS
<1> HIDE DEF c
<1>2. o + 1 \in 1..n /\ c[o + 1] = h /\ o + c[o + 1].total_length_words \in (o + 1)..n
  BY <1>1, NextMessage DEF c
<1>3. h.total_length_words \in Nat
  BY <1>1, <1>2, HeaderAssumption
<1>4. WholeMessageAt(d, o)
  BY <1>1, <1>2, <1>3 DEF WholeMessageAt, c
<1> QED BY <1>1, <1>2, <1>4 DEF c

(* The outcome at o of the cut datagram and of the whole one. *)
BeginsWith(whole, cut, M) ==
  /\ \E rest \in Seq(M) : whole.messages = cut.messages \o rest
  /\ cut.fatal => whole = cut

LEMMA OutcomeWhenCut ==
  ASSUME NEW d \in Seq(Headers), NEW n \in 0..Len(d), NEW s, NEW o \in 0..n,
         \A q \in (o + 1)..n :
           BeginsWith(Outcome(d, s)[q], Outcome(SubSeq(d, 1, n), s)[q],
                      MessagesFrom(d, s))
  PROVE  BeginsWith(Outcome(d, s)[o], Outcome(SubSeq(d, 1, n), s)[o], MessagesFrom(d, s))
<1> DEFINE c == SubSeq(d, 1, n)
           F == Outcome(d, s)
           G == Outcome(c, s)
           M == MessagesFrom(d, s)
<1>1. /\ Len(d) \in Nat /\ n \in Nat /\ o \in Nat /\ n <= Len(d)
      /\ Len(c) = n /\ c \in Seq(Headers) /\ o \in 0..Len(d) /\ o \in 0..Len(c)
  OBVIOUS
<1>2. F[o] = OutcomeAt(F, d, s, o) /\ F[o] \in Outcomes(d, s)
  BY <1>1, OutcomeUnfolds, OutcomeType
<1>3. G[o] = OutcomeAt(G, c, s, o)
  <2> HIDE DEF c
  <2> QED BY <1>1, OutcomeUnfolds
<1>4. F[o].messages \in Seq(M)
  BY <1>2 DEF Outcomes
<1> DEFINE f == MessagesOfFrame(d[o + 1], s)
           g == MessagesOfFrame(c[o + 1], s)
           q == o + d[o + 1].total_length_words
<1>5. CASE ~WholeMessageAt(c, o)
  <2>1. G[o] = [messages |-> <<>>, fatal |-> FALSE]
    BY <1>3, <1>5 DEF OutcomeAt
  <2>2. \A m \in Seq(M) : m = <<>> \o m
    OBVIOUS
  <2>3. G[o].messages = <<>> /\ ~G[o].fatal
    BY <2>1
  <2> HIDE DEF F, G, M
  <2>4. F[o].messages = G[o].messages \o F[o].messages
    BY <1>4, <2>2, <2>3
  <2> QED BY <1>4, <2>3, <2>4 DEF BeginsWith, F, G, M
<1>6. CASE WholeMessageAt(c, o)
  <2>1. /\ WholeMessageAt(d, o) /\ c[o + 1] = d[o + 1] /\ f = g
        /\ q \in (o + 1)..n
    BY <1>6, WholeWhenCut
  <2>2. f \in Seq(M)
    BY <1>1, <2>1, FrameMessagesType
  <2>3. CASE Kills(d[o + 1])
    <3>1. F[o] = [messages |-> f, fatal |-> TRUE] /\ G[o] = F[o]
      BY <1>2, <1>3, <1>6, <2>1, <2>3 DEF OutcomeAt
    <3>2. F[o].messages = F[o].messages \o <<>> /\ <<>> \in Seq(M)
      BY <1>4
    <3> HIDE DEF F, G, M
    <3> QED BY <3>1, <3>2 DEF BeginsWith, F, G, M
  <2>4. CASE ~Kills(d[o + 1])
    <3>1. F[o] = [messages |-> f \o F[q].messages, fatal |-> F[q].fatal]
      BY <1>2, <2>1, <2>4 DEF OutcomeAt, Rest
    <3>2. G[o] = [messages |-> f \o G[q].messages, fatal |-> G[q].fatal]
      BY <1>3, <1>6, <2>1, <2>4 DEF OutcomeAt, Rest
    <3>3. PICK rest \in Seq(M) : F[q].messages = G[q].messages \o rest
      BY <2>1 DEF BeginsWith
    <3>4. G[q].fatal => F[q] = G[q]
      BY <2>1 DEF BeginsWith
    <3>5. G[q].messages \in Seq(MessagesFrom(c, s))
      <4> HIDE DEF c, q
      <4>1. q \in 0..Len(c)
        BY <1>1, <2>1
      <4>2. G[q] \in Outcomes(c, s)
        BY <1>1, <4>1, OutcomeType
      <4> QED BY <4>2 DEF Outcomes
    <3> HIDE DEF F, G, M, f, g, q, c
    <3>6. f \o (G[q].messages \o rest) = (f \o G[q].messages) \o rest
      <4> DEFINE U == M \cup MessagesFrom(c, s)
      <4>1. f \in Seq(U) /\ G[q].messages \in Seq(U) /\ rest \in Seq(U)
        BY <2>2, <3>3, <3>5
      <4> DEFINE x == G[q].messages
      <4>2. x \in Seq(U)
        BY <4>1
      <4> HIDE DEF U, x
      <4>3. (f \o x) \o rest = f \o (x \o rest)
        BY <4>1, <4>2, ConcatAssociative
      <4> QED BY <4>3 DEF x
    <3>7. F[o].messages = G[o].messages \o rest
      BY <3>1, <3>2, <3>3, <3>6
    <3>8. G[o].fatal => F[o] = G[o]
      <4> SUFFICES ASSUME G[o].fatal PROVE F[o] = G[o]
        OBVIOUS
      <4>1. G[q].fatal
        BY <3>2
      <4> QED BY <3>1, <3>2, <3>4, <4>1
    <3>9. BeginsWith(F[o], G[o], M)
      BY <3>3, <3>7, <3>8 DEF BeginsWith
    <3> QED BY <3>9 DEF F, G, M, c
  <2> QED BY <2>3, <2>4
<1> QED BY <1>5, <1>6

(* A datagram that the buffer cuts owes the first messages of what the     *)
(* whole datagram owes, each unchanged, and nothing else; and if the part  *)
(* that was read stops the process, then the whole does so just there.     *)
THEOREM CuttingLosesTheEnd ==
  ASSUME NEW d \in Seq(Headers), NEW s, NEW n \in 0..Len(d)
  PROVE  LET c == SubSeq(d, 1, n) IN
         /\ \E rest \in Seq(MessagesFrom(d, s)) : Owed(d, s) = Owed(c, s) \o rest
         /\ Fatal(c, s) => Fatal(d, s) /\ Owed(d, s) = Owed(c, s)
<1> DEFINE c == SubSeq(d, 1, n)
           F == Outcome(d, s)
           G == Outcome(c, s)
           M == MessagesFrom(d, s)
           S == {k \in Nat : \A o \in 0..n : n - k <= o => BeginsWith(F[o], G[o], M)}
<1>1. n \in Nat
  OBVIOUS
<1>2. ASSUME NEW o \in 0..n, \A q \in (o + 1)..n : BeginsWith(F[q], G[q], M)
      PROVE  BeginsWith(F[o], G[o], M)
  BY <1>2, OutcomeWhenCut
<1> HIDE DEF F, G, M
<1>3. 0 \in S
  <2> SUFFICES ASSUME NEW o \in 0..n, n - 0 <= o PROVE BeginsWith(F[o], G[o], M)
    OBVIOUS
  <2>1. (o + 1)..n = {}
    BY <1>1
  <2> QED BY <1>2, <2>1
<1>4. ASSUME NEW k \in S PROVE k + 1 \in S
  <2>1. k \in Nat
    OBVIOUS
  <2>2. ASSUME NEW o \in 0..n, n - (k + 1) <= o PROVE BeginsWith(F[o], G[o], M)
    <3>1. \A q \in (o + 1)..n : q \in 0..n /\ n - k <= q
      BY <2>1, <2>2, <1>1
    <3> QED BY <3>1, <1>2
  <2> QED BY <2>1, <2>2
<1>5. n \in S
  <2> HIDE DEF S
  <2>1. S \in SUBSET Nat
    BY DEF S
  <2> QED BY <1>1, <1>3, <1>4, <2>1, Induction
<1>6. 0 \in 0..n /\ n - n <= 0
  BY <1>1
<1>7. BeginsWith(F[0], G[0], M)
  BY <1>5, <1>6
<1> QED BY <1>7 DEF BeginsWith, Owed, Fatal, F, G, M, c
=============================================================================
