------------------------- MODULE PeerRequestsProofs -------------------------
(***************************************************************************)
(* Proofs about the requests of the sync loop and the ledger their answers *)
(* fill.                                                                   *)
(*                                                                         *)
(* Of PeerRequests: type correctness, with the channels' bounds; that no   *)
(* two requests wait on one live connection; and that a request that       *)
(* succeeds holds what was asked for.  They hold for any number of peers,  *)
(* of batches and of answers that come late or never.                      *)
(*                                                                         *)
(* Of WalletLedger and History: type correctness; that the ledger of the   *)
(* addresses watched from the start is that of the chain; and that the     *)
(* statistics, the balances and the coins agree.  They hold for any        *)
(* transactions, chains, forks and restarts.                               *)
(***************************************************************************)
EXTENDS PeerRequests, History, KeepingProofs

USE DEF vars, wire, call

(***************************************************************************)
(* Sequences and answers                                                   *)
(***************************************************************************)

\* A sequence without the element at one place.
LEMMA RemoveAtFacts ==
  ASSUME NEW T, NEW s \in Seq(T), NEW i \in 1..Len(s)
  PROVE  /\ RemoveAt(s, i) \in Seq(T)
         /\ Len(RemoveAt(s, i)) = Len(s) - 1
         /\ \A j \in 1..(Len(s) - 1) : RemoveAt(s, i)[j] = IF j < i THEN s[j] ELSE s[j + 1]
  <1> DEFINE n == Len(s)
             a == SubSeq(s, 1, i - 1)
             b == SubSeq(s, i + 1, n)
  <1>1. n \in Nat /\ i \in 1..n
    BY SeqElements
  <1>2. a \in Seq(T) /\ Len(a) = i - 1 /\ \A j \in 1..(i - 1) : a[j] = s[j]
    BY <1>1, SubSeqProperties
  <1>3. b \in Seq(T) /\ Len(b) = n - i /\ \A j \in 1..(n - i) : b[j] = s[i + j]
    BY <1>1, SubSeqProperties
  <1> HIDE DEF a, b
  <1>4. /\ a \o b \in Seq(T) /\ Len(a \o b) = Len(a) + Len(b)
        /\ \A j \in 1..(Len(a) + Len(b)) : (a \o b)[j] = IF j <= Len(a) THEN a[j] ELSE b[j - Len(a)]
    BY <1>2, <1>3, ConcatProperties
  <1>5. RemoveAt(s, i) = a \o b
    BY DEF RemoveAt, a, b
  <1>6. ASSUME NEW j \in 1..(n - 1) PROVE (a \o b)[j] = IF j < i THEN s[j] ELSE s[j + 1]
    <2>1. CASE j < i
      BY <1>1, <1>2, <1>3, <1>4, <2>1
    <2>2. CASE ~(j < i)
      <3>1. j - Len(a) \in 1..(n - i) /\ i + (j - Len(a)) = j + 1
        BY <1>1, <1>2, <2>2
      <3>2. (a \o b)[j] = b[j - Len(a)]
        BY <1>1, <1>2, <1>3, <1>4, <2>2
      <3>3. b[j - Len(a)] = s[i + (j - Len(a))]
        BY <1>3, <3>1
      <3>4. s[i + (j - Len(a))] = s[j + 1]
        BY <3>1
      <3> QED BY <2>2, <3>2, <3>3, <3>4
    <2> QED BY <2>1, <2>2
  <1>7. Len(a) + Len(b) = n - 1
    BY <1>1, <1>2, <1>3
  <1> QED BY <1>4, <1>5, <1>6, <1>7

\* The numbers of the answers of a request are finitely many, and no more than
\* a filter batch.
LEMMA AskedFacts ==
  ASSUME NEW kind \in Kinds, NEW k \in Batches
  PROVE  /\ Asked(kind, k) \subseteq Nat /\ IsFiniteSet(Asked(kind, k))
         /\ Cardinality(Asked(kind, k)) \in 1..FilterBatch
         /\ FilterBatch * (k - 1) \in Nat
  <1>1. k \in Nat \ {0} /\ FilterBatch \in Nat \ {0}
    BY BoundsAssumption
  <1>2. FilterBatch * (k - 1) \in Nat /\ FilterBatch * k = FilterBatch * (k - 1) + FilterBatch
    <2>1. \A a, b \in Nat : a * b \in Nat
      OBVIOUS
    <2>2. \A a, b \in Nat : a * b \in Nat /\ a * (b + 1) = a * b + a
      BY <2>1
    <2>3. k - 1 \in Nat /\ (k - 1) + 1 = k
      BY <1>1
    <2> QED BY <1>1, <2>2, <2>3
  <1>3. \A x \in Nat : {x} \subseteq Nat /\ IsFiniteSet({x}) /\ Cardinality({x}) \in 1..FilterBatch
    <2>1. \A x : IsFiniteSet({x}) /\ Cardinality({x}) = 1
      BY FS_Singleton
    <2>2. 1 \in 1..FilterBatch
      BY <1>1
    <2> QED BY <2>1, <2>2
  <1>4. CASE kind = "cfilters"
    <2> DEFINE a == FilterBatch * (k - 1)
               D == (a + 1)..(a + FilterBatch)
    <2>1. a \in Nat /\ FilterBatch \in Nat
      BY <1>1, <1>2
    <2>2. Asked(kind, k) = D
      BY <1>2, <1>4 DEF Asked
    <2> HIDE DEF a
    <2>3. \A m, n \in Int : m <= n => IsFiniteSet(m..n) /\ Cardinality(m..n) = n - m + 1
      BY FS_Interval
    <2>4. IsFiniteSet(D) /\ Cardinality(D) = FilterBatch
      <3>1. a + 1 \in Int /\ a + FilterBatch \in Int /\ a + 1 <= a + FilterBatch
        BY <1>1, <2>1
      <3>2. IsFiniteSet(D) /\ Cardinality(D) = (a + FilterBatch) - (a + 1) + 1
        BY <2>3, <3>1
      <3>3. (a + FilterBatch) - (a + 1) + 1 = FilterBatch
        BY <2>1
      <3> QED BY <3>2, <3>3
    <2>5. D \subseteq Nat
      BY <2>1
    <2> HIDE DEF D
    <2> QED BY <1>1, <1>2, <2>2, <2>4, <2>5
  <1>5. CASE kind # "cfilters"
    <2>1. \E x \in Nat : Asked(kind, k) = {x}
      BY <1>1, <1>5 DEF Asked
    <2> QED BY <1>2, <1>3, <2>1
  <1> QED BY <1>4, <1>5

\* A message is of a kind that has a channel, and about a number.
LEMMA MessageFacts ==
  ASSUME NEW m \in Messages
  PROVE  m.kind \in Kinds /\ m.of \in Nat
  <1>1. CASE m \in {[kind |-> "headers", of |-> 0], [kind |-> "notFound", of |-> 0]}
    BY <1>1 DEF Kinds
  <1>2. CASE m \in UNION {ToSet(Answer(kind, k)) : kind \in {"cfheaders", "cfilters", "blocks"}, k \in Batches}
    <2>1. PICK kind \in {"cfheaders", "cfilters", "blocks"}, k \in Batches : m \in ToSet(Answer(kind, k))
      BY <1>2
    <2>2. kind \in Kinds /\ k \in Nat \ {0} /\ FilterBatch \in Nat \ {0}
      BY BoundsAssumption DEF Kinds
    <2>3. FilterBatch * (k - 1) \in Nat
      BY <2>2, AskedFacts
    <2>4. CASE kind = "cfilters"
      <3>1. PICK i \in 1..FilterBatch : m = [kind |-> kind, of |-> FilterBatch * (k - 1) + i]
        BY <2>1, <2>4 DEF Answer, ToSet
      <3> QED BY <2>2, <2>3, <3>1
    <2>5. CASE kind # "cfilters"
      <3>1. Asked(kind, k) = {k}
        BY <2>5 DEF Asked
      <3>2. Answer(kind, k) = << [kind |-> kind, of |-> CHOOSE n \in {k} : TRUE] >>
        BY <2>5, <3>1 DEF Answer
      <3>3. m = [kind |-> kind, of |-> CHOOSE n \in {k} : TRUE]
        BY <2>1, <3>2 DEF ToSet
      <3> QED BY <2>2, <3>3
    <2> QED BY <2>4, <2>5
  <1> QED BY <1>1, <1>2 DEF Messages

\* What a peer answers is messages.
LEMMA AnswerFacts ==
  ASSUME NEW kind \in {"headers", "cfheaders", "cfilters", "blocks"}, NEW k \in Batches
  PROVE  Answer(kind, k) \in Seq(Messages)
  <1> DEFINE ans0 == Answer(kind, k)
  <1>1. FilterBatch \in Nat
    BY BoundsAssumption
  <1>2. \A i \in DOMAIN ans0 : ans0[i] \in Messages
    <2>1. CASE kind = "headers"
      BY <2>1 DEF Answer, Asked, Messages
    <2>2. CASE kind # "headers"
      <3>1. \A i \in DOMAIN ans0 : ans0[i] \in ToSet(ans0)
        BY DEF ToSet
      <3>2. ToSet(ans0) \subseteq Messages
        BY <2>2 DEF Messages
      <3> QED BY <3>1, <3>2
    <2> QED BY <2>1, <2>2
  <1>3. CASE kind = "cfilters"
    <2>1. ans0 = [i \in 1..FilterBatch |-> [kind |-> kind, of |-> FilterBatch * (k - 1) + i]]
      BY <1>3 DEF Answer
    <2> HIDE DEF ans0
    <2>2. ans0 \in [1..FilterBatch -> Messages]
      BY <1>2, <2>1
    <2>3. ans0 \in Seq(Messages)
      BY <1>1, <2>2, IsASeq
    <2> QED BY <2>3 DEF ans0
  <1>4. CASE kind # "cfilters"
    <2> DEFINE x == [kind |-> kind, of |-> CHOOSE n \in Asked(kind, k) : TRUE]
    <2>1. ans0 = << x >>
      BY <1>4 DEF Answer
    <2> HIDE DEF x, ans0
    <2>2. 1 \in DOMAIN ans0 /\ ans0[1] = x
      BY <2>1
    <2>3. x \in Messages
      BY <1>2, <2>2
    <2>4. ans0 \in Seq(Messages)
      BY <2>1, <2>3
    <2> QED BY <2>4 DEF ans0
  <1> QED BY <1>3, <1>4

(***************************************************************************)
(* Messages on their way                                                   *)
(***************************************************************************)

\* Messages are on their way from the peers; the channels keep their
\* capacities.
ChanOK ==
  /\ chan \in [Conns -> [Kinds -> Seq(Nat)]]
  /\ \A c \in Conns : \A kind \in Kinds : Len(chan[c][kind]) <= Room[kind]
LineOK ==
  /\ line \in [Conns -> Seq(Messages)]
  /\ \A c \in Conns : Len(line[c]) <= MaxLine
StuckOK == stuck \in [Conns -> Messages \cup {None}]
WireOK == ChanOK /\ LineOK /\ StuckOK

\* A channel changes.
LEMMA ChannelStep ==
  ASSUME ChanOK, NEW c \in Conns, NEW kind \in Kinds, NEW q \in Seq(Nat), Len(q) <= Room[kind],
         chan' = [chan EXCEPT ![c][kind] = q]
  PROVE  ChanOK'
  <1>1. chan' \in [Conns -> [Kinds -> Seq(Nat)]]
    BY DEF ChanOK
  <1>2. ASSUME NEW d \in Conns, NEW k \in Kinds PROVE Len(chan'[d][k]) <= Room[k]
    <2>1. (chan'[d][k] = q /\ d = c /\ k = kind) \/ chan'[d][k] = chan[d][k]
      BY DEF ChanOK
    <2> QED BY <2>1 DEF ChanOK
  <1> QED BY <1>1, <1>2 DEF ChanOK

\* The read loop takes a message.
LEMMA ReadStep ==
  ASSUME WireOK, NEW c \in Conns, Read(c)
  PROVE  WireOK'
  <1> DEFINE m == Head(line[c])
  <1>1. line[c] \in Seq(Messages) /\ line[c] # << >>
    BY DEF WireOK, LineOK, Read
  <1>2. m \in Messages /\ Tail(line[c]) \in Seq(Messages) /\ Len(Tail(line[c])) = Len(line[c]) - 1
    BY <1>1, HeadTailProperties
  <1>3. m.kind \in Kinds /\ m.of \in Nat
    BY <1>2, MessageFacts
  <1>4. /\ line' = [line EXCEPT ![c] = Tail(@)]
        /\ IF HasRoom(c, m.kind)
             THEN /\ chan' = [chan EXCEPT ![c][m.kind] = Append(@, m.of)]
                  /\ UNCHANGED stuck
             ELSE /\ stuck' = [stuck EXCEPT ![c] = m]
                  /\ UNCHANGED chan
    BY DEF Read
  <1> HIDE DEF m
  <1>5. LineOK'
    <2>1. Len(line[c]) \in Nat /\ Len(line[c]) <= MaxLine /\ MaxLine \in Nat
      BY <1>1, LenProperties, BoundsAssumption DEF WireOK, LineOK
    <2>2. Len(Tail(line[c])) <= MaxLine
      BY <1>2, <2>1
    <2> QED BY <1>2, <1>4, <2>2 DEF WireOK, LineOK
  <1>6. CASE HasRoom(c, m.kind)
    <2> DEFINE q == Append(chan[c][m.kind], m.of)
    <2>1. chan[c][m.kind] \in Seq(Nat) /\ Room[m.kind] \in Nat
      BY <1>3, BoundsAssumption DEF WireOK, ChanOK
    <2>2. q \in Seq(Nat) /\ Len(q) = Len(chan[c][m.kind]) + 1
      BY <1>3, <2>1, AppendProperties
    <2>3. Len(q) <= Room[m.kind]
      BY <1>6, <2>1, <2>2, LenProperties DEF HasRoom
    <2>4. chan' = [chan EXCEPT ![c][m.kind] = q]
      BY <1>4, <1>6
    <2>5. ChanOK'
      BY <1>3, <2>2, <2>3, <2>4, ChannelStep DEF WireOK
    <2> QED BY <1>4, <1>5, <1>6, <2>5 DEF WireOK, StuckOK
  <1>7. CASE ~HasRoom(c, m.kind)
    BY <1>2, <1>4, <1>5, <1>7 DEF WireOK, StuckOK, ChanOK
  <1> QED BY <1>6, <1>7

\* A message leaves a channel, and a waiting deliver goes on.
LEMMA ReceiveStep ==
  ASSUME WireOK, NEW c \in Conns, NEW kind \in Kinds, Receive(c, kind), line' = line
  PROVE  WireOK'
  <1> DEFINE freed == stuck[c] # None /\ stuck[c].kind = kind
             q == IF freed THEN Append(Tail(chan[c][kind]), stuck[c].of) ELSE Tail(chan[c][kind])
  <1>1. chan[c][kind] \in Seq(Nat) /\ chan[c][kind] # << >> /\ Len(chan[c][kind]) <= Room[kind]
    BY DEF WireOK, ChanOK, Receive
  <1>2. Tail(chan[c][kind]) \in Seq(Nat) /\ Len(Tail(chan[c][kind])) = Len(chan[c][kind]) - 1
    BY <1>1, HeadTailProperties
  <1>3. Len(chan[c][kind]) \in Nat /\ Room[kind] \in Nat
    BY <1>1, LenProperties, BoundsAssumption
  <1>4. q \in Seq(Nat) /\ Len(q) <= Room[kind]
    <2>1. CASE freed
      <3>1. stuck[c].of \in Nat
        BY <2>1, MessageFacts DEF WireOK, StuckOK
      <3>2. /\ Append(Tail(chan[c][kind]), stuck[c].of) \in Seq(Nat)
            /\ Len(Append(Tail(chan[c][kind]), stuck[c].of)) = Len(Tail(chan[c][kind])) + 1
        BY <1>2, <3>1, AppendProperties
      <3> QED BY <1>1, <1>2, <1>3, <2>1, <3>2
    <2>2. CASE ~freed
      BY <1>1, <1>2, <1>3, <2>2
    <2> QED BY <2>1, <2>2
  <1>5. chan' = [chan EXCEPT ![c][kind] = q]
    BY DEF Receive
  <1> HIDE DEF q
  <1>6. ChanOK'
    BY <1>4, <1>5, ChannelStep DEF WireOK
  <1>7. StuckOK'
    BY DEF Receive, WireOK, StuckOK
  <1> QED BY <1>6, <1>7 DEF WireOK, LineOK

\* A request empties channels and its answer is on the way.
LEMMA RequestWire ==
  ASSUME WireOK, pool \in Seq(Conns), NEW S, NEW kind \in {"headers", "cfheaders", "cfilters", "blocks"},
         NEW k \in Batches, Request(S, kind, k)
  PROVE  WireOK'
  <1>1. ChanOK'
    <2>1. << >> \in Seq(Nat) /\ Len(<< >>) = 0 /\ \A ch \in Kinds : 0 <= Room[ch]
      BY BoundsAssumption
    <2>2. chan' = [c \in Conns |-> IF c \in S
                     THEN [ch \in Kinds |-> IF ch \in Drained(kind) THEN << >> ELSE chan[c][ch]]
                     ELSE chan[c]]
      BY DEF Request
    <2>3. \A c \in Conns : chan[c] \in [Kinds -> Seq(Nat)]
      BY DEF WireOK, ChanOK
    <2>4. \A c \in Conns : /\ chan'[c] \in [Kinds -> Seq(Nat)]
                           /\ \A ch \in Kinds : chan'[c][ch] = << >> \/ chan'[c][ch] = chan[c][ch]
      BY <2>1, <2>2, <2>3
    <2>5. chan' \in [Conns -> [Kinds -> Seq(Nat)]]
      BY <2>2, <2>4
    <2>6. \A c \in Conns : \A ch \in Kinds : Len(chan'[c][ch]) <= Room[ch]
      BY <2>1, <2>4 DEF WireOK, ChanOK
    <2> QED BY <2>5, <2>6 DEF ChanOK
  <1>2. LineOK'
    <2>1. Answer(kind, k) \in Seq(Messages)
      BY AnswerFacts
    <2>2. \A c \in Conns : line[c] \in Seq(Messages) /\ line[c] \o Answer(kind, k) \in Seq(Messages)
      BY <2>1, ConcatProperties DEF WireOK, LineOK
    <2>3. line' = [c \in Conns |->
                IF c \in S /\ Contains(pool, c) /\ Len(line[c] \o Answer(kind, k)) <= MaxLine
                  THEN line[c] \o Answer(kind, k) ELSE line[c]]
      BY DEF Request
    <2>4. \A c \in Conns : line'[c] \in Seq(Messages) /\ Len(line'[c]) <= MaxLine
      BY <2>2, <2>3 DEF WireOK, LineOK
    <2> QED BY <2>3, <2>4 DEF LineOK
  <1>3. StuckOK'
    BY DEF Request, WireOK, StuckOK
  <1> QED BY <1>1, <1>2, <1>3 DEF WireOK

\* Connections end.
LEMMA CloseStep ==
  ASSUME LineOK, StuckOK, pool \in Seq(Conns), NEW S, Close(S)
  PROVE  /\ LineOK' /\ StuckOK' /\ pool' \in Seq(Conns)
         /\ \A c \in Conns : Contains(pool', c) <=> Contains(pool, c) /\ c \notin S
  <1>1. LineOK'
    <2>1. << >> \in Seq(Messages) /\ Len(<< >>) = 0 /\ 0 <= MaxLine
      BY BoundsAssumption
    <2>2. line' = [c \in Conns |-> IF c \in S THEN << >> ELSE line[c]]
      BY DEF Close
    <2>3. \A c \in Conns : line'[c] = << >> \/ line'[c] = line[c]
      BY <2>2
    <2> QED BY <2>1, <2>2, <2>3 DEF LineOK
  <1>2. StuckOK'
    BY DEF Close, StuckOK
  <1>3. pool' = Keep(pool, Conns \ S)
    BY DEF Close
  <1>4. pool' \in Seq(Conns \cap (Conns \ S)) /\ ToSet(pool') = ToSet(pool) \cap (Conns \ S)
    BY <1>3, KeepFacts, KeepElements
  <1>5. pool' \in Seq(Conns)
    <2>1. Conns \cap (Conns \ S) \subseteq Conns
      OBVIOUS
    <2> QED BY <1>4, <2>1, SeqMonotone
  <1>6. \A c \in Conns : Contains(pool', c) <=> Contains(pool, c) /\ c \notin S
    BY <1>4, <1>5, SeqElements
  <1> QED BY <1>1, <1>2, <1>5, <1>6

(***************************************************************************)
(* Requests that wait                                                      *)
(***************************************************************************)

\* A request has got some of what it asked for, and waits for the rest.
Outstanding(r) ==
  /\ r.of \in Batches
  /\ r.got \subseteq Asked(r.kind, r.of)
  /\ Cardinality(r.got) + r.left = Cardinality(Asked(r.kind, r.of))

WaitsOK ==
  /\ waits \in [Conns -> Seq(Requests)]
  /\ \A c \in Conns : \A i \in 1..Len(waits[c]) : Outstanding(waits[c][i])

\* What is known of a request that waits.
LEMMA WaitFacts ==
  ASSUME WaitsOK, NEW c \in Conns
  PROVE  /\ waits[c] \in Seq(Requests) /\ Len(waits[c]) \in Nat /\ DOMAIN waits[c] = 1..Len(waits[c])
         /\ \A i \in 1..Len(waits[c]) : waits[c][i] \in Requests /\ Outstanding(waits[c][i])
  <1>1. waits[c] \in Seq(Requests)
    BY DEF WaitsOK
  <1> QED BY <1>1, SeqElements DEF WaitsOK

\* A goroutine ends.
LEMMA ReturnWaits ==
  ASSUME WaitsOK, NEW c \in Conns, NEW i \in 1..Len(waits[c]), NEW ok, NEW got, Return(c, i, ok, got)
  PROVE  /\ WaitsOK'
         /\ \A d \in Conns \ {c} : waits'[d] = waits[d]
         /\ Len(waits'[c]) = Len(waits[c]) - 1
         /\ \A j \in 1..(Len(waits[c]) - 1) :
              waits'[c][j] = IF j < i THEN waits[c][j] ELSE waits[c][j + 1]
  <1>1. waits' = [waits EXCEPT ![c] = RemoveAt(waits[c], i)]
    BY DEF Return
  <1>2. /\ waits[c] \in Seq(Requests) /\ Len(waits[c]) \in Nat
        /\ \A j \in 1..Len(waits[c]) : Outstanding(waits[c][j])
    BY WaitFacts
  <1>3. /\ RemoveAt(waits[c], i) \in Seq(Requests)
        /\ Len(RemoveAt(waits[c], i)) = Len(waits[c]) - 1
        /\ \A j \in 1..(Len(waits[c]) - 1) :
             RemoveAt(waits[c], i)[j] = IF j < i THEN waits[c][j] ELSE waits[c][j + 1]
    BY <1>2, RemoveAtFacts
  <1>4. waits'[c] = RemoveAt(waits[c], i) /\ \A d \in Conns \ {c} : waits'[d] = waits[d]
    BY <1>1 DEF WaitsOK
  <1>5. waits' \in [Conns -> Seq(Requests)]
    BY <1>1, <1>3 DEF WaitsOK
  <1>6. ASSUME NEW d \in Conns, NEW j \in 1..Len(waits'[d]) PROVE Outstanding(waits'[d][j])
    <2>1. CASE d = c
      <3>1. j \in 1..(Len(waits[c]) - 1) /\ j \in 1..Len(waits[c]) /\ j + 1 \in 1..Len(waits[c])
        BY <1>2, <1>3, <1>4, <2>1
      <3>2. waits'[d][j] = waits[c][j] \/ waits'[d][j] = waits[c][j + 1]
        BY <1>3, <1>4, <2>1, <3>1
      <3> QED BY <1>2, <3>1, <3>2
    <2>2. CASE d # c
      BY <1>4, <2>2 DEF WaitsOK
    <2> QED BY <2>1, <2>2
  <1>7. WaitsOK'
    BY <1>5, <1>6 DEF WaitsOK, Outstanding
  <1> QED BY <1>3, <1>4, <1>7

\* The request that is made.
NewRequest(kind, k) ==
  [kind |-> kind, of |-> k, got |-> {}, left |-> Cardinality(Asked(kind, k)), fresh |-> TRUE]

\* A request is made: it waits for all it asked for, as the last of its
\* connection.
LEMMA RequestWaits ==
  ASSUME WaitsOK, NEW S, NEW kind \in Kinds, NEW k \in Batches, Request(S, kind, k)
  PROVE  /\ WaitsOK'
         /\ \A c \in Conns \ S : waits'[c] = waits[c]
         /\ \A c \in Conns \cap S :
              /\ Len(waits'[c]) = Len(waits[c]) + 1
              /\ \A j \in 1..Len(waits[c]) : waits'[c][j] = waits[c][j]
              /\ waits'[c][Len(waits[c]) + 1] = NewRequest(kind, k)
  <1> DEFINE r == NewRequest(kind, k)
  <1>1. waits' = [c \in Conns |-> IF c \in S THEN Append(waits[c], r) ELSE waits[c]]
    BY DEF Request, NewRequest
  <1>2. r \in Requests /\ Outstanding(r)
    <2>1. /\ Cardinality(Asked(kind, k)) \in 1..FilterBatch /\ {} \in SUBSET Nat
          /\ FilterBatch \in Nat /\ Cardinality({}) = 0
      BY AskedFacts, FS_EmptySet, BoundsAssumption
    <2>2. Cardinality({}) + Cardinality(Asked(kind, k)) = Cardinality(Asked(kind, k))
      BY <2>1
    <2> QED BY <2>1, <2>2 DEF NewRequest, Requests, Outstanding
  <1> HIDE DEF r
  <1>3. \A c \in Conns : /\ Append(waits[c], r) \in Seq(Requests)
                         /\ Len(Append(waits[c], r)) = Len(waits[c]) + 1
                         /\ \A j \in 1..Len(waits[c]) : Append(waits[c], r)[j] = waits[c][j]
                         /\ Append(waits[c], r)[Len(waits[c]) + 1] = r
    BY <1>2, AppendProperties DEF WaitsOK
  <1>4. \A c \in Conns : waits'[c] = IF c \in S THEN Append(waits[c], r) ELSE waits[c]
    BY <1>1
  <1>5. waits' \in [Conns -> Seq(Requests)]
    <2>1. \A c \in Conns : waits'[c] \in Seq(Requests)
      BY <1>3, <1>4 DEF WaitsOK
    <2> QED BY <1>1, <2>1
  <1>6. ASSUME NEW c \in Conns, NEW j \in 1..Len(waits'[c]) PROVE Outstanding(waits'[c][j])
    <2>1. CASE c \in S
      <3>1. Len(waits[c]) \in Nat /\ (j \in 1..Len(waits[c]) \/ j = Len(waits[c]) + 1)
        <4>1. Len(waits[c]) \in Nat
          BY WaitFacts
        <4>2. Len(waits'[c]) = Len(waits[c]) + 1
          BY <1>3, <1>4, <2>1
        <4>3. j \in 1..(Len(waits[c]) + 1)
          BY <4>2
        <4> QED BY <4>1, <4>3
      <3>2. waits'[c][j] = r \/ (j \in 1..Len(waits[c]) /\ waits'[c][j] = waits[c][j])
        BY <1>3, <1>4, <2>1, <3>1
      <3> QED BY <1>2, <3>2 DEF WaitsOK
    <2>2. CASE c \notin S
      BY <1>4, <2>2 DEF WaitsOK
    <2> QED BY <2>1, <2>2
  <1>7. WaitsOK'
    BY <1>5, <1>6 DEF WaitsOK, Outstanding
  <1> QED BY <1>3, <1>4, <1>7 DEF r

\* What a request got, and one more.
LEMMA GotOneMore ==
  ASSUME NEW r \in Requests, Outstanding(r), NEW m \in Wanted(r)
  PROVE  /\ r.got \cup {m} \subseteq Asked(r.kind, r.of)
         /\ Cardinality(r.got \cup {m}) + (r.left - 1) = Cardinality(Asked(r.kind, r.of))
         /\ r.left = 1 => r.got \cup {m} = Asked(r.kind, r.of)
  <1> DEFINE D == Asked(r.kind, r.of)
  <1>1. /\ r.kind \in Kinds /\ r.of \in Batches /\ r.left \in Nat
        /\ r.got \subseteq D /\ Cardinality(r.got) + r.left = Cardinality(D) /\ m \in D /\ m \notin r.got
    BY BoundsAssumption DEF Requests, Outstanding, Wanted
  <1>2. IsFiniteSet(D) /\ D \subseteq Nat
    BY <1>1, AskedFacts
  <1> HIDE DEF D
  <1>3. IsFiniteSet(r.got) /\ Cardinality(r.got) \in Nat /\ Cardinality(D) \in Nat
    BY <1>1, <1>2, FS_Subset, FS_CardinalityType
  <1>4. Cardinality(r.got \cup {m}) = Cardinality(r.got) + 1
    BY <1>1, <1>3, FS_AddElement
  <1>5. r.got \cup {m} \subseteq D
    BY <1>1
  <1>6. Cardinality(r.got \cup {m}) + (r.left - 1) = Cardinality(D)
    BY <1>1, <1>3, <1>4
  <1>7. r.left = 1 => r.got \cup {m} = D
    <2>1. r.left = 1 => Cardinality(r.got \cup {m}) = Cardinality(D)
      BY <1>1, <1>3, <1>4
    <2> QED BY <1>2, <1>5, <2>1, FS_Subset
  <1> QED BY <1>5, <1>6, <1>7 DEF D

\* A request with other fields.
LEMMA UpdatedRequest ==
  ASSUME NEW r \in Requests, NEW m, r.got \cup {m} \subseteq Nat, r.left - 1 \in 1..FilterBatch
  PROVE  LET more == [r EXCEPT !.got = @ \cup {m}, !.left = @ - 1] IN
         /\ more \in Requests /\ more.got = r.got \cup {m} /\ more.left = r.left - 1
         /\ more.fresh = r.fresh /\ more.kind = r.kind /\ more.of = r.of
  BY DEF Requests

\* A request gets one of the filters it waits for.
LEMMA ProgressWaits ==
  ASSUME WaitsOK, NEW c \in Conns, NEW i \in 1..Len(waits[c]), NEW m \in Wanted(waits[c][i]),
         waits[c][i].left # 1,
         waits' = [waits EXCEPT ![c][i].got = @ \cup {m}, ![c][i].left = @ - 1]
  PROVE  /\ WaitsOK'
         /\ \A d \in Conns : Len(waits'[d]) = Len(waits[d])
         /\ \A d \in Conns : \A j \in 1..Len(waits[d]) :
              /\ waits'[d][j].fresh = waits[d][j].fresh
              /\ waits'[d][j].kind = waits[d][j].kind
              /\ waits'[d][j].of = waits[d][j].of
  <1> DEFINE r == waits[c][i]
             more == [r EXCEPT !.got = @ \cup {m}, !.left = @ - 1]
  <1>1. waits[c] \in Seq(Requests) /\ r \in Requests /\ Outstanding(r)
    BY WaitFacts
  <1>2. /\ r.got \cup {m} \subseteq Asked(r.kind, r.of)
        /\ Cardinality(r.got \cup {m}) + (r.left - 1) = Cardinality(Asked(r.kind, r.of))
    BY <1>1, GotOneMore
  <1>3. /\ more \in Requests /\ Outstanding(more)
        /\ more.fresh = r.fresh /\ more.kind = r.kind /\ more.of = r.of
    <2>1. Asked(r.kind, r.of) \subseteq Nat
      BY <1>1, AskedFacts DEF Requests, Outstanding
    <2>2. r.left \in 1..FilterBatch /\ r.left # 1 /\ FilterBatch \in Nat
      BY <1>1, BoundsAssumption DEF Requests
    <2>3. r.left - 1 \in 1..FilterBatch
      BY <2>2
    <2>4. /\ more \in Requests /\ more.got = r.got \cup {m} /\ more.left = r.left - 1
          /\ more.fresh = r.fresh /\ more.kind = r.kind /\ more.of = r.of
      BY <1>1, <1>2, <2>1, <2>3, UpdatedRequest
    <2> HIDE DEF more
    <2> QED BY <1>1, <1>2, <2>4 DEF Outstanding
  <1>4. waits' = [waits EXCEPT ![c] = [waits[c] EXCEPT ![i] = more]]
    BY <1>1 DEF WaitsOK
  <1> HIDE DEF more
  <1>5. /\ [waits[c] EXCEPT ![i] = more] \in Seq(Requests)
        /\ Len([waits[c] EXCEPT ![i] = more]) = Len(waits[c])
        /\ \A j \in 1..Len(waits[c]) :
             [waits[c] EXCEPT ![i] = more][j] = IF j = i THEN more ELSE waits[c][j]
    BY <1>1, <1>3, ExceptSeq
  <1>6. /\ waits'[c] = [waits[c] EXCEPT ![i] = more]
        /\ \A d \in Conns \ {c} : waits'[d] = waits[d]
        /\ waits' \in [Conns -> Seq(Requests)]
    BY <1>4, <1>5 DEF WaitsOK
  <1>7. \A d \in Conns : \A j \in 1..Len(waits[d]) :
          waits'[d][j] = waits[d][j] \/ (d = c /\ j = i /\ waits'[d][j] = more)
    BY <1>5, <1>6
  <1>8. \A d \in Conns : Len(waits'[d]) = Len(waits[d])
    BY <1>5, <1>6
  <1>9. \A d \in Conns : \A j \in 1..Len(waits'[d]) : Outstanding(waits'[d][j])
    BY <1>3, <1>7, <1>8 DEF WaitsOK
  <1>10. WaitsOK'
    BY <1>6, <1>9 DEF WaitsOK, Outstanding
  <1> QED BY <1>3, <1>7, <1>8, <1>10

\* The goroutines nobody waits for.
LEMMA AbandonedWaits ==
  ASSUME WaitsOK, waits' = Abandoned
  PROVE  /\ WaitsOK'
         /\ \A c \in Conns : Len(waits'[c]) = Len(waits[c])
         /\ \A c \in Conns : \A j \in 1..Len(waits'[c]) : ~waits'[c][j].fresh
  <1>1. ASSUME NEW c \in Conns
        PROVE  /\ waits'[c] \in Seq(Requests) /\ Len(waits'[c]) = Len(waits[c])
               /\ \A j \in 1..Len(waits[c]) : Outstanding(waits'[c][j]) /\ ~waits'[c][j].fresh
    <2> DEFINE q == [i \in 1..Len(waits[c]) |-> [waits[c][i] EXCEPT !.fresh = FALSE]]
    <2>1. waits'[c] = q
      BY DEF Abandoned
    <2>2. Len(waits[c]) \in Nat /\ \A i \in 1..Len(waits[c]) : waits[c][i] \in Requests /\ Outstanding(waits[c][i])
      BY WaitFacts
    <2>3. \A i \in 1..Len(waits[c]) : q[i] \in Requests /\ Outstanding(q[i]) /\ ~q[i].fresh
      BY <2>2 DEF Requests, Outstanding
    <2>4. q \in [1..Len(waits[c]) -> Requests]
      BY <2>3
    <2> HIDE DEF q
    <2>5. q \in Seq(Requests) /\ Len(q) = Len(waits[c])
      BY <2>2, <2>4, IsASeq, LenProperties
    <2> QED BY <2>1, <2>3, <2>5
  <1>2. waits' \in [Conns -> Seq(Requests)]
    BY <1>1 DEF Abandoned
  <1>3. \A c \in Conns : \A j \in 1..Len(waits'[c]) : Outstanding(waits'[c][j])
    BY <1>1
  <1>4. WaitsOK'
    BY <1>2, <1>3 DEF WaitsOK, Outstanding
  <1> QED BY <1>1, <1>4

(***************************************************************************)
(* The inductive invariant                                                 *)
(***************************************************************************)

\* Where syncOnce is; a stage that makes its requests asks someone.
CallOK ==
  /\ stage \in DOMAIN Plan \cup {"idle"} /\ busy \in BOOLEAN
  /\ peers \in Seq(Conns) /\ listed \in Seq(Conns)
  /\ at \in 1..2 /\ about \in Batches \cup {0}
  /\ stage # "idle" => at \in 1..Len(Plan[stage])
  /\ busy => stage # "idle" /\ peers # << >> /\ about \in Batches
  /\ ~busy => ans = << >> /\ at = 1

\* The pinned peer comes first among those asked.
PinnedFirst ==
  /\ pinned \in ToSet(listed) => listed[1] = pinned
  /\ stage \in Parallel /\ pinned \in ToSet(peers) => peers[1] = pinned

\* A request somebody waits for is one of this stage, the only one on its
\* connection, and was not answered.
FreshAre(c) ==
  \A i \in 1..Len(waits[c]) : waits[c][i].fresh =>
    /\ busy /\ c \in ToSet(peers) /\ c \notin DOMAIN ans
    /\ stage \notin Parallel => c = Head(peers)
    /\ waits[c][i].kind = Kind /\ waits[c][i].of = about
    /\ \A j \in 1..Len(waits[c]) : waits[c][j].fresh => j = i

\* Goroutines nobody waits for are on connections that ended.
LiveAre(c) ==
  Contains(pool, c) =>
    /\ Len(waits[c]) <= 1
    /\ \A i \in 1..Len(waits[c]) : waits[c][i].fresh

WaitsAre == \A c \in Conns : FreshAre(c) /\ LiveAre(c)

RequestsInv ==
  /\ pinned \in Pins /\ pool \in Seq(Conns) /\ trouble \in 0..MaxTrouble /\ DOMAIN ans \subseteq Conns
  /\ WireOK /\ WaitsOK /\ CallOK /\ PinnedFirst /\ WaitsAre
  /\ AnswersWhatWasAsked

\* The requests of a stage.
LEMMA PlanFacts ==
  /\ DOMAIN Plan = {"headers", "anchor", "hashes", "filters", "block", "refetchFirst", "refetch", "rescanBlock"}
  /\ \A st \in DOMAIN Plan :
       /\ Len(Plan[st]) \in 1..2 /\ 1 \in 1..Len(Plan[st])
       /\ st \in Parallel => Len(Plan[st]) = 1
       /\ \A i \in 1..Len(Plan[st]) : Plan[st][i] \in {"headers", "cfheaders", "cfilters", "blocks"}
       /\ Following[st] \subseteq DOMAIN Plan \cup {"idle"}
       /\ "headers" \in Following[st] => st = "headers"
  <1> DEFINE kinds == {"headers", "cfheaders", "cfilters", "blocks"}
             Fine(st) ==
               /\ Len(Plan[st]) \in 1..2 /\ 1 \in 1..Len(Plan[st])
               /\ st \in Parallel => Len(Plan[st]) = 1
               /\ \A i \in 1..Len(Plan[st]) : Plan[st][i] \in kinds
  <1>1. DOMAIN Plan = {"headers", "anchor", "hashes", "filters", "block", "refetchFirst", "refetch", "rescanBlock"}
    BY DEF Plan
  <1>2. /\ Plan["headers"] = <<"headers">>
        /\ Plan["anchor"] = <<"cfheaders">>
        /\ Plan["hashes"] = <<"cfheaders">>
        /\ Plan["filters"] = <<"cfilters">>
        /\ Plan["block"] = <<"blocks">>
        /\ Plan["refetchFirst"] = <<"cfheaders", "cfilters">>
        /\ Plan["refetch"] = <<"cfilters">>
        /\ Plan["rescanBlock"] = <<"blocks">>
    BY DEF Plan
  <1>3. \A st \in DOMAIN Plan \ {"refetchFirst"} : \E x \in kinds : Plan[st] = << x >>
    BY <1>1, <1>2
  <1>4. ASSUME NEW st \in DOMAIN Plan \ {"refetchFirst"} PROVE Fine(st)
    <2>1. \A x : Len(<< x >>) = 1 /\ \A i \in 1..1 : << x >>[i] = x
      OBVIOUS
    <2>2. PICK x \in kinds : Plan[st] = << x >>
      BY <1>3
    <2>3. Len(Plan[st]) = 1 /\ \A i \in 1..1 : Plan[st][i] = x
      BY <2>1, <2>2
    <2>4. Len(Plan[st]) \in 1..2 /\ 1 \in 1..Len(Plan[st])
      BY <2>3
    <2> QED BY <2>2, <2>3, <2>4
  <1>5. Fine("refetchFirst")
    <2>1. \A x, y : Len(<< x, y >>) = 2 /\ \A i \in 1..2 : << x, y >>[i] \in {x, y}
      OBVIOUS
    <2>2. "refetchFirst" \notin Parallel
      BY DEF Parallel
    <2>3. Len(Plan["refetchFirst"]) = 2 /\ \A i \in 1..2 : Plan["refetchFirst"][i] \in kinds
      BY <1>2, <2>1
    <2>4. Len(Plan["refetchFirst"]) \in 1..2 /\ 1 \in 1..Len(Plan["refetchFirst"])
      BY <2>3
    <2> QED BY <2>2, <2>3, <2>4
  <1>6. \A st \in DOMAIN Plan : Following[st] \subseteq DOMAIN Plan \cup {"idle"}
    BY <1>1 DEF Following, Rescans
  <1>7. \A st \in DOMAIN Plan : "headers" \in Following[st] => st = "headers"
    BY <1>1 DEF Following, Rescans
  <1> QED BY <1>1, <1>4, <1>5, <1>6, <1>7

\* The lists of peers are made of connections, the pinned one first.
LEMMA OrderedFacts ==
  ASSUME pool \in Seq(Conns), pinned \in Pins
  PROVE  /\ Ordered \in Seq(Conns)
         /\ pinned \in ToSet(Ordered) => Ordered[1] = pinned
         /\ HasPrimary => Ordered # << >> /\ (pinned \in Conns => Ordered[1] = pinned)
  <1> DEFINE a == Keep(pool, {pinned})
             b == Keep(pool, Conns \ {pinned})
  <1>1. /\ a \in Seq(Conns \cap {pinned}) /\ ToSet(a) = ToSet(pool) \cap {pinned}
        /\ b \in Seq(Conns \cap (Conns \ {pinned})) /\ ToSet(b) = ToSet(pool) \cap (Conns \ {pinned})
    BY KeepFacts, KeepElements
  <1>2. a \in Seq(Conns) /\ b \in Seq(Conns)
    <2>1. Conns \cap {pinned} \subseteq Conns /\ Conns \cap (Conns \ {pinned}) \subseteq Conns
      OBVIOUS
    <2> QED BY <1>1, <2>1, SeqMonotone
  <1> HIDE DEF a, b
  <1>3. /\ a \o b \in Seq(Conns) /\ Len(a \o b) = Len(a) + Len(b)
        /\ \A j \in 1..(Len(a) + Len(b)) : (a \o b)[j] = IF j <= Len(a) THEN a[j] ELSE b[j - Len(a)]
    BY <1>2, ConcatProperties
  <1>4. Ordered = a \o b
    BY DEF Ordered, a, b
  <1>5. /\ Len(a) \in Nat /\ Len(b) \in Nat
        /\ \A j \in 1..Len(a) : a[j] \in ToSet(a)
        /\ \A j \in 1..Len(b) : b[j] \in ToSet(b)
        /\ (a = << >> <=> Len(a) = 0) /\ (b = << >> <=> Len(b) = 0)
        /\ (a = << >> <=> ToSet(a) = {}) /\ (b = << >> <=> ToSet(b) = {})
    BY <1>2, SeqElements
  <1>6. ToSet(a) # {} => (a \o b)[1] = pinned
    <2> SUFFICES ASSUME ToSet(a) # {} PROVE (a \o b)[1] = pinned
      OBVIOUS
    <2>1. 1 \in 1..Len(a) /\ 1 \in 1..(Len(a) + Len(b)) /\ 1 <= Len(a)
      BY <1>5
    <2>2. (a \o b)[1] = a[1] /\ a[1] \in ToSet(a)
      BY <1>3, <1>5, <2>1
    <2> QED BY <1>1, <2>2
  <1>7. pinned \in ToSet(Ordered) => ToSet(a) # {}
    <2> SUFFICES ASSUME pinned \in ToSet(a \o b), ToSet(a) = {} PROVE FALSE
      BY <1>4
    <2>1. Len(a) = 0
      BY <1>5
    <2>2. PICK j \in 1..Len(a \o b) : (a \o b)[j] = pinned
      BY <1>3, SeqElements
    <2>3. j \in 1..(Len(a) + Len(b)) /\ j \in 1..Len(b) /\ j - Len(a) = j /\ ~(j <= Len(a))
      BY <1>3, <1>5, <2>1
    <2>4. b[j] = pinned /\ b[j] \in ToSet(b)
      BY <1>3, <1>5, <2>2, <2>3
    <2> QED BY <1>1, <2>4
  <1>8. ASSUME HasPrimary PROVE Ordered # << >> /\ (pinned \in Conns => Ordered[1] = pinned)
    <2>1. /\ ToSet(pool) # {} /\ ToSet(pool) \subseteq Conns
          /\ (pinned = None \/ pinned \in ToSet(pool))
      BY <1>8, SeqElements DEF HasPrimary
    <2>2. ToSet(a) # {} \/ ToSet(b) # {}
      BY <1>1, <2>1
    <2>3. Len(a) + Len(b) # 0
      BY <1>5, <2>2
    <2>4. a \o b # << >>
      BY <1>3, <2>3, SeqElements
    <2>5. pinned \in Conns => ToSet(a) # {}
      BY <1>1, <2>1, ConnsAssumption
    <2> QED BY <1>4, <1>6, <2>4, <2>5
  <1> QED BY <1>3, <1>4, <1>6, <1>7, <1>8

\* Whom a stage asks, the pinned one first when they are asked in parallel.
LEMMA ToAskFacts ==
  ASSUME pool \in Seq(Conns), pinned \in Pins, CallOK, PinnedFirst
  PROVE  /\ ToAsk \in Seq(Conns)
         /\ stage \in Parallel /\ pinned \in ToSet(ToAsk) => ToAsk[1] = pinned
  <1>1. CASE stage = "headers"
    BY <1>1 DEF ToAsk, CallOK, PinnedFirst, Parallel
  <1>2. CASE stage = "filters"
    <2> DEFINE q == Keep(listed, ToSet(pool))
    <2>1. ToAsk = q
      BY <1>2 DEF ToAsk
    <2>2. listed \in Seq(Conns)
      BY DEF CallOK
    <2>3. q \in Seq(Conns \cap ToSet(pool)) /\ ToSet(q) = ToSet(listed) \cap ToSet(pool)
      BY <2>2, KeepFacts, KeepElements
    <2>4. q \in Seq(Conns)
      <3>1. Conns \cap ToSet(pool) \subseteq Conns
        OBVIOUS
      <3> QED BY <2>3, <3>1, SeqMonotone
    <2>5. ASSUME pinned \in ToSet(q) PROVE q[1] = pinned
      <3>1. pinned \in ToSet(listed) /\ pinned \in ToSet(pool)
        BY <2>3, <2>5
      <3>2. listed[1] = pinned /\ listed # << >>
        BY <2>2, <3>1, SeqElements DEF PinnedFirst
      <3> QED BY <2>2, <3>1, <3>2, KeepFirst
    <2> QED BY <2>1, <2>4, <2>5
  <1>3. CASE stage \notin {"headers", "filters"}
    <2>1. ToAsk = Ordered \/ ToAsk = << >>
      BY <1>3 DEF ToAsk
    <2>2. << >> \in Seq(Conns) /\ \A x : x \notin ToSet(<< >>)
      BY DEF ToSet
    <2> QED BY <2>1, <2>2, OrderedFacts
  <1> QED BY <1>1, <1>2, <1>3

(***************************************************************************)
(* One step                                                                *)
(***************************************************************************)

\* A request of a stage has a kind that peers answer.
LEMMA KindFacts ==
  ASSUME CallOK, stage # "idle"
  PROVE  Kind \in {"headers", "cfheaders", "cfilters", "blocks"} /\ Kind \in Kinds
  <1>1. stage \in DOMAIN Plan /\ at \in 1..Len(Plan[stage])
    BY DEF CallOK
  <1>2. \A i \in 1..Len(Plan[stage]) :
          Plan[stage][i] \in {"headers", "cfheaders", "cfilters", "blocks"}
    BY <1>1, PlanFacts
  <1> QED BY <1>1, <1>2 DEF Kind, Kinds

\* Messages move, connections come and go: the requests stay as they are.
LEMMA QuietStep ==
  ASSUME RequestsInv, UNCHANGED <<pinned, waits, call, ans>>,
         pool' \in Seq(Conns), trouble' \in 0..MaxTrouble, WireOK',
         \A c \in Conns : Contains(pool', c) => Contains(pool, c) \/ waits[c] = << >>
  PROVE  RequestsInv'
  <1>1. CallOK' /\ PinnedFirst' /\ WaitsOK' /\ AnswersWhatWasAsked'
    BY DEF RequestsInv, CallOK, PinnedFirst, WaitsOK, Outstanding, AnswersWhatWasAsked, Kind
  <1>2. ASSUME NEW c \in Conns PROVE FreshAre(c)' /\ LiveAre(c)'
    <2>1. FreshAre(c) /\ LiveAre(c)
      BY DEF RequestsInv, WaitsAre
    <2>2. FreshAre(c)'
      BY <2>1 DEF FreshAre, Kind
    <2>3. LiveAre(c)'
      <3>1. CASE waits[c] = << >>
        BY <3>1 DEF LiveAre
      <3>2. CASE waits[c] # << >>
        BY <2>1, <3>2 DEF LiveAre
      <3> QED BY <3>1, <3>2
    <2> QED BY <2>2, <2>3
  <1> QED BY <1>1, <1>2 DEF RequestsInv, WaitsAre

\* A goroutine that ends with an answer took all it asked for.
LEMMA ReturnStep ==
  ASSUME RequestsInv, NEW c \in Conns, NEW i \in 1..Len(waits[c]), NEW ok, NEW got,
         Return(c, i, ok, got), UNCHANGED <<pinned, pool, call>>, WireOK', trouble' \in 0..MaxTrouble,
         ok => got = Asked(waits[c][i].kind, waits[c][i].of)
  PROVE  RequestsInv'
  <1>1. /\ WaitsOK /\ CallOK /\ PinnedFirst /\ pool \in Seq(Conns) /\ pinned \in Pins /\ DOMAIN ans \subseteq Conns
        /\ AnswersWhatWasAsked /\ \A d \in Conns : FreshAre(d) /\ LiveAre(d)
    BY DEF RequestsInv, WaitsAre
  <1>2. /\ WaitsOK'
        /\ \A d \in Conns \ {c} : waits'[d] = waits[d]
        /\ Len(waits'[c]) = Len(waits[c]) - 1
        /\ \A j \in 1..(Len(waits[c]) - 1) :
             waits'[c][j] = IF j < i THEN waits[c][j] ELSE waits[c][j + 1]
    BY <1>1, ReturnWaits
  <1>3. Len(waits[c]) \in Nat
    BY <1>1, WaitFacts
  <1>4. Kind' = Kind
    BY DEF Kind
  <1>5. /\ waits[c][i].fresh => DOMAIN ans' = DOMAIN ans \cup {c} /\ ans'[c] = [ok |-> ok, got |-> got]
                                /\ \A d \in DOMAIN ans \ {c} : ans'[d] = ans[d]
        /\ ~waits[c][i].fresh => ans' = ans
    BY DEF Return
  <1>6. CallOK'
    <2>1. waits[c][i].fresh => busy
      BY <1>1 DEF FreshAre
    <2>2. ~busy' => ans' = ans
      BY <1>5, <2>1
    <2> QED BY <1>1, <2>2 DEF CallOK
  <1>7. PinnedFirst'
    BY <1>1 DEF PinnedFirst
  <1>8. AnswersWhatWasAsked'
    <2>1. CASE waits[c][i].fresh
      <3>1. waits[c][i].kind = Kind /\ waits[c][i].of = about
        BY <1>1, <2>1 DEF FreshAre
      <3> QED BY <1>1, <1>4, <1>5, <2>1, <3>1 DEF AnswersWhatWasAsked
    <2>2. CASE ~waits[c][i].fresh
      BY <1>1, <1>4, <1>5, <2>2 DEF AnswersWhatWasAsked
    <2> QED BY <2>1, <2>2
  <1>9. ASSUME NEW d \in Conns PROVE FreshAre(d)' /\ LiveAre(d)'
    <2>1. CASE d # c
      <3>1. waits'[d] = waits[d] /\ (d \in DOMAIN ans' <=> d \in DOMAIN ans)
        BY <1>2, <1>5, <2>1
      <3>2. FreshAre(d) /\ LiveAre(d)
        BY <1>1
      <3>3. FreshAre(d)'
        BY <1>4, <3>1, <3>2 DEF FreshAre
      <3> QED BY <3>1, <3>2, <3>3 DEF LiveAre
    <2>2. CASE d = c
      <3> DEFINE from(j) == IF j < i THEN j ELSE j + 1
      <3>1. \A j \in 1..Len(waits'[c]) :
              /\ from(j) \in 1..Len(waits[c]) /\ from(j) # i
              /\ waits'[c][j] = waits[c][from(j)]
        BY <1>2, <1>3
      <3>2. \A j, k \in 1..Len(waits'[c]) : from(j) = from(k) => j = k
        BY <1>2, <1>3
      <3> HIDE DEF from
      <3>3. FreshAre(c) /\ LiveAre(c)
        BY <1>1
      <3>4. ASSUME NEW j \in 1..Len(waits'[c]), waits'[c][j].fresh
            PROVE  /\ ans' = ans
                   /\ busy /\ c \in ToSet(peers) /\ c \notin DOMAIN ans
                   /\ stage \notin Parallel => c = Head(peers)
                   /\ waits'[c][j].kind = Kind /\ waits'[c][j].of = about
                   /\ \A k \in 1..Len(waits'[c]) : waits'[c][k].fresh => k = j
        <4>1. waits[c][from(j)].fresh /\ from(j) # i /\ from(j) \in 1..Len(waits[c])
          BY <3>1, <3>4
        <4>2. ~waits[c][i].fresh
          BY <3>3, <4>1 DEF FreshAre
        <4>3. /\ busy /\ c \in ToSet(peers) /\ c \notin DOMAIN ans
              /\ stage \notin Parallel => c = Head(peers)
              /\ waits[c][from(j)].kind = Kind /\ waits[c][from(j)].of = about
              /\ \A k \in 1..Len(waits[c]) : waits[c][k].fresh => k = from(j)
          BY <3>3, <4>1 DEF FreshAre
        <4>4. ASSUME NEW k \in 1..Len(waits'[c]), waits'[c][k].fresh PROVE k = j
          <5>1. from(k) \in 1..Len(waits[c]) /\ waits[c][from(k)].fresh
            BY <3>1, <4>4
          <5>2. from(k) = from(j)
            BY <4>3, <5>1
          <5> QED BY <3>2, <5>2
        <4> QED BY <1>5, <3>1, <4>2, <4>3, <4>4
      <3>5. FreshAre(c)'
        BY <1>4, <3>4 DEF FreshAre
      <3>6. LiveAre(c)'
        <4> SUFFICES ASSUME Contains(pool, c) PROVE Len(waits'[c]) <= 1 /\ \A j \in 1..Len(waits'[c]) : waits'[c][j].fresh
          BY DEF LiveAre
        <4>1. Len(waits[c]) <= 1
          BY <3>3 DEF LiveAre
        <4>2. Len(waits'[c]) <= 0
          BY <1>2, <1>3, <4>1
        <4> QED BY <1>2, <1>3, <4>2
      <3> QED BY <2>2, <3>5, <3>6
    <2> QED BY <2>1, <2>2
  <1>10. DOMAIN ans' \subseteq Conns
    BY <1>1, <1>5
  <1> QED BY <1>1, <1>2, <1>6, <1>7, <1>8, <1>9, <1>10 DEF RequestsInv, WaitsAre

\* A goroutine goes on, or ends.
LEMMA GoroutineStep ==
  ASSUME RequestsInv, NEW c \in Conns, Goroutine(c)
  PROVE  RequestsInv'
  <1>1. PICK i \in 1..Len(waits[c]) : Await(c, i) \/ AwaitNotFound(c, i) \/ TimeOut(c, i) \/ Quit(c, i)
    BY DEF Goroutine
  <1>2. /\ WaitsOK /\ WireOK /\ pool \in Seq(Conns) /\ trouble \in 0..MaxTrouble
        /\ waits[c][i] \in Requests /\ Outstanding(waits[c][i])
    BY WaitFacts DEF RequestsInv
  <1> DEFINE r == waits[c][i]
             m == Head(chan[c][r.kind])
  <1>3. CASE Await(c, i)
    <2>1. Receive(c, r.kind) /\ UNCHANGED <<pinned, pool, line, call, trouble>>
      BY <1>3 DEF Await
    <2>2. r.kind \in Kinds
      BY <1>2 DEF Requests
    <2>3. WireOK'
      BY <1>2, <2>1, <2>2, ReceiveStep
    <2>4. CASE m \in Wanted(r) /\ r.left = 1
      <3>1. Return(c, i, TRUE, r.got \cup {m})
        BY <1>3, <2>4 DEF Await
      <3>2. r.got \cup {m} = Asked(r.kind, r.of)
        BY <1>2, <2>4, GotOneMore
      <3> QED BY <1>2, <2>1, <2>3, <3>1, <3>2, ReturnStep
    <2>5. CASE m \in Wanted(r) /\ r.left # 1
      <3>1. waits' = [waits EXCEPT ![c][i].got = @ \cup {m}, ![c][i].left = @ - 1] /\ ans' = ans
        BY <1>3, <2>5 DEF Await
      <3> HIDE DEF m
      <3>2. /\ WaitsOK'
            /\ \A d \in Conns : Len(waits'[d]) = Len(waits[d])
            /\ \A d \in Conns : \A j \in 1..Len(waits[d]) :
                 /\ waits'[d][j].fresh = waits[d][j].fresh
                 /\ waits'[d][j].kind = waits[d][j].kind
                 /\ waits'[d][j].of = waits[d][j].of
        BY <1>2, <2>5, <3>1, ProgressWaits
      <3>3. Kind' = Kind
        BY <2>1 DEF Kind
      <3>4. ASSUME NEW d \in Conns PROVE FreshAre(d)' /\ LiveAre(d)'
        <4>1. FreshAre(d) /\ LiveAre(d)
          BY DEF RequestsInv, WaitsAre
        <4>2. ASSUME NEW j \in 1..Len(waits[d]), waits[d][j].fresh
              PROVE  /\ busy /\ d \in ToSet(peers) /\ d \notin DOMAIN ans
                     /\ stage \notin Parallel => d = Head(peers)
                     /\ waits'[d][j].kind = Kind /\ waits'[d][j].of = about
                     /\ \A k \in 1..Len(waits[d]) : waits'[d][k].fresh => k = j
          BY <3>2, <4>1, <4>2 DEF FreshAre
        <4>3. \A j \in 1..Len(waits[d]) : waits'[d][j].fresh <=> waits[d][j].fresh
          BY <3>2
        <4>4. Len(waits'[d]) = Len(waits[d])
          BY <3>2
        <4>5. FreshAre(d)'
          BY <2>1, <3>1, <3>3, <4>2, <4>3, <4>4 DEF FreshAre
        <4> QED BY <2>1, <3>2, <4>1, <4>5 DEF LiveAre
      <3>5. CallOK' /\ PinnedFirst' /\ AnswersWhatWasAsked'
        BY <2>1, <3>1, <3>3 DEF RequestsInv, CallOK, PinnedFirst, AnswersWhatWasAsked
      <3> QED BY <2>1, <2>3, <3>1, <3>2, <3>4, <3>5 DEF RequestsInv, WaitsAre
    <2>6. CASE m \notin Wanted(r)
      <3>1. UNCHANGED <<waits, ans>> \/ Return(c, i, FALSE, {})
        BY <1>3, <2>6 DEF Await, Fail
      <3>2. CASE UNCHANGED <<waits, ans>>
        BY <1>2, <2>1, <2>3, <3>2, QuietStep
      <3>3. CASE Return(c, i, FALSE, {})
        BY <1>2, <2>1, <2>3, <3>3, ReturnStep
      <3> QED BY <3>1, <3>2, <3>3
    <2> QED BY <2>4, <2>5, <2>6
  <1>4. CASE AwaitNotFound(c, i)
    <2>1. Receive(c, "notFound") /\ Return(c, i, FALSE, {}) /\ UNCHANGED <<pinned, pool, line, call, trouble>>
      BY <1>4 DEF AwaitNotFound, Fail
    <2>2. WireOK'
      BY <1>2, <2>1, ReceiveStep DEF Kinds
    <2> QED BY <1>2, <2>1, <2>2, ReturnStep
  <1>5. CASE TimeOut(c, i) \/ Quit(c, i)
    <2>1. Return(c, i, FALSE, {}) /\ UNCHANGED <<pinned, pool, wire, call>>
      BY <1>5 DEF TimeOut, Quit, Fail
    <2>2. trouble' \in 0..MaxTrouble
      BY <1>2, <1>5, BoundsAssumption DEF TimeOut, Quit, Trouble
    <2>3. WireOK'
      BY <1>2, <2>1 DEF WireOK, ChanOK, LineOK, StuckOK
    <2> QED BY <2>1, <2>2, <2>3, ReturnStep
  <1> QED BY <1>1, <1>3, <1>4, <1>5

\* No goroutine is waited for, and none waits on a live connection.
NobodyWaits ==
  \A c \in Conns :
    /\ \A i \in 1..Len(waits[c]) : ~waits[c][i].fresh
    /\ Contains(pool, c) => Len(waits[c]) = 0

\* Before a stage makes its requests, and once the only peer asked answered,
\* nobody waits.
LEMMA NobodyFacts ==
  ASSUME RequestsInv, ~busy \/ (stage \notin Parallel /\ Head(peers) \in DOMAIN ans)
  PROVE  NobodyWaits
  <1> SUFFICES ASSUME NEW c \in Conns
               PROVE  /\ \A i \in 1..Len(waits[c]) : ~waits[c][i].fresh
                      /\ Contains(pool, c) => Len(waits[c]) = 0
    BY DEF NobodyWaits
  <1>1. FreshAre(c) /\ LiveAre(c) /\ Len(waits[c]) \in Nat
    BY WaitFacts DEF RequestsInv, WaitsAre
  <1>2. \A i \in 1..Len(waits[c]) : ~waits[c][i].fresh
    BY <1>1 DEF FreshAre
  <1>3. Contains(pool, c) => Len(waits[c]) = 0
    <2> SUFFICES ASSUME Contains(pool, c), Len(waits[c]) # 0 PROVE FALSE
      OBVIOUS
    <2>1. 1 \in 1..Len(waits[c])
      BY <1>1
    <2> QED BY <1>1, <1>2, <2>1 DEF LiveAre
  <1> QED BY <1>2, <1>3

\* When nobody waits, the requests made are the only ones somebody waits for.
LEMMA AskStep ==
  ASSUME WaitsOK, NobodyWaits, pool' = pool, NEW S, NEW kind \in Kinds, NEW k \in Batches,
         Request(S, kind, k), busy', Kind' = kind, about' = k, ans' = << >>,
         \A c \in S : c \in ToSet(peers') /\ (stage' \notin Parallel => c = Head(peers'))
  PROVE  WaitsOK' /\ WaitsAre'
  <1>1. /\ WaitsOK'
        /\ \A c \in Conns \ S : waits'[c] = waits[c]
        /\ \A c \in Conns \cap S :
             /\ Len(waits'[c]) = Len(waits[c]) + 1
             /\ \A j \in 1..Len(waits[c]) : waits'[c][j] = waits[c][j]
             /\ waits'[c][Len(waits[c]) + 1] = NewRequest(kind, k)
    <2>1. WaitsOK'
      BY RequestWaits
    <2>2. \A c \in Conns \ S : waits'[c] = waits[c]
      BY RequestWaits
    <2>3. \A c \in Conns \cap S : Len(waits'[c]) = Len(waits[c]) + 1
      BY RequestWaits
    <2>4. \A c \in Conns \cap S : \A j \in 1..Len(waits[c]) : waits'[c][j] = waits[c][j]
      BY RequestWaits
    <2>5. \A c \in Conns \cap S : waits'[c][Len(waits[c]) + 1] = NewRequest(kind, k)
      BY RequestWaits
    <2> QED BY <2>1, <2>2, <2>3, <2>4, <2>5
  <1>2. ASSUME NEW c \in Conns PROVE FreshAre(c)' /\ LiveAre(c)'
    <2>1. /\ Len(waits[c]) \in Nat
          /\ \A i \in 1..Len(waits[c]) : ~waits[c][i].fresh
          /\ Contains(pool, c) => Len(waits[c]) = 0
      BY WaitFacts DEF NobodyWaits
    <2>2. CASE c \notin S
      <3>1. waits'[c] = waits[c]
        BY <1>1, <2>2
      <3> QED BY <2>1, <3>1 DEF FreshAre, LiveAre
    <2>3. CASE c \in S
      <3> DEFINE n == Len(waits[c]) + 1
      <3>1. /\ Len(waits'[c]) = n /\ n \in Nat /\ n \in 1..n
            /\ waits'[c][n].fresh /\ waits'[c][n].kind = kind /\ waits'[c][n].of = k
        BY <1>1, <2>1, <2>3 DEF NewRequest
      <3>2. \A j \in 1..n : waits'[c][j].fresh => j = n
        <4> SUFFICES ASSUME NEW j \in 1..n, waits'[c][j].fresh, j # n PROVE FALSE
          OBVIOUS
        <4>1. j \in 1..Len(waits[c])
          BY <2>1
        <4> QED BY <1>1, <2>1, <2>3, <4>1
      <3>3. c \in ToSet(peers') /\ (stage' \notin Parallel => c = Head(peers')) /\ c \notin DOMAIN ans'
        BY <2>3
      <3>4. Contains(pool', c) => n = 1
        BY <2>1
      <3> HIDE DEF n
      <3>5. FreshAre(c)'
        BY <3>1, <3>2, <3>3 DEF FreshAre
      <3>6. LiveAre(c)'
        BY <3>1, <3>4 DEF LiveAre
      <3> QED BY <3>5, <3>6
    <2> QED BY <2>2, <2>3
  <1> QED BY <1>1, <1>2 DEF WaitsAre

\* A stage ends when nobody waits.
LEMMA EndStep ==
  ASSUME RequestsInv, NEW next \in DOMAIN Plan \cup {"idle"}, NEW list \in Seq(Conns),
         pinned \in ToSet(list) => list[1] = pinned,
         next = "headers" => stage = "headers",
         EndStage(next, list), pinned' = pinned, pool' \in Seq(Conns), trouble' \in 0..MaxTrouble,
         WireOK', WaitsOK', NobodyWaits'
  PROVE  RequestsInv'
  <1>1. CallOK /\ PinnedFirst /\ pinned \in Pins
    BY DEF RequestsInv
  <1>2. /\ stage' = next
        /\ listed' = IF next \in {"filters", "block"} THEN list ELSE << >>
        /\ busy' = FALSE /\ at' = 1 /\ about' = 0 /\ ans' = << >>
        /\ peers' = IF next = "headers" THEN peers ELSE << >>
    BY DEF EndStage
  <1>3. << >> \in Seq(Conns) /\ DOMAIN << >> = {} /\ \A x : x \notin ToSet(<< >>)
    BY DEF ToSet
  <1>4. CallOK'
    <2>1. peers' \in Seq(Conns) /\ listed' \in Seq(Conns)
      BY <1>1, <1>2, <1>3 DEF CallOK
    <2>2. \A st \in DOMAIN Plan : 1 \in 1..Len(Plan[st])
      BY PlanFacts
    <2>3. stage' # "idle" => at' \in 1..Len(Plan[stage'])
      BY <1>2, <2>2
    <2>4. ~busy' /\ busy' \in BOOLEAN
      BY <1>2
    <2>6. at' \in 1..2 /\ about' \in Batches \cup {0}
      BY <1>2
    <2>5. stage' \in DOMAIN Plan \cup {"idle"} /\ at' = 1 /\ ans' = << >>
      BY <1>2
    <2> QED BY <2>1, <2>3, <2>4, <2>5, <2>6 DEF CallOK
  <1>5. PinnedFirst'
    <2>1. pinned \in ToSet(listed') => listed'[1] = pinned
      BY <1>2, <1>3
    <2>2. stage' \in Parallel /\ pinned \in ToSet(peers') => peers'[1] = pinned
      BY <1>1, <1>2, <1>3 DEF PinnedFirst, Parallel
    <2> QED BY <2>1, <2>2 DEF PinnedFirst
  <1>6. WaitsAre'
    <2>1. ASSUME NEW c \in Conns PROVE FreshAre(c)' /\ LiveAre(c)'
      <3>1. /\ \A i \in 1..Len(waits'[c]) : ~waits'[c][i].fresh
            /\ Contains(pool', c) => Len(waits'[c]) = 0
        BY DEF NobodyWaits
      <3> QED BY <3>1 DEF FreshAre, LiveAre
    <2> QED BY <2>1 DEF WaitsAre
  <1>7. AnswersWhatWasAsked' /\ DOMAIN ans' \subseteq Conns
    BY <1>2, <1>3 DEF AnswersWhatWasAsked
  <1> QED BY <1>1, <1>4, <1>5, <1>6, <1>7 DEF RequestsInv

\* A round begins.
LEMMA BeginRoundStep ==
  ASSUME RequestsInv, BeginRound
  PROVE  RequestsInv'
  <1>1. /\ CallOK /\ PinnedFirst /\ pinned \in Pins /\ pool \in Seq(Conns) /\ WaitsOK /\ WaitsAre /\ WireOK
        /\ AnswersWhatWasAsked /\ DOMAIN ans \subseteq Conns /\ trouble \in 0..MaxTrouble
    BY DEF RequestsInv
  <1>2. /\ stage = "idle" /\ HasPrimary /\ stage' = "headers" /\ peers' = <<Ordered[1]>>
        /\ UNCHANGED <<pinned, pool, line, chan, stuck, waits, busy, at, about, ans, listed, trouble>>
    BY DEF BeginRound
  <1>3. /\ Ordered \in Seq(Conns) /\ Ordered # << >>
        /\ pinned \in Conns => Ordered[1] = pinned
    BY <1>1, <1>2, OrderedFacts
  <1>4. Ordered[1] \in Conns
    BY <1>3, SeqElements
  <1>5. peers' \in Seq(Conns) /\ peers'[1] = Ordered[1] /\ ToSet(peers') = {Ordered[1]}
    BY <1>2, <1>4 DEF ToSet
  <1>6. ~busy
    BY <1>1, <1>2 DEF CallOK
  <1>7. CallOK'
    <2>1. "headers" \in DOMAIN Plan
      BY PlanFacts
    <2>2. 1 \in 1..Len(Plan["headers"])
      BY <2>1, PlanFacts
    <2>3. ~busy' /\ busy' \in BOOLEAN /\ at' = 1 /\ about' \in Batches \cup {0} /\ ans' = << >>
      BY <1>1, <1>2, <1>6 DEF CallOK
    <2>4. stage' \in DOMAIN Plan \cup {"idle"} /\ at' \in 1..Len(Plan[stage']) /\ at' \in 1..2
      BY <1>2, <2>1, <2>2, <2>3
    <2>5. listed' \in Seq(Conns)
      BY <1>1, <1>2 DEF CallOK
    <2> QED BY <1>5, <2>3, <2>4, <2>5 DEF CallOK
  <1>8. PinnedFirst'
    BY <1>1, <1>2, <1>3, <1>4, <1>5 DEF PinnedFirst
  <1>9. WaitsAre'
    <2>1. NobodyWaits
      BY <1>6, NobodyFacts
    <2> QED BY <1>2, <2>1 DEF NobodyWaits, WaitsAre, FreshAre, LiveAre
  <1>10. AnswersWhatWasAsked'
    BY <1>1, <1>2, <1>6 DEF AnswersWhatWasAsked, CallOK
  <1>11. WaitsOK' /\ WireOK'
    BY <1>1, <1>2 DEF WaitsOK, Outstanding, WireOK, ChanOK, LineOK, StuckOK
  <1> QED BY <1>1, <1>2, <1>7, <1>8, <1>9, <1>10, <1>11 DEF RequestsInv

\* The stage goes on to ask peers.
LEMMA AskingStep ==
  ASSUME RequestsInv, NobodyWaits, NEW S, NEW kind \in {"headers", "cfheaders", "cfilters", "blocks"},
         NEW k \in Batches, Request(S, kind, k), UNCHANGED <<pinned, pool, stage, listed, trouble>>,
         stage # "idle", busy' = TRUE, peers' \in Seq(Conns), peers' # << >>,
         at' \in 1..Len(Plan[stage]), Plan[stage][at'] = kind, about' = k, ans' = << >>,
         stage \in Parallel /\ pinned \in ToSet(peers') => peers'[1] = pinned,
         \A c \in S : c \in ToSet(peers') /\ (stage \notin Parallel => c = Head(peers'))
  PROVE  RequestsInv'
  <1>1. /\ CallOK /\ PinnedFirst /\ pinned \in Pins /\ pool \in Seq(Conns) /\ WaitsOK /\ WireOK
        /\ trouble \in 0..MaxTrouble
    BY DEF RequestsInv
  <1>2. kind \in Kinds
    BY DEF Kinds
  <1>3. busy' /\ busy' \in BOOLEAN
    OBVIOUS
  <1>4. CallOK'
    <2>1. Len(Plan[stage]) \in 1..2
      BY <1>1, PlanFacts DEF CallOK
    <2>2. at' \in 1..2
      BY <2>1
    <2> QED BY <1>1, <1>3, <2>2 DEF CallOK
  <1>5. PinnedFirst'
    BY <1>1 DEF PinnedFirst
  <1>6. WireOK'
    BY <1>1, RequestWire
  <1>7. Kind' = kind
    BY DEF Kind
  <1>8. \A c \in S : c \in ToSet(peers') /\ (stage' \notin Parallel => c = Head(peers'))
    OBVIOUS
  <1>9. WaitsOK' /\ WaitsAre'
    BY <1>1, <1>2, <1>3, <1>7, <1>8, AskStep
  <1>10. AnswersWhatWasAsked' /\ DOMAIN ans' \subseteq Conns
    BY DEF AnswersWhatWasAsked
  <1> QED BY <1>1, <1>4, <1>5, <1>6, <1>9, <1>10 DEF RequestsInv

\* A stage begins.
LEMMA BeginStageStep ==
  ASSUME RequestsInv, BeginStage
  PROVE  RequestsInv'
  <1>1. /\ CallOK /\ PinnedFirst /\ pinned \in Pins /\ pool \in Seq(Conns) /\ WaitsOK /\ WireOK
        /\ trouble \in 0..MaxTrouble
    BY DEF RequestsInv
  <1>2. stage # "idle" /\ ~busy /\ UNCHANGED <<pinned, pool, trouble>>
    BY DEF BeginStage
  <1>3. NobodyWaits
    BY <1>2, NobodyFacts
  <1>4. ToAsk \in Seq(Conns) /\ (stage \in Parallel /\ pinned \in ToSet(ToAsk) => ToAsk[1] = pinned)
    BY <1>1, ToAskFacts
  <1>5. CASE ToAsk = << >>
    <2> DEFINE next == IF stage = "anchor" THEN "hashes" ELSE "idle"
    <2>1. EndStage(next, << >>) /\ UNCHANGED <<wire, waits>>
      BY <1>5 DEF BeginStage
    <2>2. next \in DOMAIN Plan \cup {"idle"} /\ next # "headers"
      BY PlanFacts
    <2>3. WireOK' /\ WaitsOK' /\ NobodyWaits'
      BY <1>1, <1>2, <1>3, <2>1
         DEF WireOK, ChanOK, LineOK, StuckOK, WaitsOK, Outstanding, NobodyWaits
    <2>4. << >> \in Seq(Conns) /\ \A x : x \notin ToSet(<< >>)
      BY DEF ToSet
    <2> HIDE DEF next
    <2> QED BY <1>1, <1>2, <2>1, <2>2, <2>3, <2>4, EndStep
  <1>6. CASE ToAsk # << >>
    <2> DEFINE S == IF stage \in Parallel THEN ToSet(ToAsk) ELSE {ToAsk[1]}
    <2>1. PICK k \in Batches :
            /\ Request(S, Kind, k)
            /\ busy' = TRUE /\ peers' = ToAsk /\ about' = k
            /\ UNCHANGED <<stage, at, ans, listed>>
      BY <1>6 DEF BeginStage
    <2>2. Kind \in {"headers", "cfheaders", "cfilters", "blocks"}
      BY <1>1, <1>2, KindFacts
    <2>3. at' \in 1..Len(Plan[stage]) /\ Plan[stage][at'] = Kind /\ ans' = << >>
      BY <1>1, <1>2, <2>1 DEF CallOK, Kind
    <2>4. ToAsk[1] \in ToSet(ToAsk) /\ ToAsk[1] = Head(ToAsk)
      BY <1>4, <1>6, SeqElements
    <2>5. \A c \in S : c \in ToSet(peers') /\ (stage \notin Parallel => c = Head(peers'))
      BY <2>1, <2>4
    <2>6. stage \in Parallel /\ pinned \in ToSet(peers') => peers'[1] = pinned
      BY <1>4, <2>1
    <2> HIDE DEF S
    <2> QED BY <1>2, <1>3, <1>4, <1>6, <2>1, <2>2, <2>3, <2>5, <2>6, AskingStep
  <1> QED BY <1>5, <1>6

\* A parallel request returns: who did not answer is dropped, unless it is the
\* pinned peer, which is waited for.
LEMMA FanOutStep ==
  ASSUME RequestsInv, FanOut
  PROVE  RequestsInv'
  <1> DEFINE good == {c \in Conns : Succeeded(c)}
             ok == Keep(peers, good)
             gone == Drop(Failing(ToSet(peers)))
  <1>1. /\ CallOK /\ PinnedFirst /\ pinned \in Pins /\ pool \in Seq(Conns) /\ WaitsOK /\ WireOK
        /\ trouble \in 0..MaxTrouble /\ \A c \in Conns : FreshAre(c) /\ LiveAre(c)
    BY DEF RequestsInv, WaitsAre
  <1>2. /\ busy /\ stage \in Parallel /\ Close(gone) /\ waits' = Abandoned
        /\ UNCHANGED <<pinned, chan>>
        /\ DOMAIN ans = ToSet(peers) \/ Paced
    BY DEF FanOut
  <1>3. stage \in DOMAIN Plan /\ peers \in Seq(Conns) /\ listed \in Seq(Conns)
    BY <1>1, <1>2 DEF CallOK
  <1>4. trouble' \in 0..MaxTrouble
    BY <1>1, BoundsAssumption DEF FanOut, Trouble
  <1>5. /\ LineOK' /\ StuckOK' /\ pool' \in Seq(Conns)
        /\ \A c \in Conns : Contains(pool', c) <=> Contains(pool, c) /\ c \notin gone
    BY <1>1, <1>2, CloseStep DEF WireOK
  <1>6. WireOK'
    BY <1>1, <1>2, <1>5 DEF WireOK, ChanOK
  <1>7. /\ WaitsOK'
        /\ \A c \in Conns : Len(waits'[c]) = Len(waits[c])
        /\ \A c \in Conns : \A j \in 1..Len(waits'[c]) : ~waits'[c][j].fresh
    BY <1>1, <1>2, AbandonedWaits
  <1>8. NobodyWaits'
    <2>1. ASSUME NEW c \in Conns, Contains(pool', c), Len(waits[c]) # 0 PROVE FALSE
      <3>1. Contains(pool, c) /\ c \notin gone
        BY <1>5, <2>1
      <3>2. 1 \in 1..Len(waits[c])
        BY <1>1, <2>1, WaitFacts
      <3>3. c \in ToSet(peers) /\ c \notin DOMAIN ans
        BY <1>1, <3>1, <3>2 DEF FreshAre, LiveAre
      <3>4. c = pinned
        BY <3>1, <3>3 DEF Drop, Failing, Succeeded
      <3>5. peers[1] = c
        BY <1>1, <1>2, <3>3, <3>4 DEF PinnedFirst
      <3> QED BY <1>2, <3>3, <3>5 DEF Paced
    <2> QED BY <1>7, <2>1 DEF NobodyWaits
  <1>9. << >> \in Seq(Conns) /\ \A x : x \notin ToSet(<< >>)
    BY DEF ToSet
  <1>10. CASE EndStage("idle", << >>)
    BY <1>2, <1>4, <1>5, <1>6, <1>7, <1>8, <1>9, <1>10, EndStep
  <1>11. CASE /\ stage = "anchor" \/ (ok # << >> /\ RequirePrimary(ok))
              /\ \E next \in Following[stage] : EndStage(next, IF stage = "hashes" THEN ok ELSE listed)
    <2> DEFINE list == IF stage = "hashes" THEN ok ELSE listed
    <2>1. PICK next \in Following[stage] : EndStage(next, list)
      BY <1>11
    <2>2. next \in DOMAIN Plan \cup {"idle"} /\ (next = "headers" => stage = "headers")
      BY <1>3, PlanFacts
    <2>3. ok \in Seq(Conns)
      <3>1. ok \in Seq(Conns \cap good) /\ Conns \cap good \subseteq Conns
        BY <1>3, KeepFacts
      <3> QED BY <3>1, SeqMonotone
    <2>4. list \in Seq(Conns)
      BY <1>3, <2>3
    <2>5. pinned \in ToSet(list) => list[1] = pinned
      <3>1. CASE stage = "hashes"
        <4>1. RequirePrimary(ok)
          BY <1>11, <3>1
        <4>2. pinned \in ToSet(ok) => pinned # None
          BY <2>3, ConnsAssumption, SeqElements
        <4> QED BY <3>1, <4>1, <4>2 DEF RequirePrimary
      <3>2. CASE stage # "hashes"
        BY <1>1, <3>2 DEF PinnedFirst
      <3> QED BY <3>1, <3>2
    <2> HIDE DEF list
    <2> QED BY <1>2, <1>4, <1>5, <1>6, <1>7, <1>8, <2>1, <2>2, <2>4, <2>5, EndStep
  <1> QED BY <1>10, <1>11 DEF FanOut

\* The next request of a stage that asks one peer after the other.
LEMMA NextPeerStep ==
  ASSUME RequestsInv, NextPeer
  PROVE  RequestsInv'
  <1> DEFINE c == Head(peers)
  <1>1. /\ CallOK /\ PinnedFirst /\ pinned \in Pins /\ pool \in Seq(Conns) /\ WaitsOK /\ WireOK
        /\ trouble \in 0..MaxTrouble
    BY DEF RequestsInv
  <1>2. busy /\ stage \notin Parallel /\ c \in DOMAIN ans /\ UNCHANGED <<pinned, pool, trouble>>
    BY DEF NextPeer
  <1>3. NobodyWaits
    BY <1>2, NobodyFacts
  <1>4. /\ stage \in DOMAIN Plan /\ stage # "idle" /\ peers \in Seq(Conns) /\ peers # << >>
        /\ listed \in Seq(Conns) /\ about \in Batches /\ at \in 1..Len(Plan[stage])
    BY <1>1, <1>2 DEF CallOK
  <1>5. /\ \A i \in 1..Len(Plan[stage]) : Plan[stage][i] \in {"headers", "cfheaders", "cfilters", "blocks"}
        /\ 1 \in 1..Len(Plan[stage])
    BY <1>4, PlanFacts
  <1>6. c \in ToSet(peers)
    BY <1>4, SeqElements
  <1>7. CASE /\ at < Len(Plan[stage])
             /\ at' = at + 1
             /\ Request({c}, Plan[stage][at + 1], about)
             /\ ans' = << >>
             /\ UNCHANGED <<stage, busy, peers, about, listed>>
    <2>1. at' \in 1..Len(Plan[stage])
      <3>1. Len(Plan[stage]) \in Nat /\ at \in Nat
        BY <1>4, PlanFacts
      <3> QED BY <1>4, <1>7, <3>1
    <2>2. Plan[stage][at'] \in {"headers", "cfheaders", "cfilters", "blocks"}
      BY <1>5, <2>1
    <2>3. busy' = TRUE
      BY <1>1, <1>2, <1>7 DEF CallOK
    <2>4. /\ Request({c}, Plan[stage][at'], about) /\ peers' = peers /\ about' = about /\ ans' = << >>
          /\ UNCHANGED <<pinned, pool, stage, listed, trouble>>
      BY <1>2, <1>7
    <2>5. \A x \in {c} : x \in ToSet(peers') /\ (stage \notin Parallel => x = Head(peers'))
      BY <1>6, <2>4
    <2> HIDE DEF c
    <2> QED BY <1>2, <1>3, <1>4, <2>1, <2>2, <2>3, <2>4, <2>5, AskingStep
  <1>8. CASE /\ \E next \in Following[stage] : EndStage(next, listed)
             /\ UNCHANGED <<wire, waits>>
    <2>1. PICK next \in Following[stage] : EndStage(next, listed)
      BY <1>8
    <2>2. next \in DOMAIN Plan \cup {"idle"} /\ (next = "headers" => stage = "headers")
      BY <1>4, PlanFacts
    <2>3. WireOK' /\ WaitsOK' /\ NobodyWaits'
      BY <1>1, <1>2, <1>3, <1>8
         DEF WireOK, ChanOK, LineOK, StuckOK, WaitsOK, Outstanding, NobodyWaits
    <2>4. pinned \in ToSet(listed) => listed[1] = pinned
      BY <1>1 DEF PinnedFirst
    <2> QED BY <1>1, <1>2, <1>4, <2>1, <2>2, <2>3, <2>4, EndStep
  <1>9. CASE /\ Len(peers) > 1
             /\ at' = 1
             /\ peers' = Tail(peers)
             /\ Request({peers[2]}, Plan[stage][1], about)
             /\ ans' = << >>
             /\ UNCHANGED <<stage, busy, about, listed>>
    <2>1. busy' = TRUE
      BY <1>1, <1>2, <1>9 DEF CallOK
    <2>2. /\ Tail(peers) \in Seq(Conns) /\ Len(Tail(peers)) = Len(peers) - 1
          /\ \A i \in 1..Len(Tail(peers)) : Tail(peers)[i] = peers[i + 1]
      BY <1>4, HeadTailProperties
    <2>3. Len(peers) \in Nat /\ 1 \in 1..Len(Tail(peers))
      BY <1>4, <1>9, <2>2, LenProperties
    <2>4. Tail(peers) # << >> /\ peers[2] = Tail(peers)[1] /\ Tail(peers)[1] \in ToSet(Tail(peers))
      <3>1. Tail(peers)[1] = peers[1 + 1] /\ 1 + 1 = 2
        BY <2>2, <2>3
      <3>2. Tail(peers)[1] \in ToSet(Tail(peers))
        BY <2>2, <2>3, SeqElements
      <3>3. Tail(peers) # << >>
        <4>1. ToSet(Tail(peers)) # {}
          BY <3>2
        <4> QED BY <2>2, <4>1, SeqElements
      <3> QED BY <3>1, <3>2, <3>3
    <2>5. peers[2] = Head(Tail(peers))
      BY <2>2, <2>4
    <2>6. \A x \in {peers[2]} : x \in ToSet(peers') /\ (stage \notin Parallel => x = Head(peers'))
      BY <1>9, <2>4, <2>5
    <2>7. /\ Request({peers[2]}, Plan[stage][1], about) /\ at' = 1 /\ about' = about /\ ans' = << >>
          /\ UNCHANGED <<pinned, pool, stage, listed, trouble>>
          /\ peers' \in Seq(Conns) /\ peers' # << >>
      BY <1>2, <1>9, <2>2, <2>4
    <2>8. at' \in 1..Len(Plan[stage]) /\ Plan[stage][at'] = Plan[stage][1]
          /\ Plan[stage][1] \in {"headers", "cfheaders", "cfilters", "blocks"}
      BY <1>5, <2>7
    <2> QED BY <1>2, <1>3, <1>4, <2>1, <2>6, <2>7, <2>8, AskingStep
  <1>10. CASE EndStage("idle", << >>) /\ UNCHANGED <<wire, waits>>
    <2>1. WireOK' /\ WaitsOK' /\ NobodyWaits'
      BY <1>1, <1>2, <1>3, <1>10
         DEF WireOK, ChanOK, LineOK, StuckOK, WaitsOK, Outstanding, NobodyWaits
    <2>2. << >> \in Seq(Conns) /\ \A x : x \notin ToSet(<< >>)
      BY DEF ToSet
    <2> QED BY <1>1, <1>2, <1>10, <2>1, <2>2, EndStep
  <1> QED BY <1>7, <1>8, <1>9, <1>10 DEF NextPeer

\* A step of a connection.
LEMMA ConnectionStep ==
  ASSUME RequestsInv, NEW c \in Conns, Join(c) \/ Leave(c) \/ MissTransaction(c) \/ Read(c)
  PROVE  RequestsInv'
  <1>1. /\ pool \in Seq(Conns) /\ WireOK /\ trouble \in 0..MaxTrouble
    BY DEF RequestsInv
  <1>2. UNCHANGED <<pinned, waits, call, ans>>
    BY DEF Join, Leave, MissTransaction, Read
  <1>3. trouble' \in 0..MaxTrouble
    BY <1>1, BoundsAssumption DEF Join, Leave, MissTransaction, Read, Trouble
  <1>4. CASE Join(c)
    <2>1. pool' = Append(pool, c) /\ waits[c] = << >> /\ UNCHANGED <<line, stuck>>
          /\ chan' = [chan EXCEPT ![c] = [kind \in Kinds |-> << >>]]
      BY <1>4 DEF Join
    <2>2. /\ pool' \in Seq(Conns) /\ Len(pool') = Len(pool) + 1
          /\ \A i \in 1..Len(pool) : pool'[i] = pool[i]
          /\ pool'[Len(pool) + 1] = c
      BY <1>1, <2>1, AppendProperties
    <2>3. \A d \in Conns : Contains(pool', d) => Contains(pool, d) \/ d = c
      <3> SUFFICES ASSUME NEW d \in Conns, Contains(pool', d), d # c PROVE Contains(pool, d)
        OBVIOUS
      <3>1. PICK i \in 1..Len(pool') : pool'[i] = d
        BY <2>2, SeqElements
      <3>2. Len(pool) \in Nat
        BY <1>1, LenProperties
      <3>3. i \in 1..Len(pool)
        BY <2>2, <3>1, <3>2
      <3>4. pool[i] = d
        BY <2>2, <3>1, <3>3
      <3> QED BY <1>1, <3>3, <3>4, SeqElements
    <2>4. ChanOK'
      <3>1. << >> \in Seq(Nat) /\ Len(<< >>) = 0 /\ \A kind \in Kinds : 0 <= Room[kind]
        BY BoundsAssumption
      <3>2. [kind \in Kinds |-> << >>] \in [Kinds -> Seq(Nat)]
        BY <3>1
      <3>3. chan' \in [Conns -> [Kinds -> Seq(Nat)]]
        BY <1>1, <2>1, <3>2 DEF WireOK, ChanOK
      <3>4. \A d \in Conns : \A kind \in Kinds : chan'[d][kind] = << >> \/ chan'[d][kind] = chan[d][kind]
        BY <1>1, <2>1 DEF WireOK, ChanOK
      <3> QED BY <1>1, <3>1, <3>3, <3>4 DEF WireOK, ChanOK
    <2>5. WireOK'
      BY <1>1, <2>1, <2>4 DEF WireOK, LineOK, StuckOK
    <2> QED BY <1>2, <1>3, <2>1, <2>2, <2>3, <2>5, QuietStep
  <1>5. CASE Leave(c)
    <2>1. Close({c}) /\ chan' = chan
      BY <1>5 DEF Leave
    <2>2. /\ LineOK' /\ StuckOK' /\ pool' \in Seq(Conns)
          /\ \A d \in Conns : Contains(pool', d) <=> Contains(pool, d) /\ d \notin {c}
      BY <1>1, <2>1, CloseStep DEF WireOK
    <2>3. WireOK'
      BY <1>1, <2>1, <2>2 DEF WireOK, ChanOK
    <2> QED BY <1>2, <1>3, <2>2, <2>3, QuietStep
  <1>6. CASE MissTransaction(c)
    <2> DEFINE m == [kind |-> "notFound", of |-> 0]
    <2>1. /\ Len(line[c]) < MaxLine /\ line' = [line EXCEPT ![c] = Append(@, m)]
          /\ UNCHANGED <<pool, chan, stuck>>
      BY <1>6 DEF MissTransaction
    <2>2. m \in Messages /\ line[c] \in Seq(Messages)
      <3>1. m \in {[kind |-> "headers", of |-> 0], m}
        OBVIOUS
      <3>2. m \in Messages
        BY <3>1 DEF Messages
      <3> QED BY <1>1, <3>2 DEF WireOK, LineOK
    <2> HIDE DEF m
    <2>3. Append(line[c], m) \in Seq(Messages) /\ Len(Append(line[c], m)) = Len(line[c]) + 1
      BY <2>2, AppendProperties
    <2>4. Len(Append(line[c], m)) <= MaxLine
      <3>1. Len(line[c]) \in Nat
        BY <2>2, LenProperties
      <3> QED BY <2>1, <2>3, <3>1, BoundsAssumption
    <2>5. LineOK'
      BY <1>1, <2>1, <2>3, <2>4 DEF WireOK, LineOK
    <2>6. WireOK'
      BY <1>1, <2>1, <2>5 DEF WireOK, ChanOK, StuckOK
    <2> QED BY <1>1, <1>2, <1>3, <2>1, <2>6, QuietStep
  <1>7. CASE Read(c)
    <2>1. WireOK' /\ pool' = pool
      BY <1>1, <1>7, ReadStep DEF Read
    <2> QED BY <1>1, <1>2, <1>3, <2>1, QuietStep
  <1> QED BY <1>4, <1>5, <1>6, <1>7

\* Every step preserves the invariant.
LEMMA RequestsStep ==
  ASSUME RequestsInv, [Next]_vars
  PROVE  RequestsInv'
  <1>1. CASE UNCHANGED vars
    <2>1. /\ pool \in Seq(Conns) /\ WireOK /\ trouble \in 0..MaxTrouble
      BY DEF RequestsInv
    <2>2. WireOK'
      BY <1>1, <2>1 DEF WireOK, ChanOK, LineOK, StuckOK
    <2> QED BY <1>1, <2>1, <2>2, QuietStep
  <1>2. CASE SyncLoop
    BY <1>2, BeginRoundStep, BeginStageStep, FanOutStep, NextPeerStep DEF SyncLoop
  <1>3. ASSUME NEW c \in Conns, Join(c) \/ Leave(c) \/ MissTransaction(c) \/ Read(c) \/ Goroutine(c)
        PROVE  RequestsInv'
    BY <1>3, ConnectionStep, GoroutineStep
  <1> QED BY <1>1, <1>2, <1>3 DEF Next

\* The invariant holds at the start.
LEMMA RequestsInit == Init => RequestsInv
  <1> SUFFICES ASSUME Init PROVE RequestsInv
    OBVIOUS
  <1>1. /\ pinned \in Pins /\ pool = << >> /\ stage = "idle" /\ busy = FALSE
        /\ peers = << >> /\ at = 1 /\ about = 0 /\ ans = << >> /\ listed = << >> /\ trouble = MaxTrouble
        /\ line = [c \in Conns |-> << >>] /\ stuck = [c \in Conns |-> None]
        /\ chan = [c \in Conns |-> [kind \in Kinds |-> << >>]]
        /\ waits = [c \in Conns |-> << >>]
    BY DEF Init
  <1>2. /\ \A S : << >> \in Seq(S)
        /\ Len(<< >>) = 0 /\ DOMAIN << >> = {} /\ 1..0 = {}
        /\ \A x : x \notin ToSet(<< >>)
    BY DEF ToSet
  <1>3. 0 <= MaxLine /\ MaxTrouble \in 0..MaxTrouble /\ \A kind \in Kinds : 0 <= Room[kind]
    BY BoundsAssumption
  <1>4. ChanOK /\ LineOK /\ StuckOK
    BY <1>1, <1>2, <1>3 DEF ChanOK, LineOK, StuckOK
  <1>5. WaitsOK
    BY <1>1, <1>2 DEF WaitsOK
  <1>6. CallOK
    <2>1. ~busy /\ busy \in BOOLEAN
      BY <1>1
    <2>2. at \in 1..2 /\ about \in Batches \cup {0}
      BY <1>1
    <2> QED BY <1>1, <1>2, <2>1, <2>2 DEF CallOK
  <1>7. PinnedFirst
    BY <1>1, <1>2 DEF PinnedFirst
  <1>8. \A c \in Conns : FreshAre(c) /\ LiveAre(c)
    BY <1>1, <1>2 DEF FreshAre, LiveAre
  <1>9. AnswersWhatWasAsked
    BY <1>1, <1>2 DEF AnswersWhatWasAsked
  <1> QED BY <1>1, <1>2, <1>3, <1>4, <1>5, <1>6, <1>7, <1>8, <1>9 DEF RequestsInv, WireOK, WaitsAre

\* The invariant holds of every reachable state.
LEMMA RequestsInvariant == Spec => []RequestsInv
  <1>1. RequestsInv /\ [Next]_vars => RequestsInv'
    BY RequestsStep
  <1> QED BY <1>1, RequestsInit, PTL DEF Spec

\* Every variable keeps its type, and the channels of a connection never hold
\* more than their capacity (deliver, peers.go).
THEOREM RequestsTypes == Spec => []TypeOK
  <1>1. RequestsInv => TypeOK
    BY DEF RequestsInv, WireOK, ChanOK, LineOK, StuckOK, WaitsOK, CallOK, TypeOK
  <1> QED BY <1>1, RequestsInvariant, PTL

\* No two requests wait on one live connection: fanOut drops the stragglers,
\* and waits for the pinned peer, which stays (fanOut, conn.drop).
THEOREM OneRequestAtATime == Spec => []OneRequestEach
  <1>1. RequestsInv => OneRequestEach
    BY DEF RequestsInv, WaitsAre, LiveAre, OneRequestEach
  <1> QED BY <1>1, RequestsInvariant, PTL

\* A request that succeeds holds what was asked for, whatever late answers
\* were still on their way when it was sent (getCFilters, getCFHeaders,
\* getBlock).
THEOREM AnswersAreOurs == Spec => []AnswersWhatWasAsked
  <1>1. RequestsInv => AnswersWhatWasAsked
    BY DEF RequestsInv
  <1> QED BY <1>1, RequestsInvariant, PTL

(***************************************************************************)
(* The ledger                                                              *)
(***************************************************************************)

\* Between rounds no rescan has targets, a block being searched is one of the
\* headers, and the first addresses are among those watched and matched.
LedgerInv ==
  /\ WorkTypes
  /\ pc \in {"match", "store"} => scanned < tip
  /\ pc # "rescan" => targets = NoRescan /\ pos = 0
  /\ FirstAddrs \subseteq watched
  /\ pc = "match" => FirstAddrs \subseteq snapshot

\* What is confirmed is in the chain.
OnChainInv == \A t \in Txs : IsConfirmed(t) => t \in branch[confirmed[t]]

\* The blocks processed: the last one may not have its filter row yet.
Searched == IF pc = "store" THEN scanned + 1 ELSE scanned

\* Transactions of the first addresses in them are settled.
SettledInv ==
  \A h \in 1..Searched : \A t \in Txs :
    FromFirst(t, h) => confirmed[t] = h /\ ~IsPending(t)

\* A transaction is in one block of a branch at most.
LEMMA BranchFacts ==
  ASSUME NEW br \in Branches
  PROVE  /\ Len(br) \in Nat
         /\ \A h \in 1..Len(br) : br[h] \in SUBSET Txs
         /\ \A g, h \in 1..Len(br) : \A t \in br[g] : t \in br[h] => g = h
  <1>1. br \in Seq(SUBSET Txs)
    BY DataAssumption
  <1>2. Len(br) \in Nat /\ \A h \in 1..Len(br) : br[h] \in SUBSET Txs
    BY <1>1, SeqElements
  <1>3. \A g, h \in 1..Len(br) : g # h => br[g] \cap br[h] = {}
    BY ConsensusAssumption
  <1> QED BY <1>2, <1>3

\* Filtering the pending transactions removes some and adds none.
LEMMA WithoutFacts ==
  ASSUME NEW seq \in Seq(Txs), NEW S
  PROVE  /\ Without(seq, S) \in Seq(Txs)
         /\ Len(Without(seq, S)) <= Len(seq) /\ Len(Without(seq, S)) \in Nat
         /\ ToSet(Without(seq, S)) = ToSet(seq) \ S
  <1>1. /\ Without(seq, S) \in Seq(Txs \cap (Txs \ S))
        /\ Len(Without(seq, S)) <= Len(seq)
    BY KeepFacts DEF Without
  <1>2. Without(seq, S) \in Seq(Txs) /\ Len(Without(seq, S)) \in Nat
    BY <1>1, SeqElements
  <1>3. ToSet(Without(seq, S)) = ToSet(seq) \cap (Txs \ S)
    BY KeepElements DEF Without
  <1>4. ToSet(seq) \subseteq Txs
    BY SeqElements
  <1> QED BY <1>1, <1>2, <1>3, <1>4

\* The pending transactions are those in the list.
LEMMA PendingFacts ==
  ASSUME pending \in Seq(Txs), NEW t
  PROVE  IsPending(t) <=> t \in ToSet(pending)
  <1>1. DOMAIN pending = 1..Len(pending) /\ \A i \in 1..Len(pending) : pending[i] \in ToSet(pending)
    BY SeqElements
  <1>2. \A x \in ToSet(pending) : \E i \in 1..Len(pending) : pending[i] = x
    BY SeqElements
  <1> QED BY <1>1, <1>2 DEF IsPending

\* What processBlock writes, as a whole or in part: heights of transactions of
\* the block, and fewer pending transactions.
BlockWritten(h) ==
  /\ confirmed' \in [Txs -> 0..tip]
  /\ pending' \in Seq(Txs) /\ Len(pending') <= MaxPending
  /\ \A t \in Txs : IsPending(t)' => IsPending(t)
  /\ \A t \in Txs : confirmed'[t] = confirmed[t] \/ (t \in branch[h] /\ confirmed'[t] = h)

\* The writes of a block write what BlockWritten says.
LEMMA WritesFacts ==
  ASSUME WorkTypes, NEW h \in 1..tip, NEW done \in SUBSET Found(h), NEW gone,
         Writes(h, done, gone)
  PROVE  /\ BlockWritten(h)
         /\ \A t \in done : confirmed'[t] = h
         /\ \A t \in gone : ~IsPending(t)'
  <1>1. branch \in Branches /\ tip \in 0..Len(branch) /\ pending \in Seq(Txs) /\ Len(pending) <= MaxPending
    BY DEF WorkTypes
  <1>2. h \in 1..Len(branch) /\ h \in 0..tip /\ Len(branch) \in Nat
    BY <1>1, BranchFacts
  <1>3. done \subseteq branch[h] /\ done \subseteq Txs
    BY <1>1, <1>2, BranchFacts DEF Found
  <1>4. confirmed' = [t \in Txs |-> IF t \in done THEN h ELSE confirmed[t]]
    BY DEF Writes
  <1>5. confirmed' \in [Txs -> 0..tip]
    BY <1>2, <1>4 DEF WorkTypes
  <1>6. pending' \in Seq(Txs) /\ Len(pending') <= Len(pending) /\ Len(pending') \in Nat
        /\ ToSet(pending') = ToSet(pending) \ gone
    BY <1>1, WithoutFacts DEF Writes
  <1>7. Len(pending') <= MaxPending
    <2>1. Len(pending) \in Nat /\ MaxPending \in Nat
      BY <1>1, SeqElements, DataAssumption
    <2> QED BY <1>1, <1>6, <2>1
  <1>8. ASSUME NEW t PROVE IsPending(t)' <=> t \in ToSet(pending) \ gone
    <2>1. pending' \in Seq(Txs) => (\E i \in DOMAIN pending' : pending'[i] = t) <=> t \in ToSet(pending')
      <3> SUFFICES ASSUME NEW p \in Seq(Txs)
                   PROVE  (\E i \in DOMAIN p : p[i] = t) <=> t \in ToSet(p)
        OBVIOUS
      <3> QED BY SeqElements
    <2> QED BY <1>6, <2>1 DEF IsPending
  <1>9. \A t : IsPending(t) <=> t \in ToSet(pending)
    BY <1>1, PendingFacts
  <1>10. \A t \in Txs : confirmed'[t] = confirmed[t] \/ (t \in branch[h] /\ confirmed'[t] = h)
    BY <1>3, <1>4
  <1>11. \A t \in Txs : IsPending(t)' => IsPending(t)
    BY <1>8, <1>9
  <1>12. BlockWritten(h)
    BY <1>5, <1>6, <1>7, <1>10, <1>11 DEF BlockWritten
  <1>13. \A t \in done : confirmed'[t] = h
    BY <1>3, <1>4
  <1>14. \A t \in gone : ~IsPending(t)'
    BY <1>8
  <1> QED BY <1>12, <1>13, <1>14

\* A block processed as a whole settles what is found in it.
LEMMA ProcessFacts ==
  ASSUME WorkTypes, NEW h \in 1..tip, ProcessBlock(h)
  PROVE  BlockWritten(h) /\ \A t \in Found(h) : confirmed'[t] = h /\ ~IsPending(t)'
  BY WritesFacts DEF ProcessBlock

\* One processed in part writes nothing else either.
LEMMA PartFacts ==
  ASSUME WorkTypes, NEW h \in 1..tip, PartOfBlock(h)
  PROVE  BlockWritten(h)
  BY WritesFacts DEF PartOfBlock

\* Nor one that is not processed.
LEMMA NothingWritten ==
  ASSUME WorkTypes, NEW h, UNCHANGED <<confirmed, pending>>
  PROVE  BlockWritten(h)
  <1>1. \A t : IsPending(t)' <=> IsPending(t)
    BY DEF IsPending
  <1> QED BY <1>1 DEF BlockWritten, WorkTypes

\* A list keeps its type and shortens when the oldest go.
LEMMA OldestGo ==
  ASSUME WorkTypes, NEW k \in 1..Len(pending), DeletePendingBefore(k)
  PROVE  /\ pending' \in Seq(Txs) /\ Len(pending') <= MaxPending
         /\ \A t \in Txs : IsPending(t)' => IsPending(t)
  <1>1. pending \in Seq(Txs) /\ Len(pending) <= MaxPending /\ Len(pending) \in Nat /\ MaxPending \in Nat
    BY SeqElements, DataAssumption DEF WorkTypes
  <1> DEFINE n == Len(pending)
  <1>2. \A i \in (k + 1)..n : pending[i] \in Txs
    BY <1>1, SeqElements
  <1>3. /\ pending' \in Seq(Txs)
        /\ Len(pending') = IF k + 1 <= n THEN n - (k + 1) + 1 ELSE 0
        /\ \A i \in 1..(n - (k + 1) + 1) : pending'[i] = pending[k + 1 + i - 1]
    BY <1>1, <1>2, SubSeqProperties DEF DeletePendingBefore
  <1>4. Len(pending') = n - k /\ \A i \in 1..(n - k) : pending'[i] = pending[k + i]
    BY <1>1, <1>3
  <1>5. DOMAIN pending' = 1..(n - k) /\ DOMAIN pending = 1..n
    <2>1. DOMAIN pending' = 1..Len(pending')
      BY <1>3
    <2> QED BY <1>1, <1>4, <2>1
  <1>6. ASSUME NEW t \in Txs, IsPending(t)' PROVE IsPending(t)
    <2>1. PICK i \in 1..(n - k) : pending'[i] = t
      BY <1>5, <1>6 DEF IsPending
    <2>2. k + i \in DOMAIN pending /\ pending[k + i] = t
      BY <1>1, <1>4, <1>5, <2>1
    <2> QED BY <2>2 DEF IsPending
  <1> QED BY <1>1, <1>3, <1>4, <1>6

\* At first nothing is scanned, confirmed or pending.
LEMMA LedgerStart == LedgerInit => LedgerInv
  <1> SUFFICES ASSUME LedgerInit PROVE LedgerInv
    OBVIOUS
  <1>1. Len(branch) \in Nat
    BY BranchFacts DEF LedgerInit
  <1>2. pending \in Seq(Txs) /\ Len(pending) = 0
    BY DEF LedgerInit
  <1>3. WorkTypes
    BY <1>1, <1>2, DataAssumption DEF LedgerInit, WorkTypes, NoRescan
  <1> QED BY <1>3 DEF LedgerInit, LedgerInv

\* The actions of the scan keep the types.
LEMMA ScanTypes ==
  ASSUME LedgerInv, Extend \/ TakeSnapshot \/ ApplyFilter \/ StoreFilter
  PROVE  LedgerInv'
  <1> USE DEF LedgerInv
  <1>1. tip \in Nat /\ scanned \in 0..tip /\ Len(branch) \in Nat /\ tip <= Len(branch)
    BY BranchFacts DEF WorkTypes
  <1>2. CASE Extend
    BY <1>1, <1>2 DEF Extend, WorkTypes, tables, rescanVars, NoRescan
  <1>3. CASE TakeSnapshot
    BY <1>1, <1>3 DEF TakeSnapshot, WorkTypes, chainVars, tables, rescanVars
  <1>4. CASE ApplyFilter
    <2>1. scanned + 1 \in 1..tip
      BY <1>1, <1>4 DEF ApplyFilter
    <2>2. BlockWritten(scanned + 1)
      BY <1>4, <2>1, ProcessFacts, NothingWritten DEF ApplyFilter
    <2>3. matches' \subseteq (1..tip) \X Addrs
      <3>1. Hits \subseteq Addrs
        BY DEF Hits, WorkTypes
      <3> QED BY <1>4, <2>1, <3>1 DEF ApplyFilter, SaveMatches, WorkTypes
    <2>4. confirmed' \in [Txs -> 0..tip] /\ pending' \in Seq(Txs) /\ Len(pending') <= MaxPending
      BY <2>2 DEF BlockWritten
    <2> QED BY <1>1, <1>4, <2>3, <2>4 DEF ApplyFilter, WorkTypes, chainVars, rescanVars
  <1>5. CASE StoreFilter
    BY <1>1, <1>5 DEF StoreFilter, WorkTypes, chainVars, tables, rescanVars
  <1> QED BY <1>2, <1>3, <1>4, <1>5

\* A reorganisation cuts heights down to the fork.
LEMMA ReorgTypes ==
  ASSUME LedgerInv, NEW br \in Branches, Reorg(br)
  PROVE  LedgerInv'
  <1> USE DEF LedgerInv
  <1>1. tip \in Nat /\ scanned \in 0..tip /\ Len(branch) \in Nat /\ tip <= Len(branch)
        /\ Len(br) \in Nat
    BY BranchFacts DEF WorkTypes
  <1>2. PICK fork \in 0..(tip - 1) :
          /\ fork < Len(br)
          /\ branch' = br /\ tip' = fork + 1
          /\ scanned' = ScannedUpTo(fork)
          /\ matches' = {m \in matches : m[1] <= fork}
          /\ confirmed' = [t \in Txs |-> IF confirmed[t] <= fork THEN confirmed[t] ELSE 0]
    BY DEF Reorg
  <1>3. scanned' \in 0..tip'
    BY <1>1, <1>2 DEF ScannedUpTo
  <1>4. confirmed' \in [Txs -> 0..tip']
    BY <1>1, <1>2 DEF WorkTypes
  <1>5. matches' \subseteq (1..tip') \X Addrs
    <2>1. \A m \in matches : m \in (1..tip) \X Addrs
      BY DEF WorkTypes
    <2> QED BY <1>1, <1>2, <2>1
  <1>6. branch' \in Branches /\ tip' \in 0..Len(branch')
    BY <1>1, <1>2
  <1>7. /\ pc = "idle" /\ reorgs' \in 0..MaxReorgs
        /\ UNCHANGED <<pending, stored, rescans, watched, pc, snapshot, rescanVars, restarts>>
    BY DataAssumption DEF Reorg, WorkTypes
  <1>8. targets = NoRescan /\ pos = 0
    BY <1>7
  <1>9. targets' \in [Addrs -> 0..tip'] /\ pos' \in 0..(tip' + 1)
    BY <1>1, <1>2, <1>7, <1>8 DEF NoRescan, rescanVars
  <1>10. WorkTypes'
    BY <1>3, <1>4, <1>5, <1>6, <1>7, <1>9 DEF WorkTypes, rescanVars
  <1> QED BY <1>7, <1>8, <1>10 DEF rescanVars

\* Unconfirmed transactions come and go.
LEMMA PendingTypes ==
  ASSUME LedgerInv, ExpirePending \/ \E t \in Txs : AcceptPendingTx(t) \/ Broadcast(t)
  PROVE  LedgerInv'
  <1> USE DEF LedgerInv
  <1>1. pending' \in Seq(Txs) /\ Len(pending') <= MaxPending
    <2>1. CASE ExpirePending
      BY <2>1, OldestGo DEF ExpirePending
    <2>2. CASE \E t \in Txs : AcceptPendingTx(t) \/ Broadcast(t)
      <3>1. PICK t \in Txs : MayBePending(t) /\ SavePending(t)
        BY <2>2 DEF AcceptPendingTx, Broadcast
      <3>2. pending \in Seq(Txs) /\ Len(pending) \in Nat /\ MaxPending \in Nat /\ Len(pending) < MaxPending
        BY <3>1, SeqElements, DataAssumption DEF WorkTypes, MayBePending
      <3> QED BY <3>1, <3>2, AppendProperties DEF SavePending
    <2> QED BY <2>1, <2>2
  <1>2. UNCHANGED <<chainVars, scanned, confirmed, matches, stored, rescans, watched, pc, snapshot, rescanVars, restarts>>
    BY DEF ExpirePending, AcceptPendingTx, Broadcast
  <1> QED BY <1>1, <1>2 DEF WorkTypes, chainVars, rescanVars

\* An address learned is stored, watched and queued if it is known as paid.
LEMMA WatchTypes ==
  ASSUME LedgerInv, NEW a \in Addrs, Watch(a)
  PROVE  LedgerInv'
  <1> USE DEF LedgerInv
  <1>1. rescans' \in [Addrs -> Nat]
    <2>1. CASE PaidAt(a) = {}
      BY <2>1 DEF Watch, QueueRescan, WorkTypes
    <2>2. CASE PaidAt(a) # {}
      <3>1. PICK h \in PaidAt(a) : rescans' = [rescans EXCEPT ![a] = IF @ = 0 \/ h < @ THEN h ELSE @]
        BY <2>2 DEF Watch, QueueRescan
      <3>2. h \in Nat
        BY DataAssumption DEF PaidAt, WorkTypes
      <3> QED BY <3>1, <3>2 DEF WorkTypes
    <2> QED BY <2>1, <2>2
  <1> QED BY <1>1 DEF Watch, WorkTypes, chainVars, rescanVars

\* The cursor of a rescan and its targets are heights of the scanned blocks.
LEMMA RescanTypes ==
  ASSUME LedgerInv, StartRescan \/ RescanBlock \/ FinishRescan
  PROVE  LedgerInv'
  <1> USE DEF LedgerInv
  <1>1. tip \in Nat /\ scanned \in 0..tip /\ Len(branch) \in Nat /\ tip <= Len(branch)
    BY BranchFacts DEF WorkTypes
  <1>2. CASE StartRescan
    <2> DEFINE due == {a \in Addrs : rescans[a] > 0 /\ a \in watched /\
                                       \E h \in 1..scanned : RescanFrom(a, h)}
               from(a) == CHOOSE h \in 1..scanned : RescanFrom(a, h)
    <2>1. /\ pc = "idle"
          /\ jobs' = [a \in Addrs |-> IF a \in due THEN rescans[a] ELSE 0]
          /\ rescans' = QueuedFor(due)
          /\ targets' = [a \in Addrs |-> IF a \in due THEN from(a) ELSE 0]
          /\ \/ due = {} /\ UNCHANGED <<pos, pc>>
             \/ /\ \E a \in due : pos' = targets'[a]
                /\ pc' = "rescan"
          /\ UNCHANGED <<chainVars, scanned, confirmed, pending, matches, stored, watched, snapshot, restarts>>
      BY <1>2 DEF StartRescan
    <2>2. \A a \in due : from(a) \in 1..scanned
      OBVIOUS
    <2> HIDE DEF from
    <2>3. targets' \in [Addrs -> 0..tip] /\ \A a \in due : targets'[a] \in 1..tip
      BY <1>1, <2>1, <2>2
    <2>4. jobs' \in [Addrs -> Nat] /\ rescans' \in [Addrs -> Nat]
      BY <2>1 DEF WorkTypes, QueuedFor
    <2>5. CASE due = {} /\ UNCHANGED <<pos, pc>>
      <3>1. targets' = NoRescan
        BY <2>1, <2>5 DEF NoRescan
      <3> HIDE DEF due
      <3> QED BY <2>1, <2>3, <2>4, <2>5, <3>1 DEF WorkTypes, chainVars
    <2>6. CASE (\E a \in due : pos' = targets'[a]) /\ pc' = "rescan"
      <3>1. pos' \in 0..(tip + 1)
        BY <1>1, <2>3, <2>6
      <3> HIDE DEF due
      <3> QED BY <2>1, <2>3, <2>4, <2>6, <3>1 DEF WorkTypes, chainVars
    <2> QED BY <2>1, <2>5, <2>6
  <1>3. CASE RescanBlock
    <2>1. Fresh # {} => pos \in 1..tip
      <3>1. \A a \in Fresh : targets[a] \in Nat /\ targets[a] > 0 /\ targets[a] <= pos
        BY DEF Fresh, WorkTypes
      <3> QED BY <1>1, <1>3, <3>1 DEF RescanBlock, WorkTypes
    <2>2. \E h : BlockWritten(h)
      BY <1>3, <2>1, ProcessFacts, NothingWritten DEF RescanBlock
    <2>3. matches' \subseteq (1..tip) \X Addrs
      <3>1. Fresh \subseteq Addrs
        BY DEF Fresh
      <3> QED BY <1>3, <2>1, <3>1 DEF RescanBlock, SaveMatches, WorkTypes
    <2>4. confirmed' \in [Txs -> 0..tip] /\ pending' \in Seq(Txs) /\ Len(pending') <= MaxPending
      BY <2>2 DEF BlockWritten
    <2>5. pos' \in 0..(tip + 1)
      BY <1>1, <1>3 DEF RescanBlock, WorkTypes
    <2> QED BY <1>3, <2>3, <2>4, <2>5 DEF RescanBlock, WorkTypes, chainVars
  <1>4. CASE FinishRescan
    <2>1. rescans' \in [Addrs -> Nat]
      BY <1>4 DEF FinishRescan, WithoutJobs, WorkTypes
    <2>2. targets' \in [Addrs -> 0..tip] /\ jobs' \in [Addrs -> Nat] /\ pos' \in 0..(tip + 1)
      BY <1>1, <1>4 DEF FinishRescan, NoRescan
    <2> QED BY <1>4, <2>1, <2>2 DEF FinishRescan, WorkTypes, chainVars
  <1> QED BY <1>2, <1>3, <1>4

\* A process that ends inside a block has written a part of it.
LEMMA RestartWrites ==
  ASSUME LedgerInv, Restart
  PROVE  UNCHANGED <<confirmed, pending>> \/ \E h \in 1..tip : BlockWritten(h)
  <1> USE DEF LedgerInv
  <1>1. tip \in Nat /\ scanned \in 0..tip
    BY BranchFacts DEF WorkTypes
  <1>3. CASE pc = "match" /\ Hits # {} /\ PartOfBlock(scanned + 1)
    <2>1. scanned + 1 \in 1..tip
      BY <1>1, <1>3
    <2> QED BY <1>1, <1>3, <2>1, PartFacts
  <1>4. CASE pc = "rescan" /\ pos <= scanned /\ Fresh # {} /\ PartOfBlock(pos)
    <2>1. \A a \in Fresh : targets[a] \in Nat /\ targets[a] > 0 /\ targets[a] <= pos
      BY DEF Fresh, WorkTypes
    <2>2. pos \in 1..tip
      BY <1>1, <1>4, <2>1 DEF WorkTypes
    <2> QED BY <1>1, <1>4, <2>2, PartFacts
  <1> QED BY <1>3, <1>4 DEF Restart

\* A restart watches what is stored.
LEMMA RestartTypes ==
  ASSUME LedgerInv, Restart
  PROVE  LedgerInv'
  <1> USE DEF LedgerInv
  <1>1. tip \in Nat
    BY BranchFacts DEF WorkTypes
  <1>2. confirmed' \in [Txs -> 0..tip] /\ pending' \in Seq(Txs) /\ Len(pending') <= MaxPending
    BY RestartWrites, NothingWritten DEF BlockWritten
  <1>3. /\ restarts' \in 0..MaxRestarts
        /\ watched' = stored /\ pc' = "idle" /\ snapshot' = {}
        /\ targets' = NoRescan /\ jobs' = NoRescan /\ pos' = 0
        /\ UNCHANGED <<chainVars, scanned, matches, stored, rescans>>
    BY DataAssumption DEF Restart, WorkTypes
  <1>4. targets' \in [Addrs -> 0..tip] /\ jobs' \in [Addrs -> Nat] /\ pos' \in 0..(tip + 1)
    BY <1>1, <1>3 DEF NoRescan
  <1>5. FirstAddrs \subseteq watched'
    BY <1>3 DEF WorkTypes
  <1> QED BY <1>2, <1>3, <1>4, <1>5 DEF WorkTypes, chainVars

\* The invariant is inductive.
LEMMA LedgerStep == LedgerInv /\ [LedgerNext]_ledgerVars => LedgerInv'
  <1> SUFFICES ASSUME LedgerInv, [LedgerNext]_ledgerVars PROVE LedgerInv'
    OBVIOUS
  <1>1. CASE LedgerLoop
    BY <1>1, ScanTypes, RescanTypes DEF LedgerLoop
  <1>2. CASE UNCHANGED ledgerVars
    BY <1>2 DEF LedgerInv, WorkTypes, ledgerVars, workVars, chainVars, tables, rescanVars
  <1> QED BY <1>1, <1>2, ReorgTypes, PendingTypes, WatchTypes, RestartTypes DEF LedgerNext, LedgerMoves

\* An address paid in stored blocks was paid in a first one.
LEMMA FirstPaidExists ==
  ASSUME LedgerInv, NEW a, PaidAt(a) # {}
  PROVE  \E h \in PaidAt(a) : IsFirstPaid(h, a)
  <1> DEFINE R == {ss \in Nat \X Nat : ss[1] < ss[2]}
  <1>1. PaidAt(a) \in SUBSET Nat
    BY DataAssumption DEF LedgerInv, WorkTypes, PaidAt
  <1>2. IsWellFoundedOn(R, Nat)
    BY ONLY NatLessThanWellFounded DEF OpToRel
  <1>3. PICK m \in PaidAt(a) : \A k \in PaidAt(a) : ~(<<k, m>> \in R)
    <2> HIDE DEF R
    <2> QED BY <1>1, <1>2, WFMin
  <1>4. ASSUME NEW k \in PaidAt(a), ~(m <= k) PROVE FALSE
    <2>1. <<k, m>> \in Nat \X Nat /\ <<k, m>>[1] < <<k, m>>[2]
      BY <1>1, <1>4
    <2> QED BY <1>3, <2>1
  <1> QED BY <1>4 DEF IsFirstPaid

\* While an address is added to those watched the chain is the same.
LEMMA OnlyWatchWatches ==
  ASSUME LedgerNext, NEW a \in watched' \ watched
  PROVE  tip' = tip
  <1>1. ~Extend /\ ~\E br \in Branches : Reorg(br)
    BY DEF Extend, Reorg
  <1>2. CASE LedgerLoop
    BY <1>1, <1>2 DEF LedgerLoop, TakeSnapshot, ApplyFilter, StoreFilter, StartRescan, RescanBlock,
                      FinishRescan, chainVars
  <1>3. CASE ExpirePending \/ Restart \/ \E t \in Txs : AcceptPendingTx(t) \/ Broadcast(t)
    BY <1>3 DEF ExpirePending, Restart, AcceptPendingTx, Broadcast, chainVars
  <1>4. CASE \E b \in Addrs : Watch(b)
    BY <1>4 DEF Watch, chainVars
  <1> QED BY <1>1, <1>2, <1>3, <1>4 DEF LedgerNext, LedgerMoves

RememberedOK == paidBefore \in [Addrs -> 0..tip]

\* What is remembered is a height of the chain.
LEMMA RememberedStep ==
  LedgerInv /\ RememberedOK /\ [LedgerNext]_ledgerVars => RememberedOK'
  <1> SUFFICES ASSUME LedgerInv, RememberedOK, [LedgerNext]_ledgerVars PROVE RememberedOK'
    OBVIOUS
  <1>1. LedgerInv'
    BY LedgerStep
  <1>2. CASE LedgerNext
    <2>1. paidBefore' = [a \in Addrs |-> Remembered(a)]
      BY <1>2 DEF LedgerNext
    <2>2. ASSUME NEW a \in Addrs PROVE Remembered(a) \in 0..tip'
      <3>1. 0 \in 0..tip' /\ PaidAt(a)' \subseteq 0..tip'
        <4>1. confirmed' \in [Txs -> 0..tip'] /\ tip' \in Nat
          BY <1>1, BranchFacts DEF LedgerInv, WorkTypes
        <4> QED BY <4>1, DataAssumption DEF PaidAt
      <3>2. CASE a \in watched' \ watched
        <4>1. tip' = tip
          BY <1>2, <3>2, OnlyWatchWatches
        <4>2. PaidAt(a) \subseteq 0..tip
          <5>1. confirmed \in [Txs -> 0..tip]
            BY DEF LedgerInv, WorkTypes
          <5> QED BY <5>1, DataAssumption DEF PaidAt
        <4>3. CASE PaidAt(a) = {}
          BY <3>1, <3>2, <4>3 DEF Remembered
        <4>4. CASE PaidAt(a) # {}
          <5>1. \E h \in PaidAt(a) : IsFirstPaid(h, a)
            BY <4>4, FirstPaidExists
          <5>2. Remembered(a) \in PaidAt(a)
            BY <3>2, <4>4, <5>1 DEF Remembered
          <5> QED BY <4>1, <4>2, <5>2
        <4> QED BY <4>3, <4>4
      <3>3. CASE a \notin watched' \ watched
        BY <3>1, <3>3 DEF Remembered
      <3> QED BY <3>2, <3>3
    <2> QED BY <2>1, <2>2 DEF RememberedOK
  <1>3. CASE UNCHANGED ledgerVars
    BY <1>3 DEF ledgerVars, workVars, chainVars, RememberedOK
  <1> QED BY <1>2, <1>3

\* The tables, the queue and the cursor of the wallet keep their types: heights
\* are heights of the chain, and only addresses of the wallet are watched.
THEOREM LedgerTyped == LedgerSpec => []LedgerTypes
  <1>1. LedgerInit => RememberedOK
    BY BranchFacts DEF LedgerInit, RememberedOK
  <1>2. LedgerInv /\ RememberedOK => LedgerTypes
    BY DEF LedgerInv, LedgerTypes, RememberedOK
  <1> QED BY <1>1, <1>2, LedgerStart, LedgerStep, RememberedStep, PTL DEF LedgerSpec

\* A transaction of the first addresses stays one while the chain is the same
\* up to its block.
LEMMA FromFirstSame ==
  ASSUME NEW h \in Nat, NEW t, \A g \in 1..h : branch'[g] = branch[g], FromFirst(t, h)', h > 0
  PROVE  FromFirst(t, h)
  BY DEF FromFirst

\* Blocks written for one height leave what is settled settled, and what is
\* confirmed in the chain.
LEMMA WritingSettles ==
  ASSUME LedgerInv, OnChainInv, NEW h \in 1..tip, BlockWritten(h), branch' = branch
  PROVE  /\ OnChainInv'
         /\ \A g \in 1..tip : \A t \in Txs :
              t \in branch[g] /\ confirmed[t] = g /\ ~IsPending(t)
                => confirmed'[t] = g /\ ~IsPending(t)'
  <1>1. branch \in Branches /\ tip \in 0..Len(branch) /\ confirmed \in [Txs -> 0..tip]
    BY DEF LedgerInv, WorkTypes
  <1>2. /\ \A t \in Txs : IsPending(t)' => IsPending(t)
        /\ \A t \in Txs : confirmed'[t] = confirmed[t] \/ (t \in branch[h] /\ confirmed'[t] = h)
    BY DEF BlockWritten
  <1>3. OnChainInv'
    BY <1>2 DEF OnChainInv, IsConfirmed
  <1>4. ASSUME NEW g \in 1..tip, NEW t \in Txs, t \in branch[g], confirmed[t] = g, ~IsPending(t)
        PROVE  confirmed'[t] = g /\ ~IsPending(t)'
    <2>1. g \in 1..Len(branch) /\ h \in 1..Len(branch)
      BY <1>1, BranchFacts
    <2>2. t \in branch[h] => h = g
      BY <1>1, <1>4, <2>1, BranchFacts
    <2> QED BY <1>2, <1>4, <2>2
  <1> QED BY <1>3, <1>4

\* The block after the scanned ones, searched with the first addresses,
\* settles its transactions.
LEMMA SearchSettles ==
  ASSUME LedgerInv, OnChainInv, SettledInv, ApplyFilter, NEW t \in Txs, FromFirst(t, scanned + 1)
  PROVE  confirmed'[t] = scanned + 1 /\ ~IsPending(t)'
  <1>1. /\ scanned + 1 \in 1..tip /\ scanned \in Nat /\ pc = "match"
        /\ FirstAddrs \subseteq snapshot /\ FirstAddrs \subseteq watched
        /\ tip \in 0..Len(branch) /\ branch \in Branches
    BY DEF ApplyFilter, LedgerInv, WorkTypes
  <1>2. t \in branch[scanned + 1]
    BY DEF FromFirst
  <1>3. PICK o \in Outputs :
          /\ Address[o] \in FirstAddrs
          /\ \/ Creator[o] = t
             \/ o \in Spends[t] /\ \E g \in 1..scanned : Creator[o] \in branch[g]
    <2>1. \A x \in Spends[t] : x \in Outputs
      BY DataAssumption
    <2>2. (scanned + 1) - 1 = scanned
      BY <1>1
    <2> QED BY <2>1, <2>2 DEF FromFirst
  <1>4. Address[o] \in Hits
    BY <1>1, <1>2, <1>3 DEF Hits, Touches
  <1>5. ProcessBlock(scanned + 1)
    BY <1>4 DEF ApplyFilter
  <1>6. Relevant(t)
    <2>1. CASE Creator[o] = t
      BY <1>1, <1>3, <2>1 DEF Relevant
    <2>2. CASE o \in Spends[t] /\ \E g \in 1..scanned : Creator[o] \in branch[g]
      <3>1. PICK g \in 1..scanned : Creator[o] \in branch[g]
        BY <2>2
      <3>2. Creator[o] \in Txs
        BY DataAssumption
      <3>3. FromFirst(Creator[o], g)
        BY <1>3, <3>1 DEF FromFirst
      <3>4. Searched = scanned
        BY <1>1 DEF Searched
      <3>5. confirmed[Creator[o]] = g
        BY <3>1, <3>2, <3>3, <3>4 DEF SettledInv
      <3>6. o \in Outpoints
        BY <1>1, <1>3, <3>5 DEF Outpoints, Known, IsConfirmed
      <3> QED BY <2>2, <3>6 DEF Relevant
    <2> QED BY <1>3, <2>1, <2>2
  <1>7. t \in Found(scanned + 1)
    BY <1>2, <1>6 DEF Found
  <1> QED BY <1>1, <1>5, <1>7, ProcessFacts DEF LedgerInv

\* At first no block is processed.
LEMMA SettledStart == LedgerInit => OnChainInv /\ SettledInv
  BY DEF LedgerInit, OnChainInv, IsConfirmed, SettledInv, Searched

\* A reorganisation keeps what is settled up to the fork.
LEMMA ReorgSettles ==
  ASSUME LedgerInv, OnChainInv, SettledInv, NEW br \in Branches, Reorg(br)
  PROVE  OnChainInv' /\ SettledInv'
  <1>1. tip \in Nat /\ scanned \in 0..tip /\ Len(branch) \in Nat /\ tip <= Len(branch)
        /\ Len(br) \in Nat /\ confirmed \in [Txs -> 0..tip] /\ branch \in Branches
    BY BranchFacts DEF LedgerInv, WorkTypes
  <1>2. PICK fork \in 0..(tip - 1) :
          /\ fork < Len(br)
          /\ SubSeq(br, 1, fork) = SubSeq(branch, 1, fork)
          /\ branch' = br /\ scanned' = ScannedUpTo(fork)
          /\ confirmed' = [t \in Txs |-> IF confirmed[t] <= fork THEN confirmed[t] ELSE 0]
    BY DEF Reorg
  <1>3. pc = "idle" /\ pc' = "idle" /\ pending' = pending
    BY DEF Reorg
  <1>4. \A g \in 1..fork : br[g] = branch[g]
    <2>1. fork \in Nat /\ fork <= Len(branch) /\ fork <= Len(br)
      BY <1>1, <1>2
    <2>2. \A i \in 1..fork : br[i] \in SUBSET Txs /\ branch[i] \in SUBSET Txs
      BY <1>1, <2>1, BranchFacts
    <2>3. \A i \in 1..(fork - 1 + 1) : SubSeq(br, 1, fork)[i] = br[1 + i - 1]
      BY <2>1, <2>2, SubSeqProperties
    <2>4. \A i \in 1..(fork - 1 + 1) : SubSeq(branch, 1, fork)[i] = branch[1 + i - 1]
      BY <2>1, <2>2, SubSeqProperties
    <2>5. \A i \in 1..fork : i \in 1..(fork - 1 + 1) /\ 1 + i - 1 = i
      BY <2>1
    <2> QED BY <1>2, <2>3, <2>4, <2>5
  <1>5. OnChainInv'
    <2>1. ASSUME NEW t \in Txs, confirmed'[t] > 0 PROVE t \in branch'[confirmed'[t]]
      <3>1. confirmed'[t] = confirmed[t] /\ confirmed[t] \in 1..fork
        BY <1>1, <1>2, <2>1
      <3>2. t \in branch[confirmed[t]]
        BY <3>1 DEF OnChainInv, IsConfirmed
      <3> QED BY <1>2, <1>4, <3>1, <3>2
    <2> QED BY <2>1 DEF OnChainInv, IsConfirmed
  <1>6. SettledInv'
    <2>1. Searched' = scanned' /\ Searched = scanned
      BY <1>3 DEF Searched
    <2>2. scanned' <= fork /\ scanned' <= scanned /\ scanned' \in Nat
      BY <1>1, <1>2 DEF ScannedUpTo
    <2>3. ASSUME NEW h \in 1..Searched', NEW t \in Txs, FromFirst(t, h)'
          PROVE  confirmed'[t] = h /\ ~IsPending(t)'
      <3>1. h \in 1..fork /\ h \in 1..Searched /\ h \in Nat /\ h > 0
        <4>1. h \in 1..scanned'
          BY <2>1
        <4>2. scanned \in Nat /\ fork \in Nat
          BY <1>1
        <4>3. h \in 1..fork /\ h \in 1..scanned /\ h \in Nat /\ h > 0
          BY ONLY <2>2, <4>1, <4>2
        <4> QED BY <2>1, <4>3
      <3>2. ASSUME NEW g \in 1..h PROVE branch'[g] = branch[g]
        <4>1. g \in 1..fork
          <5>1. fork \in Nat
            BY <1>1
          <5> QED BY ONLY <3>1, <5>1
        <4>2. br[g] = branch[g]
          BY <1>4, <4>1
        <4>3. branch' = br
          BY <1>2
        <4> QED BY <4>2, <4>3
      <3>3. FromFirst(t, h)
        BY ONLY <2>3, <3>1, <3>2, FromFirstSame
      <3>4. confirmed[t] = h /\ ~IsPending(t)
        BY <3>1, <3>3 DEF SettledInv
      <3> QED BY <1>2, <1>3, <3>1, <3>4 DEF IsPending
    <2> QED BY <2>3 DEF SettledInv
  <1> QED BY <1>5, <1>6

\* A transaction becomes pending only when it is not known.
LEMMA PendingSettles ==
  ASSUME LedgerInv, NEW t \in Txs, IsPending(t)',
         ExpirePending \/ \E u \in Txs : AcceptPendingTx(u) \/ Broadcast(u)
  PROVE  IsPending(t) \/ ~IsConfirmed(t)
  <1>1. CASE ExpirePending
    BY <1>1, OldestGo DEF ExpirePending, LedgerInv
  <1>2. CASE \E u \in Txs : AcceptPendingTx(u) \/ Broadcast(u)
    <2>1. PICK u \in Txs : ~Known(u) /\ pending' = Append(pending, u)
      BY <1>2 DEF AcceptPendingTx, Broadcast, SavePending
    <2>2. pending \in Seq(Txs) /\ Len(pending) \in Nat
      BY SeqElements DEF LedgerInv, WorkTypes
    <2>3. PICK i \in DOMAIN pending' : pending'[i] = t
      BY DEF IsPending
    <2>4. i \in 1..(Len(pending) + 1)
      BY <2>1, <2>2, <2>3, AppendProperties
    <2>5. CASE i = Len(pending) + 1
      <3>1. t = u
        BY <2>1, <2>2, <2>3, <2>5, AppendProperties
      <3> QED BY <2>1, <3>1 DEF Known
    <2>6. CASE i \in 1..Len(pending)
      <3>1. pending[i] = t
        BY <2>1, <2>2, <2>3, <2>6, AppendProperties
      <3> QED BY <2>2, <2>6, <3>1 DEF IsPending
    <2> QED BY <2>2, <2>4, <2>5, <2>6
  <1> QED BY <1>1, <1>2

\* Every step leaves the processed blocks settled.
LEMMA SettledStep ==
  LedgerInv /\ OnChainInv /\ SettledInv /\ [LedgerNext]_ledgerVars => OnChainInv' /\ SettledInv'
  <1> SUFFICES ASSUME LedgerInv, OnChainInv, SettledInv, [LedgerNext]_ledgerVars
               PROVE  OnChainInv' /\ SettledInv'
    OBVIOUS
  <1>1. /\ scanned \in 0..tip /\ tip \in Nat /\ Searched \in 0..tip
        /\ pc \in {"match", "store"} => scanned + 1 \in 1..tip
    BY BranchFacts DEF LedgerInv, WorkTypes, Searched
  <1>2. ASSUME NEW h \in 1..tip, BlockWritten(h), branch' = branch, Searched' \in Nat,
               \A g \in 1..Searched' : \A t \in Txs :
                 FromFirst(t, g) => g \in 1..Searched \/ (confirmed'[t] = g /\ ~IsPending(t)')
        PROVE  OnChainInv' /\ SettledInv'
    <2>1. OnChainInv'
      BY <1>2, WritingSettles
    <2>2. ASSUME NEW g \in 1..Searched', NEW t \in Txs, FromFirst(t, g)'
          PROVE  confirmed'[t] = g /\ ~IsPending(t)'
      <3>1. FromFirst(t, g)
        BY <1>2, <2>2 DEF FromFirst
      <3>2. CASE g \in 1..Searched
        <4>1. confirmed[t] = g /\ ~IsPending(t) /\ g \in 1..tip /\ t \in branch[g]
          BY <1>1, <3>1, <3>2 DEF SettledInv, FromFirst
        <4> QED BY <1>2, <4>1, WritingSettles
      <3>3. CASE ~(g \in 1..Searched)
        BY <1>2, <3>1, <3>3
      <3> QED BY <3>2, <3>3
    <2> QED BY <2>1, <2>2 DEF SettledInv
  <1>3. ASSUME UNCHANGED <<branch, confirmed, pending>>, Searched' \in Nat, Searched' <= Searched
        PROVE  OnChainInv' /\ SettledInv'
    <2>1. OnChainInv'
      BY <1>3 DEF OnChainInv, IsConfirmed
    <2>2. ASSUME NEW g \in 1..Searched', NEW t \in Txs, FromFirst(t, g)'
          PROVE  confirmed'[t] = g /\ ~IsPending(t)'
      <3>1. FromFirst(t, g) /\ g \in 1..Searched
        BY <1>1, <1>3, <2>2 DEF FromFirst
      <3>2. confirmed[t] = g /\ ~IsPending(t)
        BY <3>1 DEF SettledInv
      <3> QED BY <1>3, <3>2 DEF IsPending
    <2> QED BY <2>1, <2>2 DEF SettledInv
  <1>4. CASE ApplyFilter
    <2>1. scanned + 1 \in 1..tip /\ branch' = branch /\ Searched = scanned /\ Searched' = scanned + 1
      BY <1>1, <1>4 DEF ApplyFilter, Searched, chainVars
    <2>2. BlockWritten(scanned + 1)
      BY <1>4, <2>1, ProcessFacts, NothingWritten DEF ApplyFilter, LedgerInv
    <2>3. ASSUME NEW g \in 1..Searched', NEW t \in Txs, FromFirst(t, g)
          PROVE  g \in 1..Searched \/ (confirmed'[t] = g /\ ~IsPending(t)')
      <3>1. CASE g = scanned + 1
        BY <1>4, <2>3, <3>1, SearchSettles
      <3>2. CASE g # scanned + 1
        BY <1>1, <2>1, <3>2
      <3> QED BY <3>1, <3>2
    <2>4. Searched' \in Nat
      BY <2>1
    <2> QED BY <1>2, <2>1, <2>2, <2>3, <2>4
  <1>5. CASE Extend \/ TakeSnapshot \/ StoreFilter \/ StartRescan \/ FinishRescan
    <2>1. UNCHANGED <<branch, confirmed, pending>>
      BY <1>5 DEF Extend, TakeSnapshot, StoreFilter, StartRescan, FinishRescan, chainVars, tables
    <2>2. Searched' = Searched
      BY <1>1, <1>5 DEF Extend, TakeSnapshot, StoreFilter, StartRescan, FinishRescan, Searched
    <2> QED BY <1>1, <1>3, <2>1, <2>2
  <1>6. CASE RescanBlock
    <2>1. branch' = branch /\ Searched' = Searched
      BY <1>6 DEF RescanBlock, Searched, chainVars
    <2>2. CASE Fresh # {}
      <3>1. pos \in 1..tip
        <4>1. \A a \in Fresh : targets[a] \in Nat /\ targets[a] > 0 /\ targets[a] <= pos
          BY DEF Fresh, LedgerInv, WorkTypes
        <4> QED BY <1>1, <1>6, <2>2, <4>1 DEF RescanBlock, LedgerInv, WorkTypes
      <3>2. BlockWritten(pos)
        BY <1>6, <2>2, <3>1, ProcessFacts DEF RescanBlock, LedgerInv
      <3> QED BY <1>1, <1>2, <2>1, <3>1, <3>2
    <2>3. CASE Fresh = {}
      <3>1. UNCHANGED <<branch, confirmed, pending>>
        BY <1>6, <2>1, <2>3 DEF RescanBlock
      <3> QED BY <1>1, <1>3, <2>1, <3>1
    <2> QED BY <2>2, <2>3
  <1>7. CASE Restart
    <2>1. branch' = branch /\ Searched' = scanned /\ scanned <= Searched
      BY <1>1, <1>7 DEF Restart, Searched, chainVars
    <2>2. CASE UNCHANGED <<confirmed, pending>>
      BY <1>1, <1>3, <2>1, <2>2
    <2>3. CASE ~UNCHANGED <<confirmed, pending>>
      <3>1. PICK h \in 1..tip : BlockWritten(h)
        BY <1>7, <2>3, RestartWrites
      <3>2. \A g \in 1..Searched' : g \in 1..Searched
        BY <1>1, <2>1
      <3> QED BY <1>1, <1>2, <2>1, <3>1, <3>2
    <2> QED BY <2>2, <2>3
  <1>8. CASE ExpirePending \/ \E u \in Txs : AcceptPendingTx(u) \/ Broadcast(u)
    <2>1. branch' = branch /\ confirmed' = confirmed /\ Searched' = Searched
      BY <1>8 DEF ExpirePending, AcceptPendingTx, Broadcast, Searched, chainVars
    <2>2. OnChainInv'
      BY <2>1 DEF OnChainInv, IsConfirmed
    <2>3. ASSUME NEW g \in 1..Searched', NEW t \in Txs, FromFirst(t, g)'
          PROVE  confirmed'[t] = g /\ ~IsPending(t)'
      <3>1. FromFirst(t, g) /\ g \in 1..Searched
        BY <2>1, <2>3 DEF FromFirst
      <3>2. confirmed[t] = g /\ ~IsPending(t) /\ IsConfirmed(t)
        BY <1>1, <3>1 DEF SettledInv, IsConfirmed
      <3> QED BY <1>8, <2>1, <3>2, PendingSettles
    <2> QED BY <2>2, <2>3 DEF SettledInv
  <1>9. CASE \E a \in Addrs : Watch(a)
    <2>1. UNCHANGED <<branch, confirmed, pending>> /\ Searched' = Searched
      BY <1>9 DEF Watch, Searched, chainVars
    <2> QED BY <1>1, <1>3, <2>1
  <1>10. CASE UNCHANGED ledgerVars
    <2>1. UNCHANGED <<branch, confirmed, pending>> /\ Searched' = Searched
      BY <1>10 DEF ledgerVars, workVars, chainVars, tables, Searched
    <2> QED BY <1>1, <1>3, <2>1
  <1> QED BY <1>4, <1>5, <1>6, <1>7, <1>8, <1>9, <1>10, ReorgSettles DEF LedgerNext, LedgerMoves, LedgerLoop

\* What is settled is what the property asks for.
LEMMA SettledIsSettled == LedgerInv /\ OnChainInv /\ SettledInv => FirstAddressesSettled
  <1> SUFFICES ASSUME LedgerInv, OnChainInv, SettledInv PROVE FirstAddressesSettled
    OBVIOUS
  <1>1. scanned \in 0..tip /\ tip \in 0..Len(branch) /\ branch \in Branches /\ Len(branch) \in Nat
    BY BranchFacts DEF LedgerInv, WorkTypes
  <1>2. \A h \in 1..scanned : h \in 1..Searched /\ branch[h] \in SUBSET Txs
    BY <1>1, BranchFacts DEF Searched
  <1>3. \A t \in Txs : IsConfirmed(t) => t \in branch[confirmed[t]]
    BY DEF OnChainInv
  <1>4. ASSUME NEW h \in 1..scanned, NEW t \in branch[h], FromFirst(t, h)
        PROVE  confirmed[t] = h /\ ~IsPending(t)
    BY <1>2, <1>4 DEF SettledInv
  <1>5. ASSUME NEW o \in Coins, Address[o] \in FirstAddrs, NEW g \in 1..scanned, NEW h \in 1..scanned,
               Creator[o] \in branch[g], g < h, SpentAt(o, h)
        PROVE  FALSE
    <2>1. PICK t \in branch[h] : o \in Spends[t]
      BY <1>5 DEF SpentAt
    <2>2. t \in Txs /\ g \in 1..(h - 1)
      BY <1>1, <1>2, <1>5
    <2>3. FromFirst(t, h)
      BY <1>5, <2>1, <2>2 DEF FromFirst
    <2>4. Known(t)
      BY <1>1, <1>4, <2>3 DEF Known, IsConfirmed
    <2> QED BY <2>1, <2>2, <2>4 DEF Coins
  <1> QED BY <1>3, <1>4, <1>5 DEF FirstAddressesSettled

\* Transactions of blocks that pay the addresses watched from the start, or
\* spend from them, are settled in every reachable state, and their spent
\* coins gone, whatever other addresses, forks, restarts and payments do.
THEOREM FirstAddressesAreSettled == LedgerSpec => []FirstAddressesSettled
  BY LedgerStart, LedgerStep, SettledStart, SettledStep, SettledIsSettled, PTL DEF LedgerSpec

(***************************************************************************)
(* Amounts                                                                 *)
(***************************************************************************)

\* Total adds up the amounts.
LEMMA TotalIsSum ==
  ASSUME NEW S, IsFiniteSet(S), NEW w
  PROVE  Total(S, w) = SumOf(w, S)
  <1> DEFINE eq(g) == g = [s \in SUBSET S |->
                             IF s = {} THEN 0
                             ELSE w[CHOOSE x \in s : TRUE] + g[s \ {CHOOSE x \in s : TRUE}]]
             h == CHOOSE g : eq(g)
  <1>1. ASSUME NEW g PROVE eq(g) <=> AddsUp(g, w, S)
    BY DEF AddsUp, AnyOf
  <1>2. eq(h)
    <2>1. PICK g : AddsUp(g, w, S)
      BY AddsUpExists
    <2>2. eq(g)
      BY <1>1, <2>1
    <2> HIDE DEF eq
    <2> QED BY <2>2
  <1>3. AddsUp(h, w, S)
    BY <1>1, <1>2
  <1>4. Total(S, w) = h[S]
    BY DEF Total, MapThenSumSet, MapThenFoldSet
  <1> HIDE DEF h, eq
  <1> QED BY <1>3, <1>4, AddsUpSum

\* Sums of values.
LEMMA SatsFacts ==
  ASSUME NEW S \in SUBSET Outputs
  PROVE  /\ IsFiniteSet(S) /\ Sats(S) = SumOf(Value, S) /\ Sats(S) \in Nat
         /\ \A o \in S : Value[o] \in Nat
         /\ \A R \in SUBSET S : Sats(R) <= Sats(S) /\ Sats(R) \in Nat
                                /\ Sats(S) = Sats(R) + Sats(S \ R)
  <1>1. IsFiniteSet(S) /\ \A o \in S : Value[o] \in Nat
    BY ValueAssumption, FS_Subset
  <1>2. \A R \in SUBSET S : Sats(R) = SumOf(Value, R)
    BY <1>1, FS_Subset, TotalIsSum DEF Sats
  <1>3. ASSUME NEW R \in SUBSET S
        PROVE  /\ Sats(R) <= Sats(S) /\ Sats(R) \in Nat /\ Sats(S) \in Nat
               /\ Sats(S) = Sats(R) + Sats(S \ R)
    <2>1. S \in SUBSET S /\ S \ R \in SUBSET S
      OBVIOUS
    <2>2. Sats(R) = SumOf(Value, R) /\ Sats(S) = SumOf(Value, S) /\ Sats(S \ R) = SumOf(Value, S \ R)
      BY <1>2, <2>1
    <2>3. SumOf(Value, R) <= SumOf(Value, S) /\ SumOf(Value, R) \in Nat /\ SumOf(Value, S) \in Nat
      BY <1>1, SumPart
    <2>4. SumOf(Value, S) = SumOf(Value, R) + SumOf(Value, S \ R)
      BY <1>1, SumSplit
    <2> QED BY <2>2, <2>3, <2>4
  <1>4. S \in SUBSET S
    OBVIOUS
  <1> QED BY <1>1, <1>2, <1>3, <1>4

\* The wallet's outputs of a transaction, and its inputs from the wallet.
MineOf(t) == {o \in OutputsOf(t) : Mine(o)}
MineIn(t) == {o \in Spends[t] : InputMine(o)}

\* What a transaction brings, takes and costs: a fee is never negative, and
\* what it takes without the fee goes to others.
LEMMA NetFacts ==
  ASSUME NEW t \in Txs
  PROVE  /\ Net(t) = Sats(MineOf(t)) - Sats(MineIn(t))
         /\ Sats(MineOf(t)) \in Nat /\ Sats(MineIn(t)) \in Nat
         /\ Fee(t) \in Nat
         /\ Fee(t) > 0 => Sats(MineIn(t)) - Sats(MineOf(t)) - Fee(t) \in Nat
  <1>1. OutputsOf(t) \in SUBSET Outputs /\ Spends[t] \in SUBSET Outputs
    BY DataAssumption DEF OutputsOf
  <1>2. MineOf(t) \in SUBSET OutputsOf(t) /\ MineIn(t) \in SUBSET Spends[t]
    BY DEF MineOf, MineIn
  <1>3. /\ Sats(MineOf(t)) <= Sats(OutputsOf(t)) /\ Sats(MineOf(t)) \in Nat
        /\ Sats(OutputsOf(t)) \in Nat
    BY <1>1, <1>2, SatsFacts
  <1>4. Sats(MineIn(t)) \in Nat /\ Sats(Spends[t]) \in Nat
    BY <1>1, <1>2, SatsFacts
  <1>5. Net(t) = Sats(MineOf(t)) - Sats(MineIn(t))
    BY DEF Net, MineOf, MineIn
  <1>6. CASE Funded(t)
    <2>1. Spends[t] # {} /\ MineIn(t) = Spends[t]
      BY <1>6 DEF Funded, MineIn
    <2>2. Fee(t) = Sats(Spends[t]) - Sats(OutputsOf(t))
      BY <1>6 DEF Fee
    <2>3. Sats(OutputsOf(t)) <= Sats(Spends[t])
      BY <2>1, ValueAssumption
    <2> QED BY <1>3, <1>4, <1>5, <2>1, <2>2, <2>3
  <1>7. CASE ~Funded(t)
    <2>1. Fee(t) = 0
      BY <1>7 DEF Fee
    <2> QED BY <1>3, <1>4, <1>5, <2>1
  <1> QED BY <1>6, <1>7

\* The sets of transactions.
LEMMA KnownFacts ==
  ASSUME NEW S \in SUBSET KnownTxs
  PROVE  IsFiniteSet(S) /\ S \subseteq Txs
  <1>1. S \subseteq Txs
    BY DEF KnownTxs
  <1> QED BY <1>1, ValueAssumption, FS_Subset

\* What came in less what went out is what is left, when no output is spent
\* twice.
LEMMA LeftOver ==
  ASSUME \A t, u \in KnownTxs : ~Conflict(t, u),
         NEW in, in = [t \in KnownTxs |-> Sats(MineOf(t))],
         NEW out, out = [t \in KnownTxs |-> Sats(MineIn(t))]
  PROVE  SumOf(in, KnownTxs) = SumOf(out, KnownTxs) + Unspent(KnownTxs)
  <1> DEFINE K == KnownTxs
             F == [t \in K |-> MineOf(t)]
             G == [t \in K |-> MineIn(t)]
             allF == UNION {F[t] : t \in K}
             allG == UNION {G[t] : t \in K}
             left == {o \in Outputs : Creator[o] \in K /\ Mine(o) /\ \A t \in K : o \notin Spends[t]}
  <1>1. IsFiniteSet(K) /\ K \subseteq Txs
    BY KnownFacts
  <1>2. IsFiniteSet(Outputs) /\ \A o \in Outputs : Value[o] \in Nat
    BY ValueAssumption
  <1>3. \A t \in K : F[t] \in SUBSET Outputs /\ G[t] \in SUBSET Outputs
    BY <1>1, DataAssumption DEF MineOf, MineIn, OutputsOf
  <1>4. \A t \in K : in[t] = SumOf(Value, F[t]) /\ out[t] = SumOf(Value, G[t])
    BY <1>3, SatsFacts
  <1>5. \A t, u \in K : t # u => F[t] \cap F[u] = {}
    BY DEF MineOf, OutputsOf
  <1>6. \A t, u \in K : t # u => G[t] \cap G[u] = {}
    BY DEF Conflict, MineIn
  <1> HIDE DEF F, G, K
  <1>7. SumOf(in, K) = SumOf(Value, allF)
    BY ONLY <1>1, <1>2, <1>3, <1>4, <1>5, SumUnion
  <1>8. SumOf(out, K) = SumOf(Value, allG)
    BY ONLY <1>1, <1>2, <1>3, <1>4, <1>6, SumUnion
  <1>9. allF \in SUBSET Outputs /\ \A o : o \in allF <=> o \in Outputs /\ Creator[o] \in K /\ Mine(o)
    <2>1. \A o : o \in allF <=> \E t \in K : o \in MineOf(t)
      BY DEF F
    <2> QED BY <2>1 DEF MineOf, OutputsOf
  <1>10. \A o : o \in allG <=> \E t \in K : o \in Spends[t] /\ InputMine(o)
    BY DEF G, MineIn
  <1>11. \A o \in Outputs : Creator[o] \in K <=> Known(Creator[o])
    BY DataAssumption DEF K, KnownTxs
  <1>12. allG \in SUBSET allF
    <2>1. ASSUME NEW o \in allG PROVE o \in allF
      <3>1. PICK t \in K : o \in Spends[t] /\ InputMine(o)
        BY <1>10
      <3>2. o \in Outputs
        BY <1>1, <3>1, DataAssumption
      <3> QED BY <1>9, <1>11, <3>1, <3>2 DEF InputMine
    <2> QED BY <2>1
  <1>13. allF \ allG = left
    <2>1. ASSUME NEW o \in allF PROVE o \in allG <=> \E t \in K : o \in Spends[t]
      BY <1>9, <1>10, <1>11 DEF InputMine
    <2> QED BY <1>9, <2>1
  <1>14. Sats(allF) = Sats(allG) + Sats(left)
    BY <1>9, <1>12, <1>13, SatsFacts
  <1>15. Sats(allF) = SumOf(Value, allF) /\ Sats(allG) = SumOf(Value, allG)
    BY <1>9, <1>12, SatsFacts
  <1>16. Unspent(K) = Sats(left)
    BY DEF Unspent
  <1> QED BY <1>7, <1>8, <1>14, <1>15, <1>16 DEF K

\* The coins offered are what is left.
LEMMA CoinsLeft == Sats(Coins) = Unspent(KnownTxs)
  <1> DEFINE left == {o \in Outputs : Creator[o] \in KnownTxs /\ Mine(o)
                                      /\ \A t \in KnownTxs : o \notin Spends[t]}
  <1>1. \A o \in Outputs : Creator[o] \in Txs
    BY DataAssumption
  <1>2. Coins = left
    BY <1>1 DEF Coins, Outpoints, KnownTxs, Mine
  <1> QED BY <1>2 DEF Unspent

\* The statistics count what came in and went out.
LEMMA StatsFacts ==
  ASSUME NEW in, in = [t \in KnownTxs |-> Sats(MineOf(t))],
         NEW out, out = [t \in KnownTxs |-> Sats(MineIn(t))]
  PROVE  /\ Received \in Nat /\ Sent \in Nat /\ Fees \in Nat
         /\ SumOf(in, KnownTxs) \in Nat /\ SumOf(out, KnownTxs) \in Nat
         /\ Received - Sent - Fees = SumOf(in, KnownTxs) - SumOf(out, KnownTxs)
  <1> DEFINE K == KnownTxs
             R == {t \in K : Fee(t) = 0 /\ Net(t) > 0}
             P == {t \in K : Fee(t) > 0}
             W == {t \in K : Fee(t) > 0 \/ Net(t) <= 0}
             net == [t \in K |-> Net(t)]
             fee == [t \in K |-> Fee(t)]
             sent == [t \in K |-> -Net(t) - Fee(t)]
             cost == [t \in K |-> IF t \in W THEN out[t] - in[t] ELSE 0]
  <1>1. IsFiniteSet(K) /\ K \subseteq Txs
    BY KnownFacts
  <1>2. ASSUME NEW t \in K
        PROVE  /\ in[t] \in Nat /\ out[t] \in Nat /\ fee[t] \in Nat
               /\ net[t] = in[t] - out[t] /\ sent[t] = out[t] - in[t] - fee[t]
               /\ t \in R <=> fee[t] = 0 /\ net[t] > 0
               /\ t \in P <=> fee[t] > 0
               /\ t \in W <=> fee[t] > 0 \/ net[t] <= 0
               /\ fee[t] > 0 => out[t] - in[t] - fee[t] \in Nat
    <2>1. /\ Net(t) = Sats(MineOf(t)) - Sats(MineIn(t))
          /\ Sats(MineOf(t)) \in Nat /\ Sats(MineIn(t)) \in Nat
          /\ Fee(t) \in Nat
          /\ Fee(t) > 0 => Sats(MineIn(t)) - Sats(MineOf(t)) - Fee(t) \in Nat
      BY <1>1, NetFacts
    <2>2. in[t] = Sats(MineOf(t)) /\ out[t] = Sats(MineIn(t)) /\ fee[t] = Fee(t)
          /\ net[t] = Net(t) /\ sent[t] = -Net(t) - Fee(t)
      OBVIOUS
    <2>3. (t \in R <=> Fee(t) = 0 /\ Net(t) > 0) /\ (t \in P <=> Fee(t) > 0)
          /\ (t \in W <=> Fee(t) > 0 \/ Net(t) <= 0)
      OBVIOUS
    <2> HIDE DEF K, R, P, W, net, fee, sent
    <2> QED BY <2>1, <2>2, <2>3
  <1>3. R \in SUBSET K /\ P \in SUBSET W /\ W \in SUBSET K
    OBVIOUS
  <1>4. \A t \in K : t \in W <=> t \notin R
    <2> SUFFICES ASSUME NEW t \in K PROVE t \in W <=> t \notin R
      OBVIOUS
    <2> HIDE DEF K, R, P, W, net, fee, sent
    <2> QED BY <1>2
  <1>5. Received = Total(R, net) /\ Sent = Total(W, sent) /\ Fees = Total(P, fee)
    BY DEF Received, Sent, Fees
  <1> HIDE DEF K, R, P, W, net, fee, sent, cost
  <1>6. IsFiniteSet(R) /\ IsFiniteSet(P) /\ IsFiniteSet(W) /\ K \ R = W
    BY <1>1, <1>3, <1>4, FS_Subset
  <1>7. Received = SumOf(net, R) /\ Sent = SumOf(sent, W) /\ Fees = SumOf(fee, P)
    BY <1>5, <1>6, TotalIsSum
  <1>8. \A t \in R : net[t] \in Nat /\ out[t] \in Nat /\ in[t] \in Nat /\ in[t] = net[t] + out[t]
    <2> SUFFICES ASSUME NEW t \in R
                 PROVE  net[t] \in Nat /\ out[t] \in Nat /\ in[t] \in Nat /\ in[t] = net[t] + out[t]
      OBVIOUS
    <2>1. t \in K
      BY <1>3
    <2>2. /\ in[t] \in Nat /\ out[t] \in Nat /\ fee[t] \in Nat
          /\ net[t] = in[t] - out[t] /\ sent[t] = out[t] - in[t] - fee[t]
          /\ t \in R <=> fee[t] = 0 /\ net[t] > 0
          /\ t \in W <=> fee[t] > 0 \/ net[t] <= 0
          /\ fee[t] > 0 => out[t] - in[t] - fee[t] \in Nat
      BY <1>2, <2>1
    <2> QED BY ONLY <2>2, t \in R
  <1>9. SumOf(in, R) = Received + SumOf(out, R)
    BY <1>6, <1>7, <1>8, SumAdd
  <1>10. \A t \in W : sent[t] \in Nat /\ fee[t] \in Nat /\ in[t] \in Nat /\ out[t] \in Nat
                      /\ out[t] = sent[t] + (fee[t] + in[t])
    <2> SUFFICES ASSUME NEW t \in W
                 PROVE  sent[t] \in Nat /\ fee[t] \in Nat /\ in[t] \in Nat /\ out[t] \in Nat
                        /\ out[t] = sent[t] + (fee[t] + in[t])
      OBVIOUS
    <2>1. t \in K
      BY <1>3
    <2>2. /\ in[t] \in Nat /\ out[t] \in Nat /\ fee[t] \in Nat
          /\ net[t] = in[t] - out[t] /\ sent[t] = out[t] - in[t] - fee[t]
          /\ t \in W <=> fee[t] > 0 \/ net[t] <= 0
          /\ fee[t] > 0 => out[t] - in[t] - fee[t] \in Nat
      BY <1>2, <2>1
    <2> QED BY ONLY <2>2, t \in W
  <1> DEFINE both == [t \in W |-> fee[t] + in[t]]
  <1>11. \A t \in W : both[t] = fee[t] + in[t] /\ both[t] \in Nat
    BY <1>10
  <1> HIDE DEF both
  <1>12. SumOf(out, W) = SumOf(sent, W) + SumOf(both, W)
    <2>1. \A t \in W : sent[t] \in Nat /\ both[t] \in Nat /\ out[t] = sent[t] + both[t]
      BY <1>10, <1>11
    <2> QED BY ONLY <1>6, <2>1, SumAdd
  <1>13. SumOf(both, W) = SumOf(fee, W) + SumOf(in, W)
    <2>1. \A t \in W : fee[t] \in Nat /\ in[t] \in Nat /\ both[t] = fee[t] + in[t]
      BY <1>10, <1>11
    <2> QED BY ONLY <1>6, <2>1, SumAdd
  <1>14. SumOf(fee, W) = Fees
    <2>1. SumOf(fee, W) = SumOf(fee, P) + SumOf(fee, W \ P)
      <3>1. \A t \in W : fee[t] \in Nat
        BY <1>10
      <3> QED BY ONLY <1>3, <1>6, <3>1, SumSplit
    <2>2. ASSUME NEW t \in W \ P PROVE fee[t] = 0
      <3>1. t \in K /\ ~(fee[t] > 0) /\ fee[t] \in Nat
        BY <1>2, <1>3
      <3> QED BY <3>1
    <2>3. SumOf(fee, W \ P) = 0
      BY <1>6, <2>2, FS_Subset, SumZero
    <2>4. SumOf(fee, P) \in Nat
      BY <1>3, <1>6, <1>10, SumPart
    <2> QED BY <1>7, <2>1, <2>3, <2>4
  <1>15. \A t \in K : in[t] \in Nat /\ out[t] \in Nat
    BY <1>2
  <1>16. SumOf(in, K) = SumOf(in, R) + SumOf(in, W) /\ SumOf(out, K) = SumOf(out, R) + SumOf(out, W)
    BY <1>1, <1>3, <1>6, <1>15, SumSplit
  <1>17. SumOf(net, R) \in Nat /\ SumOf(sent, W) \in Nat /\ SumOf(fee, P) \in Nat
    <2>1. R \in SUBSET R /\ W \in SUBSET W
      OBVIOUS
    <2> QED BY <1>3, <1>6, <1>8, <1>10, <2>1, SumPart
  <1>18. /\ SumOf(in, R) \in Nat /\ SumOf(in, W) \in Nat /\ SumOf(out, R) \in Nat /\ SumOf(out, W) \in Nat
         /\ SumOf(in, K) \in Nat /\ SumOf(out, K) \in Nat
    BY <1>1, <1>3, <1>15, SumPart
  <1> DEFINE inK == SumOf(in, K)
             inR == SumOf(in, R)
             inW == SumOf(in, W)
             outK == SumOf(out, K)
             outR == SumOf(out, R)
             outW == SumOf(out, W)
             r == Received
             s == Sent
             f == Fees
  <1>19. /\ r \in Nat /\ s \in Nat /\ f \in Nat
         /\ inK \in Nat /\ inR \in Nat /\ inW \in Nat /\ outK \in Nat /\ outR \in Nat /\ outW \in Nat
    BY <1>7, <1>17, <1>18
  <1>20. inR = r + outR /\ outW = s + (f + inW) /\ inK = inR + inW /\ outK = outR + outW
    BY <1>7, <1>9, <1>12, <1>13, <1>14, <1>16
  <1>21. r - s - f = inK - outK
    <2> HIDE DEF r, s, f, inK, inR, inW, outK, outR, outW
    <2> QED BY <1>19, <1>20
  <1> QED BY <1>19, <1>21 DEF K

\* Whatever the tables hold, the amounts agree.
LEMMA AmountsHold == AmountsAgree
  <1> SUFFICES ASSUME \A t, u \in KnownTxs : ~Conflict(t, u)
               PROVE  /\ Received - Sent - Fees = ConfirmedBalance + PendingBalance
                      /\ Sats(Coins) = ConfirmedBalance + PendingBalance
                      /\ Received >= 0 /\ Sent >= 0 /\ Fees >= 0
    BY DEF AmountsAgree
  <1> DEFINE in == [t \in KnownTxs |-> Sats(MineOf(t))]
             out == [t \in KnownTxs |-> Sats(MineIn(t))]
  <1>1. \A S : Unspent(S) \in Nat
    <2> SUFFICES ASSUME NEW S PROVE Unspent(S) \in Nat
      OBVIOUS
    <2>1. {o \in Outputs : Creator[o] \in S /\ Mine(o) /\ \A t \in S : o \notin Spends[t]} \in SUBSET Outputs
      OBVIOUS
    <2> QED BY <2>1, SatsFacts DEF Unspent
  <1>2. ConfirmedBalance + PendingBalance = Unspent(KnownTxs)
    BY <1>1 DEF ConfirmedBalance, PendingBalance
  <1>3. SumOf(in, KnownTxs) = SumOf(out, KnownTxs) + Unspent(KnownTxs)
    BY LeftOver
  <1>4. /\ Received \in Nat /\ Sent \in Nat /\ Fees \in Nat
        /\ SumOf(in, KnownTxs) \in Nat /\ SumOf(out, KnownTxs) \in Nat
        /\ Received - Sent - Fees = SumOf(in, KnownTxs) - SumOf(out, KnownTxs)
    BY StatsFacts
  <1> HIDE DEF in, out
  <1>5. Received - Sent - Fees = Unspent(KnownTxs)
    BY <1>1, <1>3, <1>4
  <1> QED BY <1>2, <1>4, <1>5, CoinsLeft

\* Statistics, balances and coins agree in every reachable state, for every
\* set of transactions and every value of the outputs.
THEOREM AmountsAlwaysAgree == LedgerSpec => []AmountsAgree
  BY AmountsHold, PTL DEF LedgerSpec

=============================================================================
