------------------------- MODULE FilterRoundProofs -------------------------
(***************************************************************************)
(* Proofs about FilterRound: type correctness; that a pinned honest peer   *)
(* that is not long away keeps filters that hide a payment out of the      *)
(* table; that one honest peer among those that serve a batch does so for  *)
(* the batch; and that an honest majority of them gets its filters         *)
(* accepted.  They hold for any number of peers, honest or not, of blocks  *)
(* and of failures.                                                        *)
(***************************************************************************)
EXTENDS FilterRound, KeepingProofs

USE DEF round, vars

Row == [filter : Filters, header : Header, fallback : BOOLEAN]

(***************************************************************************)
(* Peers                                                                   *)
(***************************************************************************)

\* The lists of peers are made of connected ones.
LEMMA AskedFacts ==
  ASSUME pool \in Seq(Peers)
  PROVE  FilterPeers \in Seq(Peers)
  <1>1. Keep(pool, {pinned}) \in Seq(Peers) /\ Keep(pool, Peers \ {pinned}) \in Seq(Peers)
    <2>1. /\ Keep(pool, {pinned}) \in Seq(Peers \cap {pinned})
          /\ Keep(pool, Peers \ {pinned}) \in Seq(Peers \cap (Peers \ {pinned}))
      BY KeepFacts
    <2>2. Peers \cap {pinned} \subseteq Peers /\ Peers \cap (Peers \ {pinned}) \subseteq Peers
      OBVIOUS
    <2> QED BY <2>1, <2>2, SeqMonotone
  <1>2. Ordered \in Seq(Peers)
    BY <1>1, ConcatProperties DEF Ordered
  <1>3. Len(Ordered) \in Nat
    BY <1>2, LenProperties
  <1>4. Smaller(Len(Ordered), TargetPeers) \in 0..Len(Ordered)
    BY <1>3, BoundsAssumption DEF Smaller
  <1>5. SubSeq(Ordered, 1, Smaller(Len(Ordered), TargetPeers)) \in Seq(Peers)
    <2>1. \A n \in 0..Len(Ordered) : SubSeq(Ordered, 1, n) \in Seq(Peers)
      BY <1>2
    <2> QED BY <1>4, <2>1
  <1> QED BY <1>5 DEF FilterPeers

\* A list filtered is a list of the same kind.
LEMMA KeptPeers ==
  ASSUME NEW ps \in Seq(Peers), NEW S
  PROVE  /\ Keep(ps, S) \in Seq(Peers)
         /\ ToSet(Keep(ps, S)) = ToSet(ps) \cap S
         /\ Len(Keep(ps, S)) <= Len(ps)
  <1>1. Keep(ps, S) \in Seq(Peers \cap S) /\ Peers \cap S \subseteq Peers
    BY KeepFacts
  <1> QED BY <1>1, KeepFacts, KeepElements, SeqMonotone

(***************************************************************************)
(* The pool                                                                *)
(***************************************************************************)

\* Each peer is connected once, and a slot is kept for the pinned one.
PoolOnce ==
  /\ pool \in Seq(Peers)
  /\ Distinct(pool)
  /\ Len(pool) <= IF pinned = None \/ Contains(pool, pinned) THEN TargetPeers ELSE TargetPeers - 1

\* What is left of the pool when peers other than the pinned one go.
LEMMA PoolKept ==
  ASSUME PoolOnce, NEW S, pinned \in Pins, pinned \in S \/ ~Contains(pool, pinned) \/ pinned = None
  PROVE  /\ Keep(pool, S) \in Seq(Peers) /\ Distinct(Keep(pool, S))
         /\ Len(Keep(pool, S)) <= IF pinned = None \/ Contains(Keep(pool, S), pinned)
                                    THEN TargetPeers ELSE TargetPeers - 1
  <1>1. /\ Keep(pool, S) \in Seq(Peers) /\ Len(Keep(pool, S)) <= Len(pool)
        /\ ToSet(Keep(pool, S)) = ToSet(pool) \cap S
    BY KeptPeers DEF PoolOnce
  <1>2. Distinct(Keep(pool, S))
    BY KeepDistinct DEF PoolOnce
  <1>3. /\ Contains(pool, pinned) <=> pinned \in ToSet(pool)
        /\ Contains(Keep(pool, S), pinned) <=> pinned \in ToSet(Keep(pool, S))
        /\ Len(pool) \in Nat /\ Len(Keep(pool, S)) \in Nat
    BY <1>1, SeqElements DEF PoolOnce
  <1>4. pinned # None /\ ~Contains(Keep(pool, S), pinned) => ~Contains(pool, pinned)
    BY <1>1, <1>3
  <1>5. Len(pool) <= IF pinned = None \/ Contains(Keep(pool, S), pinned)
                       THEN TargetPeers ELSE TargetPeers - 1
    BY <1>3, <1>4, BoundsAssumption DEF PoolOnce
  <1>6. (IF pinned = None \/ Contains(Keep(pool, S), pinned) THEN TargetPeers ELSE TargetPeers - 1) \in Int
    BY BoundsAssumption
  <1>7. Len(Keep(pool, S)) <= IF pinned = None \/ Contains(Keep(pool, S), pinned)
                                THEN TargetPeers ELSE TargetPeers - 1
    BY <1>1, <1>3, <1>5, <1>6
  <1> QED BY <1>1, <1>2, <1>7

\* A pool of distinct peers has the type it should have.
LEMMA PoolType ==
  ASSUME PoolOnce
  PROVE  pool \in Seq(Peers) /\ Len(pool) = Cardinality(ToSet(pool)) /\ Len(pool) <= TargetPeers + 1
  <1>1. Len(pool) \in Nat /\ Len(pool) <= TargetPeers
    BY SeqElements, BoundsAssumption DEF PoolOnce
  <1> QED BY <1>1, DistinctLength, BoundsAssumption DEF PoolOnce

\* conn.drop leaves the pool as it should be.
LEMMA DroppingKeeps ==
  ASSUME PoolOnce, pinned \in Pins, NEW S, pool' = Dropping(S), pinned' = pinned
  PROVE  PoolOnce'
  <1>1. pinned \in (Peers \ S) \cup {pinned}
    OBVIOUS
  <1> QED BY <1>1, PoolKept DEF Dropping, PoolOnce

\* Every step leaves the pool as it should be.
LEMMA PoolStep ==
  ASSUME PoolOnce, pinned \in Pins, [Next]_vars
  PROVE  PoolOnce'
  <1>1. CASE pool' = pool /\ pinned' = pinned
    BY <1>1 DEF PoolOnce
  <1>2. ASSUME NEW S, pool' = Dropping(S), pinned' = pinned PROVE PoolOnce'
    BY <1>2, DroppingKeeps
  <1>3. CASE pool' = << >> /\ pinned' = pinned
    <2>1. << >> \in Seq(Peers) /\ Len(<< >>) = 0 /\ \A x : ~Contains(<< >>, x)
      BY DEF Contains
    <2> QED BY <1>3, <2>1, BoundsAssumption DEF PoolOnce, Distinct
  <1>4. ASSUME NEW p \in Peers, Join(p) PROVE PoolOnce'
    <2>1. pool' = Append(pool, p) /\ pinned' = pinned /\ p \notin ToSet(pool)
      BY <1>4, SeqElements DEF Join, PoolOnce
    <2>2. /\ pool' \in Seq(Peers) /\ Len(pool') = Len(pool) + 1 /\ Distinct(pool')
          /\ ToSet(pool') = ToSet(pool) \cup {p}
      BY <2>1, AppendDistinct DEF PoolOnce
    <2>3. /\ Contains(pool, pinned) <=> pinned \in ToSet(pool)
          /\ Contains(pool', pinned) <=> pinned \in ToSet(pool')
          /\ Len(pool) \in Nat
      BY <2>2, SeqElements DEF PoolOnce
    <2>4. p # None
      BY PeersAssumption
    <2>5. CASE p = pinned
      <3>1. Len(pool) <= TargetPeers - 1
        BY <2>1, <2>3, <2>4, <2>5 DEF PoolOnce
      <3>2. Len(pool') <= TargetPeers /\ Contains(pool', pinned)
        BY <2>2, <2>3, <2>5, <3>1, BoundsAssumption
      <3> QED BY <2>1, <2>2, <3>2 DEF PoolOnce
    <2>6. CASE p # pinned
      <3>1. Len(pool) < TargetPeers - (IF pinned = None \/ Contains(pool, pinned) THEN 0 ELSE 1)
        BY <1>4, <2>6 DEF Join
      <3>2. Contains(pool', pinned) <=> Contains(pool, pinned)
        BY <2>2, <2>3, <2>6
      <3>3. Len(pool') <= IF pinned = None \/ Contains(pool', pinned) THEN TargetPeers ELSE TargetPeers - 1
        BY <2>2, <2>3, <3>1, <3>2, BoundsAssumption
      <3> QED BY <2>1, <2>2, <3>3 DEF PoolOnce
    <2> QED BY <2>5, <2>6
  <1>5. ASSUME NEW p \in Peers, Leave(p) PROVE PoolOnce'
    <2>1. pool' = Keep(pool, Peers \ {p}) /\ pinned' = pinned
      BY <1>5 DEF Leave
    <2>2. /\ pool' \in Seq(Peers) /\ Distinct(pool') /\ Len(pool') <= Len(pool)
          /\ ToSet(pool') = ToSet(pool) \cap (Peers \ {p})
      BY <2>1, KeptPeers, KeepDistinct DEF PoolOnce
    <2>3. CASE p # pinned
      <3>1. pinned \in Peers \ {p} \/ pinned = None
        BY <2>3, PeersAssumption
      <3> QED BY <2>1, <3>1, PoolKept DEF PoolOnce
    <2>4. CASE p = pinned
      <3>1. /\ Contains(pool, pinned) /\ pinned # None
            /\ Len(pool) \in Nat /\ Len(pool') \in Nat
        BY <1>5, <2>2, <2>4, PeersAssumption, SeqElements DEF Leave, PoolOnce
      <3>2. /\ ToSet(pool') # ToSet(pool) /\ ToSet(pool') \in SUBSET ToSet(pool)
            /\ IsFiniteSet(ToSet(pool)) /\ Len(pool) = Cardinality(ToSet(pool))
            /\ Len(pool') = Cardinality(ToSet(pool'))
        <4>1. pinned \in ToSet(pool)
          BY <3>1, SeqElements DEF PoolOnce
        <4> QED BY <2>2, <2>4, <4>1, DistinctLength DEF PoolOnce
      <3>3. Len(pool') # Len(pool)
        BY <3>2, FS_Subset
      <3>4. Len(pool') <= TargetPeers - 1
        <4>1. Len(pool) <= TargetPeers
          BY <3>1 DEF PoolOnce
        <4> QED BY <2>2, <3>1, <3>3, <4>1, BoundsAssumption
      <3>5. ~Contains(pool', pinned)
        BY <2>2, <2>4, SeqElements
      <3> QED BY <2>1, <2>2, <3>1, <3>4, <3>5 DEF PoolOnce
    <2> QED BY <2>3, <2>4
  <1>6. CASE BeginRound \/ Agree \/ StoreFilters \/ NoteLeft \/ TimePasses \/ UNCHANGED vars
    BY <1>1, <1>6 DEF BeginRound, Agree, StoreFilters, NoteLeft, TimePasses
  <1>7. CASE ProveAnchor \/ FilterHashes \/ FetchFilters \/ Settle
    BY <1>2, <1>7 DEF ProveAnchor, FilterHashes, FetchFilters, Settle
  <1>8. CASE Unsettled \/ Fail
    BY <1>1, <1>2, <1>3, <1>8 DEF Unsettled, Fail
  <1> QED BY <1>4, <1>5, <1>6, <1>7, <1>8 DEF Next, SyncLoop

(***************************************************************************)
(* The rows                                                                *)
(***************************************************************************)

\* Storing the filters accepted appends a row for each.
LEMMA StoredFacts ==
  ASSUME NEW fs \in Seq(Filters), rows \in Seq(Row), fallback \in BOOLEAN
  PROVE  /\ StoredRows(fs) \in Seq(Row)
         /\ Len(StoredRows(fs)) = Len(rows) + Len(fs)
         /\ \A i \in 1..Len(StoredRows(fs)) :
              \/ i \in 1..Len(rows) /\ StoredRows(fs)[i] = rows[i]
              \/ /\ i - Len(rows) \in 1..Len(fs)
                 /\ StoredRows(fs)[i].filter = fs[i - Len(rows)]
                 /\ StoredRows(fs)[i].fallback = fallback
  <1> DEFINE new == [k \in 1..Len(fs) |->
                       [filter |-> fs[k], header |-> ChainedHeader(fs, k), fallback |-> fallback]]
  <1>1. Len(fs) \in Nat /\ Len(rows) \in Nat /\ \A k \in 1..Len(fs) : fs[k] \in Filters
    BY SeqElements
  <1>2. new \in [1..Len(fs) -> Row]
    BY <1>1 DEF Row, Header, ChainedHeader
  <1>3. new \in Seq(Row) /\ Len(new) = Len(fs)
    <2> HIDE DEF new
    <2> QED BY <1>1, <1>2, IsASeq, LenProperties
  <1>4. ASSUME NEW k \in 1..Len(fs) PROVE new[k].filter = fs[k] /\ new[k].fallback = fallback
    <2>1. new[k] = [filter |-> fs[k], header |-> ChainedHeader(fs, k), fallback |-> fallback]
      OBVIOUS
    <2>2. new[k].filter = fs[k]
      BY <2>1
    <2>3. new[k].fallback = fallback
      <3>1. \A r : r = [filter |-> fs[k], header |-> ChainedHeader(fs, k), fallback |-> fallback] =>
              r.fallback = fallback
        OBVIOUS
      <3> QED BY <2>1, <3>1
    <2> QED BY <2>2, <2>3
  <1> HIDE DEF new
  <1>5. /\ rows \o new \in Seq(Row) /\ Len(rows \o new) = Len(rows) + Len(new)
        /\ \A i \in 1..(Len(rows) + Len(new)) :
             (rows \o new)[i] = IF i <= Len(rows) THEN rows[i] ELSE new[i - Len(rows)]
    BY <1>3, ConcatProperties
  <1>6. ASSUME NEW i \in 1..(Len(rows) + Len(fs))
        PROVE  \/ i \in 1..Len(rows) /\ (rows \o new)[i] = rows[i]
               \/ /\ i - Len(rows) \in 1..Len(fs)
                  /\ (rows \o new)[i].filter = fs[i - Len(rows)]
                  /\ (rows \o new)[i].fallback = fallback
    <2>1. CASE i <= Len(rows)
      BY <1>1, <1>3, <1>5, <2>1
    <2>2. CASE ~(i <= Len(rows))
      <3>1. i - Len(rows) \in 1..Len(fs)
        BY <1>1, <2>2
      <3> QED BY <1>1, <1>3, <1>4, <1>5, <2>2, <3>1
    <2> QED BY <2>1, <2>2
  <1>7. StoredRows(fs) = rows \o new
    BY DEF StoredRows, new
  <1> QED BY <1>3, <1>5, <1>6, <1>7

(***************************************************************************)
(* The inductive invariant                                                 *)
(***************************************************************************)

\* The hashes of a batch are filters for its blocks, which are below the tip.
Committed ==
  /\ Len(hashes) \in Nat /\ DOMAIN hashes = 1..Len(hashes)
  /\ pc \in {"filters", "choose"} =>
       /\ Resume <= end
       /\ \A i \in 1..Len(hashes) : \A b \in Resume..end : hashes[i][b] \in Filters
  /\ pc \in {"prove", "hashes"} => Resume <= Blocks

\* The filters of block b that were served are filters, the true one by honest
\* peers.
ServedFor(b) ==
  \A i \in 1..Len(answers) :
    /\ answers[i].filters[b] \in Filters
    /\ answers[i].peer \in Honest => answers[i].filters[b] = Correct

\* The filters of a batch were served by some peers, the pinned one first but
\* in the fallback.
Served ==
  /\ Len(answers) \in Nat /\ DOMAIN answers = 1..Len(answers)
  /\ pc = "choose" =>
       /\ Len(answers) > 0
       /\ \A b \in Resume..BatchEnd : ServedFor(b)
       /\ pinned # None => answers[1].peer = pinned \/ fallback
       /\ Height <= BatchEnd + 1
  /\ pc # "choose" => answers = << >> /\ picked = << >>

RoundInv == TypeOK /\ PoolOnce /\ Committed /\ Served

\* The numbers of a batch: its blocks are those between the rows and the tip.
LEMMA BatchFacts ==
  ASSUME TypeOK
  PROVE  /\ Len(rows) \in Nat /\ Len(picked) \in Nat
         /\ Resume = Len(rows) + 1 /\ Resume \in Nat
         /\ Height = Len(rows) + 1 + Len(picked) /\ Height \in Nat
         /\ end \in Nat /\ end <= Blocks /\ Blocks \in Nat
         /\ BatchEnd \in Int /\ BatchEnd <= end
         /\ Resume <= end => Resume <= BatchEnd
  <1>1. Len(rows) \in Nat /\ Len(picked) \in Nat /\ Blocks \in Nat /\ end \in 0..Blocks
    BY SeqElements, BoundsAssumption DEF TypeOK
  <1> QED BY <1>1, BoundsAssumption DEF Resume, Height, BatchEnd, Smaller

\* Unanswered requests of honest peers use up the adverse events left.
LEMMA AnsweredFacts ==
  ASSUME trouble \in 0..MaxTrouble, NEW asked, NEW A, Answered(asked, A)
  PROVE  A \subseteq ToSet(asked) /\ trouble' \in 0..MaxTrouble
  BY BoundsAssumption DEF Answered

\* The invariant holds at the start.
LEMMA RoundInit == Init => RoundInv
  <1> SUFFICES ASSUME Init PROVE RoundInv
    OBVIOUS
  <1>1. /\ \A S : << >> \in Seq(S)
        /\ Len(<< >>) = 0 /\ DOMAIN << >> = {}
        /\ \A x : ~Contains(<< >>, x)
    BY DEF Contains
  <1>2. PoolOnce
    BY <1>1, BoundsAssumption DEF Init, PoolOnce, Distinct
  <1>3. /\ rows = << >> /\ peers = << >> /\ hashes = << >> /\ picked = << >> /\ answers = << >>
        /\ end = 0 /\ fallback = FALSE /\ seen = "recent" /\ pc = "idle" /\ trouble = MaxTrouble /\ anchor = "none" /\ anchorTried = FALSE
        /\ pinned \in Pins
    BY DEF Init
  <1>4. rows \in Seq(Row) /\ peers \in Seq(Peers) /\ picked \in Seq(Filters)
    BY <1>1, <1>3
  <1>5. Len(rows) <= Blocks /\ Len(peers) <= Len(hashes) /\ end \in 0..Blocks /\ trouble \in 0..MaxTrouble
    BY <1>1, <1>3, BoundsAssumption
  <1>6. TypeOK
    BY <1>1, <1>2, <1>3, <1>4, <1>5, PoolType DEF TypeOK, Row
  <1>7. 1..0 = {}
    OBVIOUS
  <1>8. Committed /\ Served
    BY <1>1, <1>3, <1>7 DEF Committed, Served
  <1> QED BY <1>2, <1>6, <1>8 DEF RoundInv

(***************************************************************************)
(* One step                                                                *)
(***************************************************************************)

\* The pool keeps its type, and so does pinnedSeen.
LEMMA PoolTypeStep ==
  ASSUME PoolOnce, pinned \in Pins, seen \in {"recent", "past", "closing"}, [Next]_vars
  PROVE  /\ pool' \in Seq(Peers) /\ Len(pool') = Cardinality(ToSet(pool')) /\ Len(pool') <= TargetPeers + 1
         /\ seen' \in {"recent", "past", "closing"}
  <1>1. PoolOnce'
    BY PoolStep
  <1>2. pool' \in Seq(Peers) /\ Distinct(pool') /\ (Len(pool') <= TargetPeers \/ Len(pool') <= TargetPeers - 1)
    BY <1>1 DEF PoolOnce
  <1>3. Len(pool') = Cardinality(ToSet(pool')) /\ Len(pool') \in Nat
    BY <1>2, DistinctLength, SeqElements
  <1>4. seen' \in {"recent", "past", "closing"}
    <2>1. CASE SyncLoop \/ UNCHANGED vars
      BY <2>1 DEF SyncLoop, BeginRound, ProveAnchor, FilterHashes, FetchFilters, Agree, Settle,
                  Unsettled, StoreFilters
    <2>2. CASE Fail \/ NoteLeft \/ TimePasses
      BY <2>2 DEF Fail, NoteLeft, TimePasses
    <2>3. ASSUME NEW p \in Peers, Join(p) \/ Leave(p) PROVE seen' \in {"recent", "past", "closing"}
      BY <2>3 DEF Join, Leave
    <2> QED BY <2>1, <2>2, <2>3 DEF Next
  <1> QED BY <1>2, <1>3, <1>4, BoundsAssumption

\* Nothing is left of a round that ends.
LEMMA EndRoundFacts ==
  ASSUME EndRound
  PROVE  /\ Committed' /\ Served'
         /\ pc' = "idle" /\ end' \in 0..Blocks /\ fallback' \in BOOLEAN
         /\ peers' \in Seq(Peers) /\ Len(peers') <= Len(hashes')
         /\ \A i \in DOMAIN answers' : answers'[i].peer \in ToSet(peers')
         /\ picked' \in Seq(Filters)
  <1>1. /\ \A S : << >> \in Seq(S)
        /\ Len(<< >>) = 0 /\ DOMAIN << >> = {} /\ 1..0 = {}
    OBVIOUS
  <1>2. /\ peers' = << >> /\ hashes' = << >> /\ picked' = << >> /\ answers' = << >>
        /\ end' = 0 /\ pc' = "idle" /\ fallback' = FALSE
    BY DEF EndRound, NoRound
  <1>3. Committed' /\ Served'
    BY <1>1, <1>2 DEF Committed, Served
  <1>4. fallback' \in BOOLEAN
    BY <1>2
  <1>5. end' \in 0..Blocks
    BY <1>2, BoundsAssumption
  <1> QED BY <1>1, <1>2, <1>3, <1>4, <1>5

\* The filters accepted fit below the tip, when they are stored too.
LEMMA StoredFit ==
  ASSUME TypeOK, Served, Committed
  PROVE  /\ StoredRows(picked) \in Seq(Row)
         /\ Len(StoredRows(picked)) = Len(rows) + Len(picked)
         /\ Len(rows) + Len(picked) <= Blocks
  <1>1. picked \in Seq(Filters) /\ rows \in Seq(Row) /\ Len(rows) <= Blocks /\ fallback \in BOOLEAN
    BY DEF TypeOK, Row
  <1>2. /\ StoredRows(picked) \in Seq(Row)
        /\ Len(StoredRows(picked)) = Len(rows) + Len(picked)
    BY <1>1, StoredFacts
  <1>3. Len(rows) + Len(picked) <= Blocks
    <2>1. CASE pc = "choose"
      <3>1. Height <= BatchEnd + 1
        BY <2>1 DEF Served
      <3> QED BY <3>1, BatchFacts
    <2>2. CASE pc # "choose"
      <3>1. picked = << >> /\ Len(<< >>) = 0
        BY <2>2 DEF Served
      <3> QED BY <1>1, <3>1, BatchFacts
    <2> QED BY <2>1, <2>2
  <1> QED BY <1>2, <1>3

\* The anchor taken is a header.
LEMMA AnchorFromFacts ==
  ASSUME NEW S, NEW claims \in [S -> Header], NEW first \in S
  PROVE  AnchorFrom(claims, first) \in Header
  BY DEF AnchorFrom, Header

\* A batch of filter headers begins.
LEMMA FilterHashesStep ==
  ASSUME RoundInv, FilterHashes, [Next]_vars
  PROVE  TypeOK' /\ Committed' /\ Served'
  <1> DEFINE last == Smaller(Resume + FilterHeaderBatch - 1, Blocks)
             asked == FilterPeers
  <1>1. TypeOK /\ PoolOnce /\ Committed /\ Served /\ pinned \in Pins
    BY DEF RoundInv, TypeOK
  <1>2. asked \in Seq(Peers)
    BY <1>1, AskedFacts DEF PoolOnce
  <1> DEFINE prevOf(A, claims) ==
               IF Prev = "none" THEN AnchorFrom(claims, Keep(asked, A)[1]) ELSE Prev
             okOf(A, claims) == Keep(asked, {p \in A : claims[p] = prevOf(A, claims)})
             Step(A, claims) ==
               /\ Answered(asked, A)
               /\ anchor' = IF Prev = "none" /\ A # {} THEN prevOf(A, claims) ELSE anchor
               /\ IF okOf(A, claims) # << >> /\ RequirePrimary(okOf(A, claims))
                    THEN /\ peers' = okOf(A, claims)
                         /\ hashes' \in Commitments(okOf(A, claims), Resume..last)
                         /\ end' = last
                         /\ pc' = "filters"
                         /\ UNCHANGED <<answers, fallback, picked>>
                    ELSE EndRound
  <1>3a. \E A \in SUBSET ToSet(asked) : \E claims \in Votes(A) : Step(A, claims)
    BY DEF FilterHashes
  <1>3b. PICK A \in SUBSET ToSet(asked) : \E claims \in Votes(A) : Step(A, claims)
    BY <1>3a
  <1>3. PICK claims \in Votes(A) : Step(A, claims)
    BY <1>3b
  <1> DEFINE prev == prevOf(A, claims)
             ok == okOf(A, claims)
  <1>4. /\ Answered(asked, A)
        /\ anchor' = IF Prev = "none" /\ A # {} THEN prev ELSE anchor
        /\ \/ /\ peers' = ok
              /\ hashes' \in Commitments(ok, Resume..last)
              /\ end' = last
              /\ pc' = "filters"
              /\ UNCHANGED <<answers, fallback, picked>>
           \/ EndRound
    BY <1>3
  <1>5. ok \in Seq(Peers) /\ Keep(asked, A) \in Seq(Peers) /\ ToSet(Keep(asked, A)) = ToSet(asked) \cap A
    BY <1>2, KeptPeers
  <1>6. anchor' \in Header \cup {"none"}
    <2>1. CASE Prev = "none" /\ A # {}
      <3>1. ToSet(Keep(asked, A)) = A
        BY <1>5
      <3>2. Keep(asked, A)[1] \in A
        <4>1. Len(Keep(asked, A)) \in Nat /\ Len(Keep(asked, A)) # 0
          BY <1>5, <2>1, <3>1, SeqElements
        <4> QED BY <1>5, <3>1, <4>1, SeqElements
      <3>3. claims \in [A -> Header]
        BY DEF Votes
      <3>4. AnchorFrom(claims, Keep(asked, A)[1]) \in Header
        BY <3>2, <3>3, AnchorFromFacts
      <3> QED BY <1>4, <2>1, <3>4
    <2>2. CASE ~(Prev = "none" /\ A # {})
      BY <1>1, <1>4, <2>2 DEF TypeOK
    <2> QED BY <2>1, <2>2
  <1>7. trouble' \in 0..MaxTrouble
    BY <1>1, <1>4, AnsweredFacts DEF TypeOK
  <1>8. /\ pinned' = pinned /\ rows' = rows /\ anchorTried' = anchorTried /\ pc = "hashes" /\ seen' = seen
    BY DEF FilterHashes
  <1>9. CASE EndRound
    BY <1>1, <1>6, <1>7, <1>8, <1>9, EndRoundFacts, PoolTypeStep DEF TypeOK
  <1>10. CASE /\ peers' = ok
              /\ hashes' \in Commitments(ok, Resume..last)
              /\ end' = last
              /\ pc' = "filters"
              /\ UNCHANGED <<answers, fallback, picked>>
    <2>1. Len(rows) \in Nat /\ Resume = Len(rows) + 1 /\ Resume <= Blocks /\ Blocks \in Nat
      BY <1>1, <1>8, BatchFacts DEF Committed
    <2>2. last \in 0..Blocks /\ Resume <= last /\ Resume' = Resume
      BY <1>8, <2>1, BoundsAssumption DEF Smaller, Resume
    <2>3. answers = << >> /\ picked = << >>
      BY <1>1, <1>8 DEF Served
    <2> HIDE DEF ok, last
    <2>4. DOMAIN ok = 1..Len(ok) /\ Len(ok) \in Nat /\ \A i \in DOMAIN ok : ok[i] \in ToSet(ok)
      BY <1>5, SeqElements
    <2>5. hashes' \in [DOMAIN ok -> [Resume..last -> Filters]]
      <3>1. PICK lies \in [ToSet(ok) \ Honest -> [Resume..last -> Filters]] :
              hashes' = [i \in DOMAIN ok |->
                           IF ok[i] \in Honest THEN [b \in Resume..last |-> Correct] ELSE lies[ok[i]]]
        BY <1>10 DEF Commitments
      <3>2. [b \in Resume..last |-> Correct] \in [Resume..last -> Filters]
        BY FiltersAssumption
      <3> QED BY <2>4, <3>1, <3>2
    <2>6. Len(hashes') = Len(ok) /\ DOMAIN hashes' = 1..Len(ok)
      BY <2>4, <2>5, LenProperties, IsASeq
    <2>7. Committed'
      BY <1>10, <2>2, <2>4, <2>5, <2>6 DEF Committed
    <2>8. Served'
      BY <1>1, <1>10, <2>3 DEF Served
    <2>9. TypeOK'
      <3>1. \A i \in DOMAIN answers' : answers'[i].peer \in ToSet(peers')
        BY <1>10, <2>3
      <3>2. peers' \in Seq(Peers) /\ Len(peers') <= Len(hashes')
        BY <1>5, <1>10, <2>5, <2>6
      <3>3. end' \in 0..Blocks /\ picked' \in Seq(Filters)
        BY <1>1, <1>10, <2>2 DEF TypeOK
      <3> QED BY <1>1, <1>6, <1>7, <1>8, <1>10, <3>1, <3>2, <3>3, PoolTypeStep DEF TypeOK
    <2> QED BY <2>7, <2>8, <2>9
  <1> QED BY <1>4, <1>9, <1>10

\* The filters of a batch are served, by the pinned peer first when there is
\* one.
LEMMA FetchFiltersStep ==
  ASSUME RoundInv, FetchFilters, [Next]_vars
  PROVE  TypeOK' /\ Committed' /\ Served'
  <1> DEFINE batch == Resume..BatchEnd
             live == Keep(peers, ToSet(pool))
             place(p) == CHOOSE i \in DOMAIN peers : peers[i] = p
             list(p) == hashes[place(p)]
             matching(A) == {p \in A : p \in Honest => \A b \in batch : list(p)[b] = Correct}
             okOf(A) == Keep(live, matching(A))
             Step(A) ==
               /\ Answered(live, A)
               /\ IF okOf(A) # << >> /\ RequirePrimary(okOf(A))
                    THEN /\ answers' = [i \in DOMAIN okOf(A) |->
                                          [peer |-> okOf(A)[i], filters |-> list(okOf(A)[i])]]
                         /\ fallback' = PinnedAway
                         /\ pc' = "choose"
                         /\ UNCHANGED <<peers, hashes, end, picked>>
                    ELSE EndRound
  <1>1. TypeOK /\ PoolOnce /\ Committed /\ Served /\ pinned \in Pins
    BY DEF RoundInv, TypeOK
  <1>2. PICK A \in SUBSET ToSet(live) : Step(A)
    BY DEF FetchFilters
  <1> DEFINE ok == okOf(A)
  <1>3. peers \in Seq(Peers)
    BY <1>1 DEF TypeOK
  <1>4. live \in Seq(Peers) /\ ToSet(live) \subseteq ToSet(peers)
    BY <1>3, KeptPeers
  <1>5. ok \in Seq(Peers) /\ ToSet(ok) = ToSet(live) \cap matching(A)
    BY <1>4, KeptPeers
  <1>6. trouble' \in 0..MaxTrouble
    <2>1. Answered(live, A)
      BY <1>2
    <2> QED BY <1>1, <2>1, AnsweredFacts DEF TypeOK
  <1>7. /\ pinned' = pinned /\ rows' = rows /\ anchor' = anchor /\ anchorTried' = anchorTried
        /\ pc = "filters"
    BY DEF FetchFilters
  <1>8. \/ EndRound
        \/ /\ ok # << >> /\ RequirePrimary(ok)
           /\ answers' = [i \in DOMAIN ok |-> [peer |-> ok[i], filters |-> list(ok[i])]]
           /\ fallback' = PinnedAway
           /\ pc' = "choose"
           /\ UNCHANGED <<peers, hashes, end, picked>>
    BY <1>2
  <1>9. CASE EndRound
    BY <1>1, <1>6, <1>7, <1>9, EndRoundFacts, PoolTypeStep DEF TypeOK
  <1>10. CASE /\ ok # << >> /\ RequirePrimary(ok)
              /\ answers' = [i \in DOMAIN ok |-> [peer |-> ok[i], filters |-> list(ok[i])]]
              /\ fallback' = PinnedAway
              /\ pc' = "choose"
              /\ UNCHANGED <<peers, hashes, end, picked>>
    <2>1. \A p \in ToSet(peers) : place(p) \in 1..Len(hashes)
      <3>1. Len(peers) <= Len(hashes) /\ Len(peers) \in Nat /\ Len(hashes) \in Nat
        BY <1>1, <1>3, SeqElements DEF TypeOK, Committed
      <3>2. ASSUME NEW p \in ToSet(peers) PROVE place(p) \in 1..Len(peers)
        BY <1>3, SeqElements
      <3> QED BY <3>1, <3>2
    <2>2. \A p \in ToSet(ok) :
            /\ p \in ToSet(peers)
            /\ \A b \in Resume..end : list(p)[b] \in Filters
            /\ p \in Honest => \A b \in batch : list(p)[b] = Correct
      <3> HIDE DEF place
      <3>1. \A j \in 1..Len(hashes) : \A b \in Resume..end : hashes[j][b] \in Filters
        BY <1>1, <1>7 DEF Committed
      <3>2. ASSUME NEW p \in ToSet(ok)
            PROVE  /\ p \in ToSet(peers)
                   /\ p \in Honest => \A b \in batch : list(p)[b] = Correct
        BY <1>4, <1>5
      <3> QED BY <2>1, <3>1, <3>2
    <2> HIDE DEF ok, place, live
    <2>3. /\ DOMAIN ok = 1..Len(ok) /\ Len(ok) \in Nat /\ Len(ok) > 0
          /\ \A i \in 1..Len(ok) : ok[i] \in ToSet(ok)
      BY <1>5, <1>10, SeqElements
    <2>4. Len(answers') = Len(ok) /\ DOMAIN answers' = 1..Len(ok)
      BY <1>10, <2>3, LenProperties, IsASeq
    <2>5. \A i \in 1..Len(ok) : answers'[i].peer = ok[i] /\ answers'[i].filters = list(ok[i])
      BY <1>10, <2>3
    <2>6. /\ Resume' = Resume /\ BatchEnd' = BatchEnd /\ Height' = Height
          /\ Resume <= end /\ picked = << >> /\ picked' = << >>
      BY <1>1, <1>7, <1>10 DEF Resume, BatchEnd, Height, Committed, Served
    <2>7. /\ Resume \in Nat /\ BatchEnd \in Int /\ end \in Nat /\ BatchEnd <= end
          /\ Resume <= BatchEnd /\ Height = Resume
      BY <1>1, <2>6, BatchFacts
    <2>8. Committed'
      BY <1>1, <1>7, <1>10, <2>6 DEF Committed
    <2>9. \A b \in Resume..BatchEnd : ServedFor(b)'
      <3>1. SUFFICES ASSUME NEW b \in Resume..BatchEnd, NEW i \in 1..Len(ok)
                     PROVE  /\ answers'[i].filters[b] \in Filters
                            /\ answers'[i].peer \in Honest => answers'[i].filters[b] = Correct
        BY <2>4 DEF ServedFor
      <3>2. b \in Resume..end
        BY <2>7
      <3> HIDE DEF list
      <3> QED BY <2>2, <2>3, <2>5, <3>2
    <2>10. pinned' # None => answers'[1].peer = pinned' \/ fallback'
      BY <1>7, <1>10, <2>3, <2>5 DEF RequirePrimary
    <2>11. Served'
      BY <1>10, <2>3, <2>4, <2>6, <2>7, <2>9, <2>10 DEF Served
    <2>12. \A i \in DOMAIN answers' : answers'[i].peer \in ToSet(peers')
      BY <1>10, <2>2, <2>3, <2>4, <2>5
    <2>13. fallback' \in BOOLEAN
      BY <1>10 DEF PinnedAway
    <2>14. TypeOK'
      BY <1>1, <1>6, <1>7, <1>10, <2>12, <2>13, PoolTypeStep DEF TypeOK
    <2> QED BY <2>8, <2>11, <2>14
  <1> QED BY <1>8, <1>9, <1>10

\* A filter accepted is one of those served.
LEMMA VariantFacts ==
  ASSUME RoundInv, pc = "choose", Height <= BatchEnd
  PROVE  /\ ServedFor(Height)
         /\ DOMAIN answers = 1..Len(answers) /\ Len(answers) \in Nat /\ Len(answers) > 0
         /\ \A f : f \in Variants(Height) <=> \E i \in 1..Len(answers) : answers[i].filters[Height] = f
         /\ Variants(Height) \subseteq Filters
  <1>1. TypeOK /\ Served
    BY DEF RoundInv
  <1>2. Height \in Resume..BatchEnd
    BY <1>1, BatchFacts
  <1>3. /\ ServedFor(Height)
        /\ DOMAIN answers = 1..Len(answers) /\ Len(answers) \in Nat /\ Len(answers) > 0
    BY <1>1, <1>2 DEF Served
  <1>4. \A f : f \in Variants(Height) <=> \E i \in 1..Len(answers) : answers[i].filters[Height] = f
    BY <1>3 DEF Variants
  <1> QED BY <1>3, <1>4 DEF ServedFor

\* A filter is accepted.
LEMMA AcceptStep ==
  ASSUME RoundInv, pc = "choose", Height <= BatchEnd, [Next]_vars,
         NEW f \in Filters, picked' = Append(picked, f),
         UNCHANGED <<pinned, rows, anchor, anchorTried, pc, trouble>>,
         UNCHANGED <<peers, hashes, end, answers, fallback>>
  PROVE  TypeOK' /\ Committed' /\ Served'
  <1>1. TypeOK /\ Committed /\ Served /\ PoolOnce /\ pinned \in Pins
    BY DEF RoundInv, TypeOK
  <1>2. picked' \in Seq(Filters) /\ Len(picked') = Len(picked) + 1
    BY <1>1, AppendProperties DEF TypeOK
  <1>3. TypeOK'
    BY <1>1, <1>2, PoolTypeStep DEF TypeOK
  <1>4. Committed'
    BY <1>1 DEF Committed, Resume
  <1>5. Resume' = Resume /\ BatchEnd' = BatchEnd /\ \A b : ServedFor(b)' <=> ServedFor(b)
    BY DEF Resume, BatchEnd, ServedFor
  <1>6. Height' <= BatchEnd' + 1
    <2>1. Height' = Height + 1 /\ Height \in Int /\ BatchEnd \in Int
      BY <1>1, <1>2, <1>5, BatchFacts DEF Height
    <2> QED BY <1>5, <2>1
  <1>7. Served'
    BY <1>1, <1>5, <1>6 DEF Served
  <1> QED BY <1>3, <1>4, <1>7

\* The batch is stored.
LEMMA StoreFiltersStep ==
  ASSUME RoundInv, StoreFilters, [Next]_vars
  PROVE  TypeOK' /\ Committed' /\ Served'
  <1>1. TypeOK /\ Committed /\ Served /\ PoolOnce /\ pinned \in Pins
    BY DEF RoundInv, TypeOK
  <1>2. /\ pc = "choose" /\ Height > BatchEnd /\ rows' = StoredRows(picked)
        /\ picked' = << >> /\ answers' = << >> /\ fallback' = FALSE
        /\ UNCHANGED <<pinned, pool, seen, anchor, anchorTried, trouble>>
    BY DEF StoreFilters
  <1>3. /\ rows' \in Seq(Row) /\ Len(rows') = Len(rows) + Len(picked) /\ Len(rows) + Len(picked) <= Blocks
    BY <1>1, <1>2, StoredFit
  <1>4. Resume' = Height /\ Height >= Resume /\ Height \in Nat /\ Resume \in Nat /\ end \in Nat /\ Blocks \in Nat
    <2>1. Resume' = Len(rows') + 1
      BY DEF Resume
    <2> QED BY <1>1, <1>3, <2>1, BatchFacts
  <1>5. << >> \in Seq(Filters) /\ << >> \in Seq(Peers) /\ Len(<< >>) = 0 /\ DOMAIN << >> = {} /\ 1..0 = {}
    OBVIOUS
  <1>6. rows' \in Seq([filter : Filters, header : Header, fallback : BOOLEAN]) /\ Len(rows') <= Blocks
    BY <1>3 DEF Row
  <1>7. CASE Height <= end
    <2>1. pc' = "filters" /\ peers' = Keep(peers, ToSet(pool)) /\ UNCHANGED <<hashes, end>>
      BY <1>7 DEF StoreFilters
    <2>2. peers' \in Seq(Peers) /\ Len(peers') <= Len(hashes')
      <3>1. peers \in Seq(Peers) /\ Len(peers) <= Len(hashes) /\ Len(hashes) \in Nat
        BY <1>1 DEF TypeOK, Committed
      <3>2. Keep(peers, ToSet(pool)) \in Seq(Peers) /\ Len(Keep(peers, ToSet(pool))) <= Len(peers)
        BY <3>1, KeptPeers
      <3>3. Len(peers) \in Nat /\ Len(Keep(peers, ToSet(pool))) \in Nat
        BY <3>1, <3>2, LenProperties
      <3> QED BY <2>1, <3>1, <3>2, <3>3
    <2>3. TypeOK'
      BY <1>1, <1>2, <1>5, <1>6, <2>1, <2>2, PoolTypeStep DEF TypeOK
    <2>4. Committed'
      <3>1. \A b \in Resume'..end : b \in Resume..end
        BY <1>4
      <3>2. \A i \in 1..Len(hashes) : \A b \in Resume..end : hashes[i][b] \in Filters
        BY <1>1, <1>2 DEF Committed
      <3> QED BY <1>1, <1>4, <1>7, <2>1, <3>1, <3>2 DEF Committed
    <2>5. Served'
      BY <1>2, <1>5, <2>1 DEF Served
    <2> QED BY <2>3, <2>4, <2>5
  <1>8. CASE ~(Height <= end)
    <2>1. /\ pc' = IF Height <= Blocks THEN "hashes" ELSE "idle"
          /\ peers' = << >> /\ hashes' = << >> /\ end' = 0
      BY <1>8 DEF StoreFilters
    <2>2. end' \in 0..Blocks /\ Len(peers') <= Len(hashes') /\ peers' \in Seq(Peers)
      BY <1>4, <1>5, <2>1
    <2>3. pc' \in {"hashes", "idle"} /\ (pc' = "hashes" => Resume' <= Blocks)
      BY <1>4, <2>1
    <2>4. TypeOK'
      BY <1>1, <1>2, <1>5, <1>6, <2>1, <2>2, <2>3, PoolTypeStep DEF TypeOK
    <2>5. Committed'
      BY <1>5, <2>1, <2>3 DEF Committed
    <2>6. Served'
      BY <1>2, <1>5, <2>3 DEF Served
    <2> QED BY <2>4, <2>5, <2>6
  <1> QED BY <1>7, <1>8

\* A step that ends the round, with the filters accepted stored or not.
LEMMA EndStep ==
  ASSUME RoundInv, EndRound, [Next]_vars,
         rows' \in {rows, StoredRows(picked)}, pinned' = pinned,
         anchor' \in Header \cup {"none"}, anchorTried' \in BOOLEAN, trouble' \in 0..MaxTrouble
  PROVE  TypeOK' /\ Committed' /\ Served'
  <1>1. TypeOK /\ Committed /\ Served /\ PoolOnce /\ pinned \in Pins
    BY DEF RoundInv, TypeOK
  <1>2. rows' \in Seq([filter : Filters, header : Header, fallback : BOOLEAN]) /\ Len(rows') <= Blocks
    <2>1. CASE rows' = rows
      BY <1>1, <2>1 DEF TypeOK
    <2>2. CASE rows' = StoredRows(picked)
      BY <1>1, <2>2, StoredFit DEF Row
    <2> QED BY <2>1, <2>2
  <1> QED BY <1>1, <1>2, EndRoundFacts, PoolTypeStep DEF TypeOK

\* The rest of the steps leave the filters served alone.
LEMMA QuietStep ==
  ASSUME RoundInv, [Next]_vars, UNCHANGED <<pinned, rows, round>>,
         pc' = pc \/ (pc # "choose" /\ pc' \in {"idle", "prove", "hashes"}),
         pc' \in {"prove", "hashes"} => Resume <= Blocks,
         anchor' \in Header \cup {"none"}, anchorTried' \in BOOLEAN, trouble' \in 0..MaxTrouble
  PROVE  TypeOK' /\ Committed' /\ Served'
  <1>1. TypeOK /\ Committed /\ Served /\ PoolOnce /\ pinned \in Pins
    BY DEF RoundInv, TypeOK
  <1>2. TypeOK'
    BY <1>1, PoolTypeStep DEF TypeOK
  <1>3. /\ Resume' = Resume /\ BatchEnd' = BatchEnd /\ Height' = Height
        /\ \A b : ServedFor(b)' <=> ServedFor(b)
    BY DEF Resume, BatchEnd, Height, ServedFor
  <1>4. Committed'
    BY <1>1, <1>3 DEF Committed
  <1>5. Served'
    BY <1>1, <1>3 DEF Served
  <1> QED BY <1>2, <1>4, <1>5

\* Every step preserves the invariant.
LEMMA RoundStep ==
  ASSUME RoundInv, [Next]_vars
  PROVE  RoundInv'
  <1>1. TypeOK /\ Committed /\ Served /\ PoolOnce /\ pinned \in Pins
    BY DEF RoundInv, TypeOK
  <1>2. PoolOnce'
    BY <1>1, PoolStep
  <1>3. SUFFICES TypeOK' /\ Committed' /\ Served'
    BY <1>2 DEF RoundInv
  <1>4. anchor \in Header \cup {"none"} /\ anchorTried \in BOOLEAN /\ trouble \in 0..MaxTrouble
    BY <1>1 DEF TypeOK
  <1>5. CASE BeginRound
    BY <1>4, <1>5, QuietStep DEF BeginRound
  <1>6. CASE ProveAnchor
    <2>1. /\ pc = "prove" /\ UNCHANGED <<pinned, rows, round>>
          /\ pc' \in {"idle", "hashes"} /\ anchor' \in Header \cup {"none"} /\ anchorTried' \in BOOLEAN
      BY <1>4, <1>6 DEF ProveAnchor
    <2>2. trouble' \in 0..MaxTrouble
      BY <1>4, <1>6, AnsweredFacts DEF ProveAnchor
    <2>3. Resume <= Blocks
      BY <1>1, <2>1 DEF Committed
    <2> QED BY <2>1, <2>2, <2>3, QuietStep
  <1>7. CASE FilterHashes
    BY <1>7, FilterHashesStep
  <1>8. CASE FetchFilters
    BY <1>8, FetchFiltersStep
  <1>9. CASE Agree
    <2>1. PICK f \in Variants(Height) : picked' = Append(picked, f)
      BY <1>9 DEF Agree
    <2>2. f \in Filters
      BY <1>9, VariantFacts DEF Agree
    <2> QED BY <1>9, <2>1, <2>2, AcceptStep DEF Agree
  <1>10. CASE Settle
    BY <1>10, AcceptStep DEF Settle
  <1>11. CASE Unsettled
    BY <1>4, <1>11, EndStep DEF Unsettled
  <1>12. CASE StoreFilters
    BY <1>12, StoreFiltersStep
  <1>13. CASE Fail
    <2>1. trouble' \in 0..MaxTrouble
      BY <1>4, <1>13, BoundsAssumption DEF Fail
    <2> QED BY <1>4, <1>13, <2>1, EndStep DEF Fail
  <1>14. ASSUME NEW p \in Peers, Join(p) \/ Leave(p) PROVE TypeOK' /\ Committed' /\ Served'
    <2>1. trouble' \in 0..MaxTrouble
      BY <1>4, <1>14, BoundsAssumption DEF Join, Leave
    <2>2. UNCHANGED <<pinned, rows, anchor, anchorTried, pc, round>>
      BY <1>14 DEF Join, Leave
    <2> QED BY <1>1, <1>4, <2>1, <2>2, QuietStep DEF Committed
  <1>15. CASE NoteLeft \/ TimePasses \/ UNCHANGED vars
    BY <1>1, <1>4, <1>15, QuietStep DEF NoteLeft, TimePasses, Committed
  <1> QED
    BY <1>5, <1>6, <1>7, <1>8, <1>9, <1>10, <1>11, <1>12, <1>13, <1>14, <1>15 DEF Next, SyncLoop

\* The invariant holds of every reachable state.
LEMMA RoundInvariant == Spec => []RoundInv
  <1>1. Init => RoundInv
    BY RoundInit
  <1>2. RoundInv /\ [Next]_vars => RoundInv'
    BY RoundStep
  <1> QED BY <1>1, <1>2, PTL DEF Spec

\* Every variable keeps its type, the pool holds each peer once, and the lists
\* of a round fit together (filters.go, manager.go).
THEOREM RoundTypes == Spec => []TypeOK
  <1>1. RoundInv => TypeOK
    BY DEF RoundInv
  <1> QED BY <1>1, RoundInvariant, PTL

(***************************************************************************)
(* Honest peers                                                            *)
(***************************************************************************)

\* The filters accepted stay as they are, are forgotten, or get one more: the
\* one everybody served, or the one that wins.
Accepted(f) ==
  /\ pc = "choose" /\ Height <= BatchEnd
  /\ f \in Filters
  /\ picked' = Append(picked, f) /\ answers' = answers
  /\ Variants(Height) = {f} \/ Wins(f, Height)

\* How a step changes the filters accepted.
LEMMA PickedStep ==
  ASSUME RoundInv, [Next]_vars
  PROVE  \/ picked' = picked /\ answers' = answers
         \/ picked' = << >>
         \/ \E f : Accepted(f)
  <1>1. TypeOK /\ Committed /\ Served /\ PoolOnce /\ pinned \in Pins
    BY DEF RoundInv, TypeOK
  <1>2. CASE Agree
    <2>1. PICK f \in Variants(Height) : Variants(Height) = {f} /\ picked' = Append(picked, f)
      BY <1>2 DEF Agree
    <2>2. f \in Filters
      BY <1>2, VariantFacts DEF Agree
    <2> QED BY <1>2, <2>1, <2>2 DEF Agree, Accepted
  <1>3. CASE Settle
    BY <1>3 DEF Settle, Accepted
  <1>4. CASE FetchFilters
    <2>1. picked = << >>
      BY <1>1, <1>4 DEF FetchFilters, Served
    <2>2. picked' = picked \/ picked' = << >>
      BY <1>4 DEF FetchFilters, EndRound, NoRound
    <2> QED BY <2>1, <2>2
  <1>5. CASE FilterHashes
    BY <1>5 DEF FilterHashes, EndRound, NoRound
  <1>6. CASE Unsettled \/ StoreFilters \/ Fail
    BY <1>6 DEF Unsettled, StoreFilters, Fail, EndRound, NoRound
  <1>7. CASE BeginRound \/ ProveAnchor \/ NoteLeft \/ TimePasses \/ UNCHANGED vars
    BY <1>7 DEF BeginRound, ProveAnchor, NoteLeft, TimePasses
  <1>8. ASSUME NEW p \in Peers, Join(p) \/ Leave(p) PROVE picked' = picked /\ answers' = answers
    BY <1>8 DEF Join, Leave
  <1> QED BY <1>2, <1>3, <1>4, <1>5, <1>6, <1>7, <1>8 DEF Next, SyncLoop

\* What holds of the filters accepted so far and of the next one holds of them
\* all.
LEMMA AcceptedAll ==
  ASSUME NEW S, NEW fs \in Seq(Filters), NEW f \in S \cap Filters, \A k \in DOMAIN fs : fs[k] \in S
  PROVE  \A k \in DOMAIN Append(fs, f) : Append(fs, f)[k] \in S
  <1>1. /\ Append(fs, f) \in Seq(Filters)
        /\ Len(Append(fs, f)) = Len(fs) + 1
        /\ \A i \in 1..Len(fs) : Append(fs, f)[i] = fs[i]
        /\ Append(fs, f)[Len(fs) + 1] = f
    BY AppendProperties
  <1>2. /\ DOMAIN Append(fs, f) = 1..(Len(fs) + 1)
        /\ DOMAIN fs = 1..Len(fs) /\ Len(fs) \in Nat
    BY <1>1, SeqElements
  <1> QED BY <1>1, <1>2

\* A property of the filters accepted that depends on who served the batch
\* is kept when the next filter accepted has it.
LEMMA AcceptedStep ==
  ASSUME RoundInv, [Next]_vars, NEW S,
         NEW Before \in BOOLEAN, NEW After \in BOOLEAN,
         answers' = answers => (After => Before),
         Before => \A k \in DOMAIN picked : picked[k] \in S,
         \A f : Accepted(f) /\ After => f \in S
  PROVE  After => \A k \in DOMAIN picked' : picked'[k] \in S
  <1>1. picked \in Seq(Filters)
    BY DEF RoundInv, TypeOK
  <1>2. CASE picked' = picked /\ answers' = answers
    BY <1>2
  <1>3. CASE picked' = << >>
    BY <1>3
  <1>4. ASSUME NEW f, Accepted(f), After PROVE \A k \in DOMAIN picked' : picked'[k] \in S
    <2>1. f \in S \cap Filters /\ picked' = Append(picked, f) /\ Before
      BY <1>4 DEF Accepted
    <2> QED BY <1>1, <2>1, AcceptedAll
  <1> QED BY <1>2, <1>3, <1>4, PickedStep

\* Where an honest peer served the batch, the filter accepted is complete.
LEMMA OneHonestStep ==
  ASSUME RoundInv, OneHonestEnough, [Next]_vars
  PROVE  OneHonestEnough'
  <1> DEFINE Before == \E i \in DOMAIN answers : answers[i].peer \in Honest
             After == \E i \in DOMAIN answers' : answers'[i].peer \in Honest
  <1>1. ASSUME NEW f, Accepted(f), After PROVE f \in Complete
    <2>1. /\ ServedFor(Height) /\ DOMAIN answers = 1..Len(answers)
          /\ \A g : g \in Variants(Height) <=> \E i \in 1..Len(answers) : answers[i].filters[Height] = g
      BY <1>1, VariantFacts DEF Accepted
    <2>2. Correct \in Variants(Height)
      BY <1>1, <2>1 DEF Accepted, ServedFor
    <2>3. CASE Variants(Height) = {f}
      BY <2>2, <2>3, FiltersAssumption
    <2>4. CASE Wins(f, Height)
      BY <2>4 DEF Wins
    <2> QED BY <1>1, <2>3, <2>4 DEF Accepted
  <1>2. answers' = answers => (After => Before)
    OBVIOUS
  <1>3. Before => \A k \in DOMAIN picked : picked[k] \in Complete
    BY DEF OneHonestEnough
  <1>4. Before \in BOOLEAN /\ After \in BOOLEAN
    OBVIOUS
  <1> HIDE DEF Before, After
  <1>5. After => \A k \in DOMAIN picked' : picked'[k] \in Complete
    BY <1>1, <1>2, <1>3, <1>4, AcceptedStep
  <1> QED BY <1>5 DEF OneHonestEnough, After

\* The honest peers are the majority of those that served the batch, or half
\* of them with the primary.
HonestMajority ==
  LET honest == Cardinality(HonestServing)
      others == Len(answers) - honest
  IN honest > others \/ (honest = others /\ 1 \in HonestServing)

\* Part of a finite set, and the rest of it, counted.
LEMMA PartCounts ==
  ASSUME NEW D, IsFiniteSet(D), NEW T, T \subseteq D
  PROVE  /\ IsFiniteSet(T) /\ IsFiniteSet(D \ T)
         /\ Cardinality(T) \in Nat /\ Cardinality(T) <= Cardinality(D)
         /\ Cardinality(D \ T) = Cardinality(D) - Cardinality(T)
  <1>1. IsFiniteSet(T) /\ Cardinality(T) <= Cardinality(D)
    BY FS_Subset
  <1>2. Cardinality(T) \in Nat
    BY <1>1, FS_CardinalityType
  <1>3. D \cap T = T
    OBVIOUS
  <1> QED BY <1>1, <1>2, <1>3, FS_Difference

\* A filter that wins over the true one while honest peers are the majority
\* would have been served by more peers than the honest ones.
LEMMA MajorityWins ==
  ASSUME RoundInv, HonestMajority, NEW f, Accepted(f)
  PROVE  f = Correct
  <1> DEFINE n == Len(answers)
             S(g) == Serving(g, Height)
             H == HonestServing
  <1>1. /\ ServedFor(Height) /\ DOMAIN answers = 1..n /\ n \in Nat /\ n > 0
        /\ \A g : g \in Variants(Height) <=> \E i \in 1..n : answers[i].filters[Height] = g
    BY VariantFacts DEF Accepted
  <1>2. IsFiniteSet(1..n) /\ Cardinality(1..n) = n
    BY <1>1, FS_Interval
  <1>3. \A T \in SUBSET (1..n) : IsFiniteSet(T) /\ Cardinality(T) \in Nat /\ Cardinality(T) <= n
    <2> DEFINE D == 1..n
    <2>1. IsFiniteSet(D) /\ Cardinality(D) = n
      BY <1>2
    <2> HIDE DEF D
    <2>2. \A T \in SUBSET D : IsFiniteSet(T) /\ Cardinality(T) \in Nat /\ Cardinality(T) <= n
      BY <2>1, PartCounts
    <2> QED BY <2>2 DEF D
  <1>4. /\ H \subseteq S(Correct) /\ S(Correct) \subseteq 1..n /\ S(f) \subseteq 1..n
        /\ \A g : \A i \in S(g) : answers[i].filters[Height] = g
    BY <1>1 DEF ServedFor, Serving, HonestServing
  <1>5. Cardinality(H) > n - Cardinality(H) \/ (Cardinality(H) = n - Cardinality(H) /\ 1 \in H)
    BY DEF HonestMajority
  <1>6. Cardinality(H) \in Nat /\ H # {}
    <2>1. Cardinality(H) \in Nat
      BY <1>3, <1>4
    <2>2. H = {} => Cardinality(H) = 0
      BY FS_EmptySet
    <2> QED BY <1>1, <1>5, <2>1, <2>2
  <1>7. Correct \in Variants(Height)
    BY <1>1, <1>4, <1>6 DEF Serving, Variants
  <1>8. CASE Variants(Height) = {f}
    BY <1>7, <1>8
  <1>9. CASE Wins(f, Height)
    <2> SUFFICES ASSUME f # Correct PROVE FALSE
      OBVIOUS
    <2>1. Correct \in (Variants(Height) \cap Complete) \ {f}
      BY <1>7, FiltersAssumption
    <2>2. \/ Cardinality(S(f)) > Cardinality(S(Correct))
          \/ Cardinality(S(f)) = Cardinality(S(Correct)) /\ ListedBefore(f, Correct, Height)
      BY <1>9, <2>1 DEF Wins
    <2>3. S(f) \subseteq (1..n) \ H
      BY <1>4
    <2> HIDE DEF n, S, H
    <2>4. /\ IsFiniteSet((1..n) \ H)
          /\ Cardinality((1..n) \ H) = n - Cardinality(H)
      <3> DEFINE D == 1..n
      <3>1. IsFiniteSet(D) /\ Cardinality(D) = n /\ H \subseteq D
        BY <1>2, <1>4
      <3> HIDE DEF D
      <3>2. IsFiniteSet(D \ H) /\ Cardinality(D \ H) = n - Cardinality(H)
        BY <3>1, PartCounts
      <3> QED BY <3>2 DEF D
    <2>5. Cardinality(S(f)) <= n - Cardinality(H)
      BY <2>3, <2>4, FS_Subset
    <2>6. Cardinality(H) <= Cardinality(S(Correct))
      BY <1>3, <1>4, FS_Subset
    <2>7. Cardinality(S(f)) \in Nat /\ Cardinality(S(Correct)) \in Nat
      BY <1>3, <1>4
    <2>8. 1 \in H /\ ListedBefore(f, Correct, Height)
      BY <1>1, <1>5, <1>6, <2>2, <2>5, <2>6, <2>7
    <2>9. PICK i \in S(f) : \A j \in S(Correct) : i < j
      BY <2>8 DEF ListedBefore, S
    <2>10. i < 1 /\ i \in 1..n
      BY <1>4, <2>8, <2>9
    <2> QED BY <1>1, <2>10
  <1> QED BY <1>8, <1>9 DEF Accepted

\* An honest majority gets its filters accepted.
LEMMA HonestMajorityStep ==
  ASSUME RoundInv, HonestMajorityWins, [Next]_vars
  PROVE  HonestMajorityWins'
  <1>1. answers' = answers => (HonestMajority' => HonestMajority)
    BY DEF HonestMajority, HonestServing
  <1>2. ASSUME NEW f, Accepted(f), HonestMajority' PROVE f \in {Correct}
    <2>1. HonestMajority
      BY <1>1, <1>2 DEF Accepted
    <2> QED BY <1>2, <2>1, MajorityWins
  <1>3. HonestMajority => \A k \in DOMAIN picked : picked[k] \in {Correct}
    BY DEF HonestMajorityWins, HonestMajority
  <1>4. HonestMajority \in BOOLEAN /\ HonestMajority' \in BOOLEAN
    BY DEF HonestMajority
  <1>5. HonestMajority' => \A k \in DOMAIN picked' : picked'[k] \in {Correct}
    BY <1>1, <1>2, <1>3, <1>4, AcceptedStep
  <1> QED BY <1>5 DEF HonestMajorityWins, HonestMajority

\* The filters stored hold every output script as long as a peer is pinned,
\* but those of the fallback.
LEMMA PinnedStep ==
  ASSUME RoundInv, OneHonestEnough, PinnedProtects, [Next]_vars
  PROVE  PinnedProtects'
  <1>1. /\ TypeOK /\ Served /\ pinned \in Pins /\ rows \in Seq(Row) /\ picked \in Seq(Filters)
        /\ fallback \in BOOLEAN
    BY DEF RoundInv, TypeOK, Row
  <1>2. /\ pinned' = pinned
        /\ rows' \in {rows, StoredRows(picked)} \/ rows' = rows
    BY DEF Next, SyncLoop, BeginRound, ProveAnchor, FilterHashes, FetchFilters, Agree, Settle,
           Unsettled, StoreFilters, Fail, NoteLeft, TimePasses, Join, Leave
  <1>3. SUFFICES ASSUME pinned # None, NEW i \in DOMAIN rows'
                 PROVE  rows'[i].filter \in Complete \/ rows'[i].fallback
    BY <1>2 DEF PinnedProtects
  <1>4. \A j \in DOMAIN rows : rows[j].filter \in Complete \/ rows[j].fallback
    BY <1>3 DEF PinnedProtects
  <1>5. CASE rows' = rows
    BY <1>4, <1>5
  <1>6. CASE rows' = StoredRows(picked)
    <2>1. ASSUME ~fallback PROVE \A k \in DOMAIN picked : picked[k] \in Complete
      <3>1. CASE pc = "choose"
        <4>1. answers[1].peer \in Honest
          BY <1>1, <1>3, <2>1, <3>1, PeersAssumption DEF Served
        <4>2. 1 \in DOMAIN answers
          BY <1>1, <3>1 DEF Served
        <4> QED BY <4>1, <4>2 DEF OneHonestEnough
      <3>2. CASE pc # "choose"
        BY <1>1, <3>2 DEF Served
      <3> QED BY <3>1, <3>2
    <2>2. /\ StoredRows(picked) \in Seq(Row)
          /\ \A j \in 1..Len(StoredRows(picked)) :
               \/ j \in 1..Len(rows) /\ StoredRows(picked)[j] = rows[j]
               \/ /\ j - Len(rows) \in 1..Len(picked)
                  /\ StoredRows(picked)[j].filter = picked[j - Len(rows)]
                  /\ StoredRows(picked)[j].fallback = fallback
      BY <1>1, StoredFacts
    <2>3. /\ DOMAIN rows = 1..Len(rows) /\ DOMAIN picked = 1..Len(picked)
          /\ DOMAIN StoredRows(picked) = 1..Len(StoredRows(picked))
      BY <1>1, <2>2, SeqElements
    <2>4. i \in 1..Len(StoredRows(picked))
      BY <1>3, <1>6, <2>3
    <2>5. CASE i \in 1..Len(rows) /\ StoredRows(picked)[i] = rows[i]
      BY <1>4, <1>6, <2>3, <2>5
    <2>6. CASE /\ i - Len(rows) \in 1..Len(picked)
               /\ StoredRows(picked)[i].filter = picked[i - Len(rows)]
               /\ StoredRows(picked)[i].fallback = fallback
      BY <1>1, <1>6, <2>1, <2>3, <2>6
    <2> QED BY <2>2, <2>4, <2>5, <2>6
  <1> QED BY <1>2, <1>5, <1>6

\* One honest peer among those that served a batch is enough: every filter
\* accepted holds all output scripts of its block (chooseFilter,
\* resolveVariants).
THEOREM OneHonestPeerIsEnough == Spec => []OneHonestEnough
  <1>1. Init => OneHonestEnough
    BY DEF Init, OneHonestEnough
  <1>2. RoundInv /\ OneHonestEnough /\ [Next]_vars => OneHonestEnough'
    BY OneHonestStep
  <1> QED BY <1>1, <1>2, RoundInvariant, PTL DEF Spec

\* While an honest peer is pinned a filter that hides a payment is stored only
\* in the fallback, when that peer is not connected and has not been seen for
\* pinnedFallbackAfter (pinnedAway, requirePrimary, storeFilters).
THEOREM PinnedPeerProtects == Spec => []PinnedProtects
  <1>1. Init => PinnedProtects
    BY DEF Init, PinnedProtects
  <1>2. RoundInv /\ OneHonestEnough /\ PinnedProtects /\ [Next]_vars => PinnedProtects'
    BY PinnedStep
  <1> QED BY <1>1, <1>2, RoundInvariant, OneHonestPeerIsEnough, PTL DEF Spec

\* Where honest peers are the majority of those that served the batch, or half
\* of them with the primary, only true filters are accepted (resolveVariants).
THEOREM HonestMajorityDecides == Spec => []HonestMajorityWins
  <1>1. Init => HonestMajorityWins
    BY DEF Init, HonestMajorityWins
  <1>2. RoundInv /\ HonestMajorityWins /\ [Next]_vars => HonestMajorityWins'
    BY HonestMajorityStep
  <1> QED BY <1>1, <1>2, RoundInvariant, PTL DEF Spec
============================================================================
