-------------------------- MODULE ChainSyncProofs --------------------------
(***************************************************************************)
(* Proofs about Chain.Add and the rounds it is called in.                  *)
(*                                                                         *)
(* Of ChainSync: type correctness, and that the stored headers load again  *)
(* wherever the process ends.  Then, when nothing interrupts a rewind:     *)
(* that filter rows, matches and confirmed transactions are those of the   *)
(* chain, that no payment is missed, and that ChainSync implements         *)
(* ConfirmedLedger.                                                        *)
(*                                                                         *)
(* Of HeaderRules, for every base, mantissa, limit, window and period, and *)
(* however times, exceptions and rewinds follow each other: that the       *)
(* median time never falls, a retarget is bounded, and difficulty does not *)
(* creep.  The powers the compact format is made of are a recursive        *)
(* function: that it exists is proved first, by induction over the sets of *)
(* numbers that have a property.                                           *)
(***************************************************************************)
EXTENDS ChainSync, HeaderRules, SequenceTheorems, FiniteSetTheorems,
        WellFoundedInduction, TLAPS

(***************************************************************************)
(* Induction over numbers, by the sets that have them                      *)
(***************************************************************************)

\* A set of numbers has a least one.
LEMMA LeastNumber ==
  ASSUME NEW S \in SUBSET Nat, S # {}
  PROVE  \E m \in S : \A k \in S : m <= k
  <1> DEFINE R == {ss \in Nat \X Nat : ss[1] < ss[2]}
  <1>1. IsWellFoundedOn(R, Nat)
    BY ONLY NatLessThanWellFounded DEF OpToRel
  <1>2. PICK m \in S : \A k \in S : ~(<<k, m>> \in R)
    <2> HIDE DEF R
    <2> QED BY <1>1, WFMin
  <1>3. ASSUME NEW k \in S, ~(m <= k) PROVE FALSE
    <2>1. <<k, m>> \in Nat \X Nat /\ <<k, m>>[1] < <<k, m>>[2]
      BY <1>3
    <2> QED BY <1>2, <2>1
  <1> QED BY <1>3

\* A set that 0 is in, and with each number the next, has all of them.
LEMMA AllNumbers ==
  ASSUME NEW S, 0 \in S, \A n \in Nat : n \in S => n + 1 \in S
  PROVE  Nat \subseteq S
  <1> SUFFICES ASSUME Nat \ S # {} PROVE FALSE
    OBVIOUS
  <1>1. PICK m \in Nat \ S : \A k \in Nat \ S : m <= k
    BY LeastNumber
  <1>2. m # 0 /\ m - 1 \in Nat /\ ~(m <= m - 1)
    BY <1>1
  <1>3. m - 1 \in S
    BY <1>1, <1>2
  <1> QED BY <1>2, <1>3

(***************************************************************************)
(* Headers: the inductive invariant                                        *)
(***************************************************************************)

\* The headers up to height t are those of branch br, with nothing above.
OnBranch(rows, t, br) ==
  /\ t \in 0..(Len(br) - 1)
  /\ \A h \in Heights : rows[h] = IF h <= t THEN br[h + 1] ELSE None

\* The chain in memory is the lower part of a branch.
ChainInv == \E br \in Branches : OnBranch(chain, tip, br)

\* The headers waiting to be appended continue it on a branch.
BatchInv ==
  pc \in Rewinding \cup {"append"} =>
    \E br \in Branches :
      /\ OnBranch(chain, tip, br)
      /\ tip + Len(batch) < Len(br)
      /\ \A i \in 1..Len(batch) : batch[i] = br[tip + i + 1]

\* The stored headers are those in memory, except between the truncation of
\* the memory and the delete that follows it.
HeadersInv ==
  IF pc = "delHeaders"
    THEN \E br \in Branches : \E t \in Heights :
           /\ tip <= t
           /\ OnBranch(hdrRows, t, br)
           /\ \A h \in 0..tip : hdrRows[h] = chain[h]
    ELSE hdrRows = chain

\* Filters are accepted for blocks of the chain.
CursorInv == pc = "filters" => end <= tip

HInv == SyncTypes /\ ChainInv /\ BatchInv /\ HeadersInv /\ CursorInv

\* What is between two heads of a branch.
LEMMA BranchFacts ==
  ASSUME NEW br \in Branches
  PROVE  /\ br \in Seq(Blocks)
         /\ Len(br) \in 1..(MaxHeight + 1)
         /\ \A i \in 1..Len(br) : br[i] \in Blocks /\ br[i] # None
         /\ br[1] = Genesis
         /\ \A i \in 2..Len(br) : Parent[br[i]] = br[i - 1]
  <1>1. br \in Seq(Blocks) /\ Len(br) > 0 /\ Len(br) <= MaxHeight + 1 /\ br[1] = Genesis
    BY BranchesAssumption
  <1>2. \A i \in 2..Len(br) : Parent[br[i]] = br[i - 1]
    BY BranchesAssumption
  <1>3. Len(br) \in Nat /\ \A i \in 1..Len(br) : br[i] \in Blocks
    BY <1>1
  <1> QED BY <1>1, <1>2, <1>3, BlocksAssumption, BoundsAssumption

\* A block has one height, and the same blocks below it, on every branch.
LEMMA Commits ==
  ASSUME NEW br \in Branches, NEW cr \in Branches,
         NEW i \in 1..Len(br), NEW j \in 1..Len(cr), br[i] = cr[j]
  PROVE  i = j /\ \A k \in 1..i : br[k] = cr[k]
  <1> DEFINE Same(n) == \A m \in 1..Len(cr) :
               n + 1 \in 1..Len(br) /\ br[n + 1] = cr[m]
                 => n + 1 = m /\ \A k \in 1..(n + 1) : br[k] = cr[k]
             S == {n \in Nat : Same(n)}
  <1>l. Len(br) \in Nat /\ Len(cr) \in Nat /\ Parent[Genesis] = None
    BY BranchFacts, BlocksAssumption, BoundsAssumption
  <1>1. Same(0)
    <2> SUFFICES ASSUME NEW m \in 1..Len(cr), br[1] = cr[m] PROVE m = 1
      BY BranchFacts
    <2>1. Parent[cr[m]] = None
      BY <1>l, BranchFacts
    <2>2. m \in 2..Len(cr) => Parent[cr[m]] = cr[m - 1] /\ m - 1 \in 1..Len(cr)
      BY <1>l, BranchFacts
    <2>3. m \in 2..Len(cr) => cr[m - 1] # None
      BY <2>2, BranchFacts
    <2> QED BY <1>l, <2>1, <2>2, <2>3
  <1>2. ASSUME NEW n \in Nat, Same(n) PROVE Same(n + 1)
    <2> SUFFICES ASSUME NEW m \in 1..Len(cr), n + 2 \in 1..Len(br), br[n + 2] = cr[m]
                 PROVE  n + 2 = m /\ \A k \in 1..(n + 2) : br[k] = cr[k]
      OBVIOUS
    <2>1. n + 2 \in 2..Len(br) /\ n + 1 \in 1..Len(br) /\ n + 2 - 1 = n + 1
      BY <1>l
    <2>2. Parent[cr[m]] = br[n + 1] /\ br[n + 1] # None
      BY <2>1, BranchFacts
    <2>3. m # 1
      BY <1>l, <2>2, BranchFacts
    <2>4. m \in 2..Len(cr) /\ m - 1 \in 1..Len(cr)
      BY <1>l, <2>3
    <2>5. br[n + 1] = cr[m - 1]
      BY <2>2, <2>4, BranchFacts
    <2>6. n + 1 = m - 1 /\ \A k \in 1..(n + 1) : br[k] = cr[k]
      BY <1>2, <2>1, <2>4, <2>5
    <2>7. n + 2 = m /\ \A k \in 1..(n + 2) : k \in 1..(n + 1) \/ k = n + 2
      BY <2>6
    <2> QED BY <2>6, <2>7
  <1>3. Nat \subseteq S
    <2>1. 0 \in S
      BY <1>1
    <2>2. \A n \in Nat : n \in S => n + 1 \in S
      BY <1>2
    <2> HIDE DEF S
    <2> QED BY <2>1, <2>2, AllNumbers
  <1>4. i - 1 \in Nat /\ i - 1 + 1 = i
    BY <1>l
  <1>5. Same(i - 1)
    BY <1>3, <1>4
  <1> QED BY <1>4, <1>5

\* A block of the chain that is also on a branch has the same height there,
\* and the chain up to it is that branch (extendHeaders finds the fork by the
\* block before the batch).
LEMMA ForkHeight ==
  ASSUME SyncTypes, ChainInv,
         NEW br \in Branches, NEW f \in 0..(Len(br) - 1), HeightOf(br[f + 1]) # -1
  PROVE  /\ HeightOf(br[f + 1]) = f
         /\ f <= tip
         /\ \A h \in 0..f : chain[h] = br[h + 1]
  <1>1. PICK cr \in Branches : OnBranch(chain, tip, cr)
    BY DEF ChainInv
  <1>2. tip \in Heights /\ MaxHeight \in Nat /\ Len(br) \in Nat /\ Len(cr) \in Nat
    BY BranchFacts, BoundsAssumption DEF SyncTypes, Heights
  <1> DEFINE k == HeightOf(br[f + 1])
  <1>3. k \in 0..tip /\ chain[k] = br[f + 1]
    <2>1. \E h \in 0..tip : chain[h] = br[f + 1]
      BY DEF HeightOf
    <2> QED BY <2>1 DEF HeightOf
  <1>4. chain[k] = cr[k + 1] /\ k + 1 \in 1..Len(cr) /\ f + 1 \in 1..Len(br)
    BY <1>1, <1>2, <1>3 DEF OnBranch, Heights
  <1>5. k + 1 = f + 1 /\ \A i \in 1..(k + 1) : cr[i] = br[i]
    <2> HIDE DEF k
    <2>1. cr[k + 1] = br[f + 1]
      BY <1>3, <1>4
    <2> QED BY <1>4, <2>1, Commits
  <1>6. k = f
    BY <1>2, <1>3, <1>5
  <1>7. \A h \in 0..f : chain[h] = cr[h + 1] /\ h + 1 \in 1..(k + 1)
    BY <1>1, <1>2, <1>3, <1>6 DEF OnBranch, Heights
  <1> QED BY <1>3, <1>5, <1>6, <1>7

\* The answer of a peer is the part of its branch above the known height.
LEMMA AnswerFacts ==
  ASSUME NEW br \in Branches, NEW f \in 0..(Len(br) - 1), Answer(br, f) # << >>
  PROVE  /\ Answer(br, f) \in Seq(Blocks)
         /\ f + Len(Answer(br, f)) < Len(br)
         /\ \A i \in 1..Len(Answer(br, f)) : Answer(br, f)[i] = br[f + i + 1]
  <1> DEFINE last == Smaller(Len(br), f + 1 + HeaderBatch)
  <1>1. /\ br \in Seq(Blocks) /\ Len(br) \in Nat /\ HeaderBatch \in Nat \ {0}
        /\ last \in Nat /\ last <= Len(br)
    BY BranchFacts, BoundsAssumption DEF Smaller
  <1> DEFINE ans == SubSeq(br, f + 2, last)
  <1>2. CASE f + 2 <= last
    <2>1. /\ ans \in Seq(Blocks)
          /\ Len(ans) = last - (f + 2) + 1
          /\ \A i \in 1..(last - (f + 2) + 1) : ans[i] = br[f + 2 + i - 1]
      BY <1>1, <1>2
    <2>2. Len(ans) \in Nat /\ f \in Nat
      BY <1>1, <1>2, <2>1
    <2>3. f + Len(ans) < Len(br)
      BY <1>1, <1>2, <2>1
    <2>4. \A i \in 1..Len(ans) : ans[i] = br[f + i + 1]
      BY <1>1, <1>2, <2>1
    <2> QED BY <2>1, <2>3, <2>4 DEF Answer
  <1>3. CASE f + 2 > last
    BY <1>1, <1>3 DEF Answer
  <1> QED BY <1>1, <1>2, <1>3

\* The end of a round keeps the types of what it resets.
LEMMA EndRoundTypes ==
  ASSUME NEW ok \in BOOLEAN, EndRound(ok)
  PROVE  /\ pc' \in Places
         /\ batch' \in Seq(Blocks)
         /\ from' \in 0..(MaxHeight + 1) /\ next' \in 0..(MaxHeight + 1)
         /\ end' \in Heights
         /\ roundOK' \in BOOLEAN
  BY BoundsAssumption DEF EndRound, Places, Heights

\* The initial state.
LEMMA InitHInv == ASSUME Init PROVE HInv
  <1>1. PICK br \in Branches : br = Best
    BY BranchesAssumption
  <1>2. OnBranch(chain, tip, br)
    BY BranchFacts, BoundsAssumption DEF Init, OnBranch, Heights
  <1>3. ChainInv
    BY <1>2 DEF ChainInv
  <1>4. SyncTypes
    <2>1. 0 \in Heights /\ 0 \in 0..(MaxHeight + 1) /\ MaxTrouble \in 0..MaxTrouble
      BY BoundsAssumption DEF Heights
    <2>2. << >> \in Seq(Blocks)
      OBVIOUS
    <2>3. chain \in [Heights -> Blocks \cup {None}]
      BY BlocksAssumption DEF Init
    <2>4. filRows \in [Heights -> Blocks \cup {None}] /\ matchRows \in [Heights -> Blocks \cup {None}]
      BY DEF Init
    <2>5. txRows \in [Txs -> TxRow]
      BY DEF Init, TxRow
    <2> QED BY <2>1, <2>2, <2>3, <2>4, <2>5 DEF Init, SyncTypes, Places
  <1> QED BY <1>3, <1>4 DEF Init, HInv, BatchInv, HeadersInv, CursorInv, Rewinding

(***************************************************************************)
(* Headers: every action keeps the invariant                               *)
(***************************************************************************)

\* TakeHeaders keeps the types, whoever sent the headers.
LEMMA TakeHeadersHInv ==
  ASSUME HInv, NEW br \in Branches, NEW f \in 0..(Len(br) - 1), TakeHeaders(br, f),
         trouble' \in 0..MaxTrouble
  PROVE  HInv'
  <1> USE DEF HInv
  <1>0. pc = "headers" /\ hdrRows = chain /\ MaxHeight \in Nat /\ Len(br) \in Nat
    BY BranchFacts, BoundsAssumption DEF TakeHeaders, HeadersInv
  <1>1. CASE Answer(br, f) = << >>
    <2>1. /\ UNCHANGED <<memory, tables, cursor, batch, roundOK>>
          /\ pc' = "start"
      BY <1>1 DEF TakeHeaders
    <2>2. SyncTypes'
      BY <2>1 DEF SyncTypes, memory, tables, cursor, Places
    <2>3. ChainInv' /\ HeadersInv' /\ BatchInv' /\ CursorInv'
      BY <1>0, <2>1 DEF ChainInv, HeadersInv, BatchInv, CursorInv, OnBranch,
                        memory, tables, cursor, Rewinding
    <2> QED BY <2>2, <2>3
  <1>2. CASE Answer(br, f) # << >> /\ ~KnownFork(HeightOf(br[f + 1]))
    <2>1. EndRound(FALSE) /\ UNCHANGED <<memory, tables>>
      BY <1>2 DEF TakeHeaders
    <2>2. SyncTypes'
      BY <2>1, EndRoundTypes DEF SyncTypes, memory, tables
    <2>3. ChainInv' /\ HeadersInv' /\ BatchInv' /\ CursorInv'
      BY <1>0, <2>1 DEF ChainInv, HeadersInv, BatchInv, CursorInv, OnBranch,
                        memory, tables, EndRound, Rewinding
    <2> QED BY <2>2, <2>3
  <1>3. CASE Answer(br, f) # << >> /\ KnownFork(HeightOf(br[f + 1]))
    <2>1. HeightOf(br[f + 1]) # -1
      BY <1>3 DEF KnownFork
    <2>2. /\ HeightOf(br[f + 1]) = f
          /\ f <= tip
          /\ \A h \in 0..f : chain[h] = br[h + 1]
      BY <2>1, ForkHeight
    <2>3. /\ batch' = Answer(br, f)
          /\ chain' = UpTo(chain, f)
          /\ tip' = f
          /\ pc' = IF f < tip THEN "delHeaders" ELSE "append"
          /\ UNCHANGED <<filterStart, anchor, anchorTried, tables, cursor, roundOK>>
      BY <1>3, <2>2 DEF TakeHeaders
    <2>4. f \in Heights
      BY <1>0, <2>2 DEF SyncTypes, Heights
    <2>5. chain' \in [Heights -> Blocks \cup {None}]
      BY <2>3 DEF SyncTypes, UpTo
    <2>6. SyncTypes'
      BY <1>3, <2>3, <2>4, <2>5, AnswerFacts DEF SyncTypes, tables, cursor, Places, Rewinding
    <2>7. OnBranch(chain', tip', br)
      BY <1>0, <2>2, <2>3 DEF OnBranch, UpTo, Heights
    <2>8. BatchInv'
      BY <1>3, <2>3, <2>7, AnswerFacts DEF BatchInv
    <2>9. HeadersInv'
      <3>1. CASE f < tip
        <4>1. PICK cr \in Branches : OnBranch(chain, tip, cr)
          BY DEF ChainInv
        <4>2. \A h \in 0..f : chain'[h] = chain[h]
          BY <1>0, <2>3, <2>4 DEF UpTo, Heights
        <4> QED BY <1>0, <2>3, <3>1, <4>1, <4>2 DEF HeadersInv, tables, SyncTypes, Heights
      <3>2. CASE f = tip
        <4>1. PICK cr \in Branches : OnBranch(chain, tip, cr)
          BY DEF ChainInv
        <4>2. chain' = chain
          BY <2>3, <3>2, <4>1 DEF UpTo, OnBranch, SyncTypes
        <4> QED BY <1>0, <2>3, <3>2, <4>2 DEF HeadersInv, tables, SyncTypes, Heights
      <3> QED BY <2>2, <2>4, <3>1, <3>2 DEF SyncTypes, Heights
    <2> QED BY <2>3, <2>6, <2>7, <2>8, <2>9 DEF ChainInv, CursorInv
  <1> QED BY <1>1, <1>2, <1>3

\* The deletes of a rewind keep the headers in memory; the first one brings
\* the stored headers in line with them.
LEMMA RewindHInv ==
  ASSUME HInv,
         DeleteHeadersFrom \/ DeleteFiltersFrom \/ DeleteMatchesFrom \/ DeleteTransactionsFrom
  PROVE  HInv'
  <1> USE DEF HInv
  <1>0. MaxHeight \in Nat /\ tip \in Heights
    BY BoundsAssumption DEF SyncTypes
  <1>1. /\ pc \in Rewinding /\ pc' \in Rewinding \cup {"append"}
        /\ pc' # "delHeaders"
        /\ UNCHANGED <<memory, cursor, batch, roundOK, trouble>>
    BY DEF DeleteHeadersFrom, DeleteFiltersFrom, DeleteMatchesFrom, DeleteTransactionsFrom,
           Rewinding
  <1>2. ChainInv' /\ BatchInv' /\ CursorInv'
    BY <1>1 DEF ChainInv, BatchInv, CursorInv, OnBranch, memory, cursor, Rewinding
  <1>3. SyncTypes'
    <2>1. pc' \in Places
      BY <1>1 DEF Places
    <2>2. \A rows \in [Heights -> Blocks \cup {None}] :
            UpTo(rows, tip) \in [Heights -> Blocks \cup {None}]
      BY DEF UpTo
    <2>3. TxsUpTo(tip) \in [Txs -> TxRow]
      BY DEF TxsUpTo, SyncTypes, TxRow
    <2>4. /\ hdrRows' \in {hdrRows, UpTo(hdrRows, tip)}
          /\ filRows' \in {filRows, UpTo(filRows, tip)}
          /\ matchRows' \in {matchRows, UpTo(matchRows, tip)}
          /\ txRows' \in {txRows, TxsUpTo(tip)}
      BY DEF DeleteHeadersFrom, DeleteFiltersFrom, DeleteMatchesFrom, DeleteTransactionsFrom
    <2>5. /\ hdrRows' \in [Heights -> Blocks \cup {None}]
          /\ filRows' \in [Heights -> Blocks \cup {None}]
          /\ matchRows' \in [Heights -> Blocks \cup {None}]
          /\ txRows' \in [Txs -> TxRow]
      BY <2>2, <2>3, <2>4 DEF SyncTypes
    <2> QED BY <1>1, <2>1, <2>5 DEF SyncTypes, memory, cursor
  <1>4. hdrRows' = chain
    <2>1. CASE DeleteHeadersFrom
      <3>1. pc = "delHeaders" /\ hdrRows' = UpTo(hdrRows, tip)
        BY <2>1 DEF DeleteHeadersFrom
      <3>2. PICK br \in Branches : OnBranch(chain, tip, br)
        BY DEF ChainInv
      <3>3. \A h \in 0..tip : hdrRows[h] = chain[h]
        BY <3>1 DEF HeadersInv
      <3> QED BY <1>0, <3>1, <3>2, <3>3 DEF UpTo, OnBranch, SyncTypes, Heights
    <2>2. CASE DeleteFiltersFrom \/ DeleteMatchesFrom \/ DeleteTransactionsFrom
      BY <2>2 DEF DeleteFiltersFrom, DeleteMatchesFrom, DeleteTransactionsFrom, HeadersInv
    <2> QED BY <2>1, <2>2
  <1> QED BY <1>1, <1>2, <1>3, <1>4 DEF HeadersInv, memory

\* Appending the valid headers extends the chain along the branch.
LEMMA ExtendHeadersHInv ==
  ASSUME HInv, ExtendHeaders
  PROVE  HInv'
  <1> USE DEF HInv
  <1>0. /\ pc = "append" /\ hdrRows = chain
        /\ MaxHeight \in Nat /\ tip \in Heights /\ Len(batch) \in Nat
    BY BoundsAssumption DEF ExtendHeaders, HeadersInv, SyncTypes
  <1> DEFINE appended(n) == [h \in Heights |-> IF h > tip /\ h <= tip + n
                                               THEN batch[h - tip] ELSE chain[h]]
  <1>1. PICK n \in 0..Len(batch) :
          /\ chain' = appended(n)
          /\ hdrRows' = appended(n)
          /\ tip' = tip + n
          /\ IF n < Len(batch)
               THEN EndRound(FALSE)
               ELSE /\ pc' = IF n < HeaderBatch THEN "start" ELSE "headers"
                    /\ batch' = << >>
                    /\ UNCHANGED <<cursor, roundOK>>
    BY <1>0 DEF ExtendHeaders, Appended
  <1>2. UNCHANGED <<filterStart, anchor, anchorTried, filRows, matchRows, txRows, trouble>>
    BY DEF ExtendHeaders
  <1>3. PICK br \in Branches :
          /\ OnBranch(chain, tip, br)
          /\ tip + Len(batch) < Len(br)
          /\ \A i \in 1..Len(batch) : batch[i] = br[tip + i + 1]
    BY <1>0 DEF BatchInv
  <1>4. Len(br) \in 1..(MaxHeight + 1) /\ \A i \in 1..Len(br) : br[i] \in Blocks
    BY BranchFacts
  <1>5. tip' \in Heights /\ tip' \in 0..(Len(br) - 1)
    BY <1>0, <1>1, <1>3, <1>4 DEF Heights
  <1>6. \A h \in Heights : chain'[h] = IF h <= tip' THEN br[h + 1] ELSE None
    <2>1. ASSUME NEW h \in Heights PROVE chain'[h] = IF h <= tip' THEN br[h + 1] ELSE None
      <3>1. chain[h] = IF h <= tip THEN br[h + 1] ELSE None
        BY <1>3 DEF OnBranch
      <3>2. CASE h > tip /\ h <= tip + n
        <4>1. h - tip \in 1..Len(batch) /\ tip + (h - tip) + 1 = h + 1
          BY <1>0, <3>2 DEF Heights
        <4> QED BY <1>0, <1>1, <1>3, <3>2, <4>1 DEF Heights
      <3>3. CASE ~(h > tip /\ h <= tip + n)
        BY <1>0, <1>1, <3>1, <3>3 DEF Heights
      <3> QED BY <3>2, <3>3
    <2> QED BY <2>1
  <1>7. OnBranch(chain', tip', br)
    BY <1>5, <1>6 DEF OnBranch
  <1>8. chain' \in [Heights -> Blocks \cup {None}]
    <2>1. \A h \in Heights : chain'[h] \in Blocks \cup {None}
      <3>1. ASSUME NEW h \in Heights PROVE chain'[h] \in Blocks \cup {None}
        <4>1. CASE h <= tip'
          <5>1. h + 1 \in 1..Len(br)
            BY <1>0, <1>4, <1>5, <4>1 DEF Heights
          <5> QED BY <1>4, <1>6, <4>1, <5>1
        <4>2. CASE ~(h <= tip')
          BY <1>6, <4>2
        <4> QED BY <4>1, <4>2
      <3> QED BY <3>1
    <2>2. chain' = [h \in Heights |-> chain'[h]]
      BY <1>1
    <2> QED BY <2>1, <2>2
  <1>9. /\ pc' \in {"idle", "start", "headers"}
        /\ batch' \in Seq(Blocks)
        /\ from' \in 0..(MaxHeight + 1) /\ next' \in 0..(MaxHeight + 1)
        /\ end' \in Heights
        /\ roundOK' \in BOOLEAN
    <2>1. CASE n < Len(batch)
      BY <1>1, <2>1, EndRoundTypes DEF EndRound
    <2>2. CASE ~(n < Len(batch))
      BY <1>1, <2>2 DEF SyncTypes, cursor
    <2> QED BY <2>1, <2>2
  <1>10. SyncTypes'
    BY <1>1, <1>2, <1>5, <1>8, <1>9 DEF SyncTypes, Places
  <1> QED BY <1>1, <1>7, <1>9, <1>10 DEF ChainInv, BatchInv, HeadersInv, CursorInv, Rewinding

\* The filter half of a round leaves the headers alone.
LEMMA FiltersHInv ==
  ASSUME HInv, UNCHANGED <<chain, tip, hdrRows>>,
         pc \notin Rewinding \cup {"append"} \/ (pc' = "idle" /\ pc # "delHeaders"),
         pc' \in {"idle", "headers", "start", "hashes", "filters"},
         pc' = "filters" => end' <= tip, SyncTypes'
  PROVE  HInv'
  <1>1. hdrRows = chain
    BY DEF HInv, HeadersInv, Rewinding
  <1> QED BY <1>1 DEF HInv, ChainInv, BatchInv, HeadersInv, CursorInv, OnBranch, Rewinding

\* The budget of adverse events never goes below zero.
LEMMA TroubleType ==
  ASSUME trouble \in 0..MaxTrouble, Trouble
  PROVE  trouble' \in 0..MaxTrouble
  BY BoundsAssumption DEF Trouble

\* The start of the filters sets only what has to do with filters.
LEMMA StartFiltersHInv ==
  ASSUME HInv, NEW s \in Heights, NEW r \in 0..(MaxHeight + 1),
         NEW vote \in {"majority", "none", "split"}, StartFilters(s, r, vote),
         trouble' \in 0..MaxTrouble
  PROVE  HInv'
  <1> USE DEF HInv
  <1> DEFINE proving == s > 0 /\ s <= tip /\ r = s /\ ~anchorTried
  <1>1. pc = "start" /\ filterStart' = s /\ UNCHANGED <<chain, tip, tables>>
    BY DEF StartFilters
  <1>2. CASE proving /\ vote = "split"
    <2>1. EndRound(FALSE) /\ UNCHANGED <<anchor, anchorTried>>
      BY <1>2 DEF StartFilters
    <2>2. SyncTypes'
      BY <1>1, <2>1, EndRoundTypes DEF SyncTypes, tables
    <2> QED BY <1>1, <2>1, <2>2, FiltersHInv DEF tables, EndRound, Rewinding
  <1>3. CASE ~(proving /\ vote = "split")
    <2>1. /\ anchorTried' = (anchorTried \/ proving)
          /\ anchor' = IF proving /\ vote = "majority" THEN chain[s - 1] ELSE anchor
          /\ IF r > tip
               THEN EndRound(TRUE)
               ELSE /\ pc' = "hashes"
                    /\ from' = r /\ next' = r
                    /\ UNCHANGED <<end, batch, roundOK>>
      BY <1>3 DEF StartFilters
    <2>2. anchor' \in Blocks \cup {None}
      <3>1. CASE proving /\ vote = "majority"
        <4>1. s - 1 \in Heights
          BY <3>1, BoundsAssumption DEF Heights
        <4> QED BY <2>1, <3>1, <4>1 DEF SyncTypes
      <3>2. CASE ~(proving /\ vote = "majority")
        BY <2>1, <3>2 DEF SyncTypes
      <3> QED BY <3>1, <3>2
    <2>3. anchorTried' \in BOOLEAN
      BY <2>1 DEF SyncTypes
    <2>4. CASE r > tip
      <3>1. EndRound(TRUE)
        BY <2>1, <2>4
      <3>2. SyncTypes'
        BY <1>1, <2>2, <2>3, <3>1, EndRoundTypes DEF SyncTypes, tables
      <3> QED BY <1>1, <3>1, <3>2, FiltersHInv DEF tables, EndRound, Rewinding
    <2>5. CASE ~(r > tip)
      <3>1. SyncTypes'
        BY <1>1, <2>1, <2>2, <2>3, <2>5 DEF SyncTypes, tables, Places
      <3> QED BY <1>1, <2>1, <2>5, <3>1, FiltersHInv DEF tables, Rewinding
    <2> QED BY <2>4, <2>5
  <1> QED BY <1>2, <1>3

\* Accepting filters and storing them leaves the headers alone.
LEMMA AcceptFiltersHInv ==
  ASSUME HInv,
         FilterHashes \/ ApplyFilter \/ StoreFilters \/ (\E t \in Txs : SaveTransaction(t))
  PROVE  HInv'
  <1> USE DEF HInv
  <1>0. MaxHeight \in Nat /\ FilterHeaderBatch \in Nat \ {0} /\ FilterBatch \in Nat \ {0}
    BY BoundsAssumption
  <1>1. CASE FilterHashes
    <2>1. pc = "hashes" /\ UNCHANGED <<chain, tip, filterStart, anchorTried, tables, trouble>>
      BY <1>1 DEF FilterHashes
    <2>2. CASE LinkOK(from)
      <3>1. /\ anchor' = IF from = filterStart /\ filterStart > 0 /\ anchor = None
                           THEN chain[from - 1] ELSE anchor
            /\ end' = Smaller(from + FilterHeaderBatch - 1, tip)
            /\ pc' = "filters"
            /\ UNCHANGED <<from, next, batch, roundOK>>
        BY <1>1, <2>2 DEF FilterHashes
      <3>2. anchor' \in Blocks \cup {None}
        <4>1. from = filterStart /\ filterStart > 0 => from - 1 \in Heights
          BY <1>0 DEF SyncTypes, Heights
        <4> QED BY <3>1, <4>1 DEF SyncTypes
      <3>3. end' \in Heights /\ end' <= tip
        BY <1>0, <3>1 DEF Smaller, SyncTypes, Heights
      <3>4. SyncTypes'
        BY <2>1, <3>1, <3>2, <3>3 DEF SyncTypes, tables, Places
      <3> QED BY <2>1, <3>1, <3>3, <3>4, FiltersHInv DEF tables, Rewinding
    <2>3. CASE ~LinkOK(from)
      <3>1. EndRound(FALSE) /\ UNCHANGED anchor
        BY <1>1, <2>3 DEF FilterHashes
      <3>2. SyncTypes'
        BY <2>1, <3>1, EndRoundTypes DEF SyncTypes, tables
      <3> QED BY <2>1, <3>1, <3>2, FiltersHInv DEF tables, EndRound, Rewinding
    <2> QED BY <2>2, <2>3
  <1>2. ASSUME pc = "filters", next <= BatchEnd
        PROVE  next \in Heights /\ next <= tip /\ chain[next] \in Blocks
    <2>1. next \in Heights /\ next <= tip
      BY <1>0, <1>2 DEF BatchEnd, Smaller, CursorInv, SyncTypes, Heights
    <2>2. PICK br \in Branches : OnBranch(chain, tip, br)
      BY DEF ChainInv
    <2>3. chain[next] = br[next + 1] /\ next + 1 \in 1..Len(br)
      BY <2>1, <2>2, BranchFacts DEF OnBranch, SyncTypes, Heights
    <2> QED BY <2>1, <2>3, BranchFacts
  <1>3. CASE \E t \in Txs : SaveTransaction(t)
    <2>1. PICK t \in Txs : SaveTransaction(t)
      BY <1>3
    <2>2. /\ pc = "filters" /\ next <= BatchEnd
          /\ txRows' = [txRows EXCEPT ![t] = Row(next)]
          /\ UNCHANGED <<memory, hdrRows, filRows, matchRows, cursor, pc, batch, roundOK, trouble>>
      BY <2>1 DEF SaveTransaction
    <2>3. Row(next) \in TxRow
      BY <1>2, <2>2 DEF Row, TxRow
    <2>4. SyncTypes'
      BY <2>2, <2>3 DEF SyncTypes, memory, cursor
    <2> QED BY <2>2, <2>4, FiltersHInv DEF CursorInv, memory, cursor, Rewinding
  <1>4. CASE ApplyFilter
    <2>1. /\ pc = "filters" /\ next <= BatchEnd
          /\ next' = next + 1
          /\ UNCHANGED <<memory, hdrRows, filRows, txRows, from, end, pc, batch, roundOK, trouble>>
          /\ \E m \in {chain[next], matchRows[next]} : matchRows' = [matchRows EXCEPT ![next] = m]
      BY <1>4 DEF ApplyFilter
    <2>2. matchRows' \in [Heights -> Blocks \cup {None}]
      BY <1>2, <2>1 DEF SyncTypes
    <2>3. next' \in 0..(MaxHeight + 1)
      BY <1>0, <1>2, <2>1 DEF Heights
    <2>4. SyncTypes'
      BY <2>1, <2>2, <2>3 DEF SyncTypes, memory
    <2> QED BY <2>1, <2>4, FiltersHInv DEF CursorInv, memory, Rewinding
  <1>5. CASE StoreFilters
    <2>1. /\ pc = "filters"
          /\ filRows' = WithRows
          /\ UNCHANGED <<memory, hdrRows, matchRows, txRows, trouble>>
      BY <1>5 DEF StoreFilters
    <2>2. WithRows \in [Heights -> Blocks \cup {None}]
      BY DEF WithRows, SyncTypes
    <2>3. CASE EndRound(TRUE)
      <3>1. SyncTypes'
        BY <2>1, <2>2, <2>3, EndRoundTypes DEF SyncTypes, memory
      <3> QED BY <2>1, <2>3, <3>1, FiltersHInv DEF memory, EndRound, Rewinding
    <2>4. CASE ~EndRound(TRUE)
      <3>1. /\ from' = next /\ next' = next /\ end' = end
            /\ batch' = batch /\ roundOK' = roundOK
            /\ pc' \in {pc, "hashes"}
        BY <1>5, <2>4 DEF StoreFilters
      <3>2. SyncTypes'
        BY <2>1, <2>2, <3>1 DEF SyncTypes, memory, Places
      <3> QED BY <2>1, <3>1, <3>2, FiltersHInv DEF CursorInv, memory, Rewinding
    <2> QED BY <2>3, <2>4
  <1> QED BY <1>1, <1>3, <1>4, <1>5

\* Failures and restarts.  A failed delete of the stored headers is the one
\* fault the invariant excludes.
LEMMA FaultsHInv ==
  ASSUME HInv, "delHeaders" \notin RewindFaults, RoundFails \/ RewindFails \/ Restart
  PROVE  HInv'
  <1> USE DEF HInv
  <1>0. trouble' \in 0..MaxTrouble /\ EndRound(FALSE)
    <2>1. Trouble /\ EndRound(FALSE)
      BY DEF RoundFails, RewindFails, Restart
    <2> QED BY <2>1, TroubleType DEF SyncTypes
  <1>1. CASE RoundFails
    <2>1. WithRows \in [Heights -> Blocks \cup {None}]
      BY DEF WithRows, SyncTypes
    <2>2. SyncTypes'
      BY <1>0, <1>1, <2>1, EndRoundTypes DEF RoundFails, SyncTypes, memory
    <2> QED BY <1>0, <1>1, <2>2, FiltersHInv DEF RoundFails, memory, EndRound, Rewinding
  <1>2. CASE RewindFails
    <2>1. SyncTypes'
      BY <1>0, <1>2, EndRoundTypes DEF RewindFails, SyncTypes, memory, tables
    <2> QED BY <1>0, <1>2, <2>1, FiltersHInv DEF RewindFails, memory, tables, EndRound
  <1>3. CASE Restart
    <2>1. PICK t \in Heights, s \in Heights :
            /\ Loads(hdrRows, t)
            /\ chain' = hdrRows
            /\ tip' = t
            /\ filterStart' = s
      BY <1>3 DEF Restart
    <2>2. anchor' = None /\ anchorTried' = FALSE /\ UNCHANGED tables
      BY <1>3 DEF Restart
    <2>3. SyncTypes'
      BY <1>0, <2>1, <2>2, EndRoundTypes DEF SyncTypes, tables
    <2>4. PICK br \in Branches, u \in Heights : OnBranch(hdrRows, u, br)
      BY DEF HeadersInv, ChainInv, SyncTypes
    <2>5. Len(br) \in 1..(MaxHeight + 1) /\ \A i \in 1..Len(br) : br[i] # None
      BY BranchFacts
    <2>6. \A h \in Heights : h <= u <=> hdrRows[h] # None
      BY <2>4, <2>5, BoundsAssumption DEF OnBranch, Heights
    <2>7. \A h \in Heights : h <= t <=> hdrRows[h] # None
      <3>1. hdrRows[0] # None
        BY <2>1, BlocksAssumption DEF Loads
      <3> QED BY <2>1, <3>1, BoundsAssumption DEF Loads, Heights
    <2>8. t = u
      BY <2>6, <2>7, BoundsAssumption DEF Heights
    <2> QED BY <1>0, <2>1, <2>2, <2>3, <2>4, <2>8
            DEF ChainInv, BatchInv, HeadersInv, CursorInv, OnBranch, tables, EndRound, Rewinding
  <1> QED BY <1>1, <1>2, <1>3

\* Every step keeps the invariant.
LEMMA NextHInv ==
  ASSUME HInv, "delHeaders" \notin RewindFaults, [Next]_vars
  PROVE  HInv'
  <1>0. trouble \in 0..MaxTrouble
    BY DEF HInv, SyncTypes
  <1>1. CASE BeginRound
    <2>1. SyncTypes'
      BY <1>1 DEF HInv, BeginRound, SyncTypes, memory, tables, cursor, Places
    <2> QED BY <1>1, <2>1, FiltersHInv DEF BeginRound, memory, tables, Rewinding
  <1>2. CASE ReceiveHeaders
    <2>1. PICK f \in 0..(Len(Best) - 1) : TakeHeaders(Best, f)
      BY <1>2 DEF ReceiveHeaders
    <2>2. trouble' \in 0..MaxTrouble /\ Best \in Branches
      BY <1>0, <1>2, BranchesAssumption DEF ReceiveHeaders
    <2> QED BY <2>1, <2>2, TakeHeadersHInv
  <1>3. CASE ReceiveOtherHeaders
    <2>1. PICK br \in Branches : \E f \in 0..(Len(br) - 1) : TakeHeaders(br, f)
      BY <1>3 DEF ReceiveOtherHeaders
    <2>2. trouble' \in 0..MaxTrouble
      BY <1>0, <1>3, TroubleType DEF ReceiveOtherHeaders
    <2> QED BY <2>1, <2>2, TakeHeadersHInv
  <1>4. CASE SyncFilters
    BY <1>0, <1>4, StartFiltersHInv DEF SyncFilters
  <1>5. CASE SyncFiltersUnproven
    BY <1>0, <1>5, StartFiltersHInv, TroubleType DEF SyncFiltersUnproven
  <1>6. CASE UNCHANGED vars
    BY <1>6 DEF HInv, SyncTypes, ChainInv, BatchInv, HeadersInv, CursorInv, OnBranch,
                vars, sync, memory, tables, cursor
  <1> QED BY <1>1, <1>2, <1>3, <1>4, <1>5, <1>6, RewindHInv, ExtendHeadersHInv,
             AcceptFiltersHInv, FaultsHInv DEF Next, Progress, Adversity

\* Between any two writes the stored headers are the lower part of a branch,
\* so the next start accepts them.
LEMMA HInvLoads == ASSUME HInv PROVE StoredHeadersLoad
  <1>1. PICK br \in Branches, t \in Heights : OnBranch(hdrRows, t, br)
    BY DEF HInv, HeadersInv, ChainInv, SyncTypes
  <1>2. /\ Len(br) \in 1..(MaxHeight + 1)
        /\ \A i \in 1..Len(br) : br[i] # None
        /\ br[1] = Genesis
        /\ \A i \in 2..Len(br) : Parent[br[i]] = br[i - 1]
    BY BranchFacts
  <1>3. hdrRows[0] = Genesis
    <2>1. 0 \in Heights /\ 0 <= t /\ 0 + 1 = 1
      BY BoundsAssumption DEF Heights
    <2>2. hdrRows[0] = br[0 + 1]
      BY <1>1, <2>1 DEF OnBranch
    <2> QED BY <1>2, <2>1, <2>2
  <1>4. \A h \in 1..t : hdrRows[h] # None /\ Parent[hdrRows[h]] = hdrRows[h - 1]
    <2>1. ASSUME NEW h \in 1..t
          PROVE  hdrRows[h] # None /\ Parent[hdrRows[h]] = hdrRows[h - 1]
      <3>1. h + 1 \in 2..Len(br) /\ h \in Heights /\ h - 1 \in Heights
        BY <1>1, <1>2, BoundsAssumption DEF OnBranch, Heights
      <3>2. hdrRows[h] = br[h + 1] /\ hdrRows[h - 1] = br[h]
        BY <1>1, <3>1, BoundsAssumption DEF OnBranch, Heights
      <3> QED BY <1>2, <3>1, <3>2
    <2> QED BY <2>1
  <1>5. \A h \in Heights : h > t => hdrRows[h] = None
    BY <1>1, BoundsAssumption DEF OnBranch, Heights
  <1> QED BY <1>3, <1>4, <1>5 DEF StoredHeadersLoad, Loads

(***************************************************************************)
(* Headers: the theorems                                                   *)
(***************************************************************************)

\* Every variable keeps its type, for all chains, forks, batch sizes and
\* bounds: nothing is appended above the longest branch, no cursor leaves it
\* (ChainSync, TypeOK).
THEOREM TypeCorrect == "delHeaders" \notin RewindFaults => (Spec => []TypeOK)
  <1> SUFFICES ASSUME "delHeaders" \notin RewindFaults PROVE Spec => []TypeOK
    OBVIOUS
  <1> DEFINE Inv == HInv /\ interrupted \in BOOLEAN
  <1>1. Init => Inv
    BY InitHInv DEF Init
  <1>2. Inv /\ [Next]_vars => Inv'
    <2>1. ASSUME Inv, [Next]_vars PROVE interrupted' \in BOOLEAN
      BY <2>1 DEF Next, vars
    <2> QED BY <2>1, NextHInv
  <1>3. Inv => TypeOK
    BY DEF HInv, TypeOK
  <1> QED BY <1>1, <1>2, <1>3, PTL DEF Spec

\* A process that ends between any two writes of a round, those of a rewind
\* included, finds stored headers that Init accepts (sync.go Init, rewindTo,
\* extendHeaders).  It needs that the delete of the stored headers, when the
\* rewind gets to it, does not fail.
THEOREM HeadersLoadAgain == "delHeaders" \notin RewindFaults => (Spec => []StoredHeadersLoad)
  <1> SUFFICES ASSUME "delHeaders" \notin RewindFaults PROVE Spec => []StoredHeadersLoad
    OBVIOUS
  <1>1. Init => HInv
    BY InitHInv
  <1>2. HInv /\ [Next]_vars => HInv'
    BY NextHInv
  <1>3. HInv => StoredHeadersLoad
    BY HInvLoads
  <1> QED BY <1>1, <1>2, <1>3, PTL DEF Spec

(***************************************************************************)
(* The rows of the tables                                                  *)
(*                                                                         *)
(* When nothing interrupts a rewind, filter rows, matches and confirmed    *)
(* transactions are those of the chain.                                    *)
(***************************************************************************)

(***************************************************************************)
(* Steps                                                                   *)
(***************************************************************************)

\* The filter download of the chain starts at height r.
Resuming(r) ==
  /\ r \in 0..(MaxHeight + 1)
  /\ \E s \in Heights : IsFilterStart(s, chain, tip) /\ IsResume(r, s)

\* What steps do to the chain and to the tables above the headers: nothing,
Quiet ==
  /\ UNCHANGED <<chain, tip, filRows, matchRows, txRows>>
  /\ pc' = pc \/ (pc \notin Rewinding /\ pc' \notin Rewinding)
  /\ pc' = "hashes" =>
       \/ next' = from' /\ from' <= tip /\ Resuming(from')
       \/ UNCHANGED <<pc, from, next>>
  /\ pc' = "filters" =>
       \/ pc = "hashes" /\ from' = from /\ next' = from' /\ end' + 1 >= next'
       \/ UNCHANGED <<pc, from, next, end>>
  /\ pc' = "idle" /\ roundOK' =>
       \/ \E r \in Nat : Resuming(r) /\ r > tip
       \/ UNCHANGED <<pc, roundOK>>

\* cut the chain in memory,
Truncation ==
  /\ \E f \in 0..tip : chain' = UpTo(chain, f) /\ tip' = f
  /\ UNCHANGED <<filRows, matchRows, txRows>>
  /\ pc = "headers"
  /\ pc' = IF tip' < tip THEN "delHeaders" ELSE "append"

\* or store the rows of the filters accepted.
RowsStored ==
  /\ pc = "filters"
  /\ filRows' = WithRows
  /\ UNCHANGED <<chain, tip, matchRows, txRows>>
  /\ pc' \in {"idle", "hashes", "filters"}
  /\ pc' # "idle" => from' = next /\ next' = next /\ end' = end
  /\ pc' = "filters" => next <= end
  /\ pc' = "hashes" => next <= tip
  /\ pc' = "idle" /\ roundOK' => next > tip

\* The cursors of a filter batch are in order.
SpanInv ==
  /\ pc = "hashes" => next = from /\ from <= tip
  /\ pc = "filters" => from <= next /\ next <= end + 1

\* A restart loads the headers it had in memory.
LEMMA RestartKeepsChain ==
  ASSUME HInv, pc # "delHeaders", Restart
  PROVE  UNCHANGED <<chain, tip>>
  <1>1. hdrRows = chain
    BY DEF HInv, HeadersInv
  <1>2. PICK t \in Heights : Loads(chain, t) /\ chain' = chain /\ tip' = t
    BY <1>1 DEF Restart
  <1>3. PICK br \in Branches : OnBranch(chain, tip, br)
    BY DEF HInv, ChainInv
  <1>4. /\ Len(br) \in 1..(MaxHeight + 1) /\ tip \in Heights /\ MaxHeight \in Nat
        /\ \A i \in 1..Len(br) : br[i] # None
    BY BranchFacts, BoundsAssumption DEF HInv, SyncTypes
  <1>5. \A h \in Heights : h <= tip <=> chain[h] # None
    <2>1. ASSUME NEW h \in Heights, h <= tip PROVE chain[h] # None
      <3>1. h + 1 \in 1..Len(br)
        BY <1>3, <1>4, <2>1 DEF OnBranch, Heights
      <3> QED BY <1>3, <1>4, <2>1, <3>1 DEF OnBranch
    <2> QED BY <1>3, <2>1 DEF OnBranch
  <1>6. chain[0] # None /\ \A h \in 1..t : chain[h] # None
    BY <1>2, BlocksAssumption DEF Loads
  <1>7. \A h \in Heights : h <= t <=> chain[h] # None
    BY <1>2, <1>4, <1>6 DEF Loads, Heights
  <1> QED BY <1>2, <1>4, <1>5, <1>7 DEF Heights

\* Taking headers does one of the first two.
LEMMA TakeHeadersKind ==
  ASSUME HInv, NEW br \in Branches, NEW f \in 0..(Len(br) - 1), TakeHeaders(br, f)
  PROVE  Quiet \/ Truncation
  <1>1. pc = "headers" /\ tip \in Nat
    BY DEF TakeHeaders, HInv, SyncTypes, Heights
  <1>2. CASE Answer(br, f) = << >>
    BY <1>1, <1>2 DEF TakeHeaders, Quiet, memory, tables, Rewinding
  <1>3. CASE Answer(br, f) # << >> /\ ~KnownFork(HeightOf(br[f + 1]))
    BY <1>1, <1>3 DEF TakeHeaders, Quiet, memory, tables, EndRound, Rewinding
  <1>4. CASE Answer(br, f) # << >> /\ KnownFork(HeightOf(br[f + 1]))
    <2>1. HeightOf(br[f + 1]) = f /\ f <= tip
      BY <1>4, ForkHeight DEF HInv, KnownFork
    <2>2. f \in 0..tip
      BY <1>1, <2>1, BranchFacts
    <2> QED BY <1>1, <1>4, <2>1, <2>2 DEF TakeHeaders, Truncation, tables
  <1> QED BY <1>2, <1>3, <1>4

\* The start of the filters changes no table.
LEMMA StartFiltersKind ==
  ASSUME tip \in Heights, NEW s \in Heights, NEW r \in 0..(MaxHeight + 1), NEW vote, StartFilters(s, r, vote)
  PROVE  Quiet
  <1>1. pc = "start" /\ UNCHANGED <<chain, tip, tables>>
    BY DEF StartFilters
  <1>2. Resuming(r)
    BY DEF StartFilters, Resuming
  <1>3. \/ EndRound(FALSE)
        \/ r > tip /\ EndRound(TRUE)
        \/ ~(r > tip) /\ pc' = "hashes" /\ from' = r /\ next' = r
    BY DEF StartFilters
  <1>4. ~(r > tip) => r <= tip
    BY BoundsAssumption DEF Heights
  <1> QED BY <1>1, <1>2, <1>3, <1>4 DEF Quiet, tables, EndRound, Rewinding

\* A step after which no rewind was interrupted interrupts none, and follows
\* others that did not.
LEMMA Uninterrupted ==
  ASSUME [Next]_vars, ~interrupted'
  PROVE  /\ ~interrupted
         /\ pc \in Rewinding => pc' # "idle"
  <1>1. CASE Next
    BY <1>1 DEF Next, Interrupts
  <1>2. CASE UNCHANGED vars
    BY <1>2 DEF vars, sync, Rewinding
  <1> QED BY <1>1, <1>2

\* What every step does, when nothing interrupts a rewind.
LEMMA StepKinds ==
  ASSUME HInv, SpanInv, "delHeaders" \notin RewindFaults, [Next]_vars, ~interrupted'
  PROVE  \/ Quiet \/ Truncation \/ RowsStored
         \/ DeleteHeadersFrom \/ DeleteFiltersFrom \/ DeleteMatchesFrom \/ DeleteTransactionsFrom
         \/ ExtendHeaders \/ ApplyFilter \/ (\E t \in Txs : SaveTransaction(t))
  <1>1. CASE BeginRound
    BY <1>1 DEF BeginRound, Quiet, memory, tables, Rewinding
  <1>2. CASE ReceiveHeaders \/ ReceiveOtherHeaders
    BY <1>2, TakeHeadersKind, BranchesAssumption DEF ReceiveHeaders, ReceiveOtherHeaders
  <1>3. CASE SyncFilters \/ SyncFiltersUnproven
    BY <1>3, StartFiltersKind DEF HInv, SyncTypes, SyncFilters, SyncFiltersUnproven
  <1>4. CASE FilterHashes
    <2>1. pc = "hashes" /\ next = from /\ from <= tip /\ UNCHANGED <<chain, tip, tables>>
      BY <1>4 DEF FilterHashes, SpanInv
    <2>2. CASE LinkOK(from)
      <3>1. /\ pc' = "filters" /\ from' = from /\ next' = next
            /\ end' = Smaller(from + FilterHeaderBatch - 1, tip)
        BY <1>4, <2>2 DEF FilterHashes
      <3>2. from \in Nat /\ tip \in Nat /\ from <= tip /\ FilterHeaderBatch \in Nat \ {0}
        BY <2>1, BoundsAssumption DEF HInv, SyncTypes, Heights
      <3>3. end' + 1 >= from
        BY <3>1, <3>2 DEF Smaller
      <3> QED BY <2>1, <3>1, <3>3 DEF Quiet, tables, Rewinding
    <2>3. CASE ~LinkOK(from)
      BY <1>4, <2>1, <2>3 DEF FilterHashes, Quiet, EndRound, tables, Rewinding
    <2> QED BY <2>2, <2>3
  <1>5. CASE StoreFilters
    <2>1. pc = "filters" /\ filRows' = WithRows /\ UNCHANGED <<chain, tip, matchRows, txRows>>
      BY <1>5 DEF StoreFilters, memory
    <2>2. CASE EndRound(TRUE)
      <3>1. ~(next <= tip)
        BY <1>5, <2>1, <2>2 DEF StoreFilters, EndRound
      <3>2. next > tip
        BY <3>1, BoundsAssumption DEF HInv, SyncTypes, Heights
      <3> QED BY <2>1, <2>2, <3>2 DEF RowsStored, EndRound
    <2>3. CASE ~EndRound(TRUE)
      BY <1>5, <2>1, <2>3 DEF StoreFilters, RowsStored
    <2> QED BY <2>2, <2>3
  <1>6. CASE RoundFails
    BY <1>6 DEF RoundFails, Quiet, RowsStored, EndRound, memory, Rewinding
  <1>7. CASE Restart
    <2>1. pc \notin Rewinding /\ UNCHANGED tables /\ EndRound(FALSE)
      BY <1>7, Uninterrupted DEF Restart, EndRound
    <2>2. UNCHANGED <<chain, tip>>
      BY <1>7, <2>1, RestartKeepsChain DEF Rewinding
    <2> QED BY <2>1, <2>2 DEF Quiet, EndRound, tables, Rewinding
  <1>8. CASE UNCHANGED vars
    BY <1>8 DEF vars, sync, memory, tables, cursor, Quiet, SpanInv
  <1>9. ~RewindFails
    BY Uninterrupted DEF RewindFails, EndRound
  <1> QED BY <1>1, <1>2, <1>3, <1>4, <1>5, <1>6, <1>7, <1>8, <1>9 DEF Next, Progress, Adversity

(***************************************************************************)
(* The tables and the chain                                                *)
(***************************************************************************)

\* Rows at the heights of the chain are those of its blocks.
BelowInv ==
  /\ \A h \in 0..tip : filRows[h] # None => filRows[h] = chain[h]
  /\ \A h \in 0..tip : matchRows[h] # None => matchRows[h] = chain[h]
  /\ \A t \in Txs : txRows[t].height \in 0..tip => txRows[t].block = chain[txRows[t].height]

\* Rows above it are there only until the delete of their table.
AboveInv ==
  /\ pc \notin {"delHeaders", "delFilters"} =>
       \A h \in Heights : h > tip => filRows[h] = None
  /\ pc \notin {"delHeaders", "delFilters", "delMatches"} =>
       \A h \in Heights : h > tip => matchRows[h] = None
  /\ pc \notin Rewinding => \A t \in Txs : txRows[t].height <= tip

RowsInv == HInv /\ SpanInv /\ BelowInv /\ AboveInv

\* The height of the block being applied.
LEMMA NextFacts ==
  ASSUME HInv, SpanInv, pc = "filters"
  PROVE  /\ next \in Nat /\ next - 1 <= tip
         /\ next <= BatchEnd => next \in 0..tip /\ next <= end
  <1>1. /\ tip \in Nat /\ from \in Nat /\ next \in Nat /\ end \in Nat /\ FilterBatch \in Nat
        /\ end <= tip
    BY BoundsAssumption DEF HInv, SyncTypes, CursorInv, Heights
  <1> QED BY <1>1 DEF SpanInv, BatchEnd, Smaller

\* The cursors stay in order.
LEMMA SpanStep ==
  ASSUME HInv, SpanInv, "delHeaders" \notin RewindFaults, [Next]_vars, ~interrupted'
  PROVE  SpanInv'
  <1>0. from \in Nat /\ next \in Nat /\ end \in Nat /\ tip \in Nat
    BY BoundsAssumption DEF HInv, SyncTypes, Heights
  <1>1. CASE Quiet
    <2>1. UNCHANGED tip
      BY <1>1 DEF Quiet
    <2>2. ASSUME pc' = "hashes" PROVE next' = from' /\ from' <= tip'
      <3>1. CASE next' = from' /\ from' <= tip
        BY <2>1, <3>1
      <3>2. CASE UNCHANGED <<pc, from, next>>
        BY <2>1, <2>2, <3>2 DEF SpanInv
      <3> QED BY <1>1, <2>2, <3>1, <3>2 DEF Quiet
    <2>3. ASSUME pc' = "filters" PROVE from' <= next' /\ next' <= end' + 1
      <3>1. CASE next' = from' /\ end' + 1 >= next'
        <4>1. next' \in Nat /\ end' \in Nat
          <5>1. SyncTypes'
            BY NextHInv DEF HInv
          <5>2. next' \in 0..(MaxHeight + 1) /\ end' \in 0..MaxHeight
            BY <5>1 DEF SyncTypes, Heights
          <5> QED BY <5>2, BoundsAssumption
        <4>2. from' <= next'
          BY <3>1, <4>1
        <4>3. next' <= end' + 1
          BY <3>1, <4>1
        <4> QED BY <4>2, <4>3
      <3>2. CASE UNCHANGED <<pc, from, next, end>>
        BY <2>3, <3>2 DEF SpanInv
      <3> QED BY <1>1, <2>3, <3>1, <3>2 DEF Quiet
    <2> QED BY <2>2, <2>3 DEF SpanInv
  <1>2. CASE Truncation
    BY <1>2 DEF Truncation, SpanInv
  <1>3. CASE RowsStored
    BY <1>0, <1>3 DEF RowsStored, SpanInv
  <1>4. CASE DeleteHeadersFrom \/ DeleteFiltersFrom \/ DeleteMatchesFrom \/ DeleteTransactionsFrom
    BY <1>4 DEF DeleteHeadersFrom, DeleteFiltersFrom, DeleteMatchesFrom, DeleteTransactionsFrom, SpanInv
  <1>5. CASE ExtendHeaders
    BY <1>5 DEF ExtendHeaders, EndRound, SpanInv
  <1>6. CASE ApplyFilter
    BY <1>0, <1>6, NextFacts DEF ApplyFilter, SpanInv
  <1>7. CASE \E t \in Txs : SaveTransaction(t)
    BY <1>7 DEF SaveTransaction, cursor, SpanInv, memory
  <1> QED BY <1>1, <1>2, <1>3, <1>4, <1>5, <1>6, <1>7, StepKinds

\* A new wallet has no rows.
LEMMA InitRowsInv == ASSUME Init PROVE RowsInv
  <1>1. HInv
    BY InitHInv
  <1>2. SpanInv
    BY DEF Init, SpanInv
  <1>3. /\ tip = 0 /\ \A h \in Heights : filRows[h] = None /\ matchRows[h] = None
        /\ \A t \in Txs : txRows[t].height = -1
    BY DEF Init, NoTx
  <1>4. 0..tip \subseteq Heights /\ -1 \notin 0..tip /\ -1 <= tip
    BY <1>3, BoundsAssumption DEF Heights
  <1>5. BelowInv /\ AboveInv
    BY <1>3, <1>4 DEF BelowInv, AboveInv
  <1> QED BY <1>1, <1>2, <1>5 DEF RowsInv

\* A rewind ends with no row above the fork.
LEMMA RewindRows ==
  ASSUME RowsInv,
         Truncation \/ DeleteHeadersFrom \/ DeleteFiltersFrom \/ DeleteMatchesFrom \/ DeleteTransactionsFrom
  PROVE  BelowInv' /\ AboveInv'
  <1>0. /\ tip \in Heights /\ MaxHeight \in Nat
        /\ filRows \in [Heights -> Blocks \cup {None}]
        /\ matchRows \in [Heights -> Blocks \cup {None}]
        /\ txRows \in [Txs -> TxRow]
    BY BoundsAssumption DEF RowsInv, HInv, SyncTypes
  <1>a. \A t \in Txs : txRows[t] = NoTx \/ txRows[t].height \in Heights
    BY <1>0 DEF TxRow
  <1>1. CASE Truncation
    <2>1. PICK f \in 0..tip : chain' = UpTo(chain, f) /\ tip' = f
      BY <1>1 DEF Truncation
    <2>2. \A h \in 0..f : h \in 0..tip /\ chain'[h] = chain[h]
      BY <1>0, <2>1 DEF UpTo, Heights
    <2>3. BelowInv'
      BY <1>0, <1>1, <2>1, <2>2 DEF Truncation, RowsInv, BelowInv
    <2>4. AboveInv'
      <3>1. CASE f < tip
        BY <1>1, <2>1, <3>1 DEF Truncation, AboveInv, Rewinding
      <3>2. CASE f = tip
        BY <1>1, <2>1, <3>2 DEF Truncation, RowsInv, AboveInv, Rewinding
      <3> QED BY <1>0, <2>1, <3>1, <3>2 DEF Heights
    <2> QED BY <2>3, <2>4
  <1>2. CASE DeleteHeadersFrom
    BY <1>2 DEF DeleteHeadersFrom, RowsInv, BelowInv, AboveInv, memory, Rewinding
  <1>3. CASE DeleteFiltersFrom
    <2>1. /\ pc = "delFilters" /\ pc' = "delMatches" /\ filRows' = UpTo(filRows, tip)
          /\ UNCHANGED <<chain, tip, matchRows, txRows>>
      BY <1>3 DEF DeleteFiltersFrom, memory
    <2>2. \A h \in Heights : filRows'[h] = IF h <= tip THEN filRows[h] ELSE None
      BY <2>1 DEF UpTo
    <2>3. \A h \in 0..tip : h \in Heights /\ h <= tip
      BY <1>0 DEF Heights
    <2>4. \A h \in Heights : h > tip => ~(h <= tip)
      BY <1>0 DEF Heights
    <2>5. BelowInv'
      BY <2>1, <2>2, <2>3 DEF RowsInv, BelowInv
    <2> QED BY <2>1, <2>2, <2>4, <2>5 DEF AboveInv, Rewinding
  <1>4. CASE DeleteMatchesFrom
    <2>1. /\ pc = "delMatches" /\ pc' = "delTxs" /\ matchRows' = UpTo(matchRows, tip)
          /\ UNCHANGED <<chain, tip, filRows, txRows>>
      BY <1>4 DEF DeleteMatchesFrom, memory
    <2>2. \A h \in Heights : matchRows'[h] = IF h <= tip THEN matchRows[h] ELSE None
      BY <2>1 DEF UpTo
    <2>3. \A h \in 0..tip : h \in Heights /\ h <= tip
      BY <1>0 DEF Heights
    <2>4. \A h \in Heights : h > tip => ~(h <= tip)
      BY <1>0 DEF Heights
    <2>5. BelowInv'
      BY <2>1, <2>2, <2>3 DEF RowsInv, BelowInv
    <2> QED BY <2>1, <2>2, <2>4, <2>5 DEF RowsInv, AboveInv, Rewinding
  <1>5. CASE DeleteTransactionsFrom
    <2>1. /\ pc = "delTxs" /\ pc' = "append" /\ txRows' = TxsUpTo(tip)
          /\ UNCHANGED <<chain, tip, filRows, matchRows>>
      BY <1>5 DEF DeleteTransactionsFrom, memory
    <2>2. \A t \in Txs : IF txRows[t].height <= tip THEN txRows'[t] = txRows[t] ELSE txRows'[t].height = -1
      BY <2>1 DEF TxsUpTo, NoTx
    <2>3. \A t \in Txs : txRows'[t].height <= tip /\ (txRows'[t].height \in 0..tip => txRows'[t] = txRows[t])
      BY <1>0, <2>2 DEF Heights
    <2>4. BelowInv'
      BY <2>1, <2>3 DEF RowsInv, BelowInv
    <2> QED BY <2>1, <2>3, <2>4 DEF RowsInv, AboveInv, Rewinding
  <1> QED BY <1>1, <1>2, <1>3, <1>4, <1>5

\* Nothing is stored above the tip when headers are appended.
LEMMA ExtendRows ==
  ASSUME RowsInv, ExtendHeaders
  PROVE  BelowInv' /\ AboveInv'
  <1>0. tip \in Heights /\ MaxHeight \in Nat /\ txRows \in [Txs -> TxRow]
    BY BoundsAssumption DEF RowsInv, HInv, SyncTypes
  <1>1. /\ pc = "append" /\ pc' \in {"idle", "start", "headers"}
        /\ UNCHANGED <<filRows, matchRows, txRows>>
    BY DEF ExtendHeaders, EndRound
  <1>2. PICK n \in 0..Len(batch) :
          /\ tip' = tip + n
          /\ chain' = [h \in Heights |-> IF h > tip /\ h <= tip + n THEN batch[h - tip] ELSE chain[h]]
    BY DEF ExtendHeaders, Appended
  <1>3. n \in Nat
    <2>1. Len(batch) \in Nat
      BY DEF RowsInv, HInv, SyncTypes
    <2> QED BY <2>1
  <1>4. \A h \in 0..tip : chain'[h] = chain[h]
    BY <1>0, <1>2 DEF Heights
  <1>5. \A h \in Heights : h > tip => filRows[h] = None /\ matchRows[h] = None
    BY <1>1 DEF RowsInv, AboveInv
  <1>6. \A t \in Txs : txRows[t].height <= tip
    BY <1>1 DEF RowsInv, AboveInv, Rewinding
  <1>7. \A t \in Txs : txRows[t].height \in {-1} \cup Heights
    BY <1>0 DEF TxRow, NoTx
  <1>8. \A h \in 0..tip' : h \in 0..tip \/ (filRows[h] = None /\ matchRows[h] = None)
    <2>1. \A h \in 0..tip' : h \in 0..tip \/ (h \in Heights /\ h > tip)
      <3>1. tip' \in Heights
        BY ExtendHeadersHInv DEF RowsInv, HInv, SyncTypes
      <3> QED BY <1>0, <3>1 DEF Heights
    <2> QED BY <1>5, <2>1
  <1>9. BelowInv'
    BY <1>0, <1>1, <1>4, <1>6, <1>7, <1>8 DEF RowsInv, BelowInv, Heights
  <1>10. AboveInv'
    BY <1>0, <1>1, <1>2, <1>3, <1>5, <1>6, <1>7 DEF AboveInv, Rewinding, Heights
  <1> QED BY <1>9, <1>10

\* Accepting filters writes only rows of blocks on the chain.
LEMMA AcceptRows ==
  ASSUME RowsInv, RowsStored \/ ApplyFilter \/ (\E t \in Txs : SaveTransaction(t))
  PROVE  BelowInv' /\ AboveInv'
  <1>0. /\ pc = "filters" /\ UNCHANGED <<chain, tip>>
        /\ pc' \in {"idle", "hashes", "filters"}
    BY DEF RowsStored, ApplyFilter, SaveTransaction, memory
  <1>1. /\ tip \in Heights /\ MaxHeight \in Nat /\ next \in Nat /\ next - 1 <= tip
        /\ next <= BatchEnd => next \in 0..tip
        /\ filRows \in [Heights -> Blocks \cup {None}]
        /\ matchRows \in [Heights -> Blocks \cup {None}]
        /\ txRows \in [Txs -> TxRow]
    BY <1>0, NextFacts, BoundsAssumption DEF RowsInv, HInv, SyncTypes
  <1>2. /\ \A h \in Heights : h > tip => filRows[h] = None
        /\ \A h \in Heights : h > tip => matchRows[h] = None
        /\ \A t \in Txs : txRows[t].height <= tip
    BY <1>0 DEF RowsInv, AboveInv, Rewinding
  <1>3. CASE RowsStored
    <2>1. filRows' = WithRows /\ UNCHANGED <<matchRows, txRows>>
      BY <1>3 DEF RowsStored
    <2>2. \A h \in Heights : filRows'[h] \in {filRows[h], chain[h]}
      BY <2>1 DEF WithRows
    <2>3. \A h \in Heights : h > tip => filRows'[h] = filRows[h]
      BY <1>1, <2>1 DEF WithRows, Heights
    <2>4. \A h \in 0..tip : h \in Heights
      BY <1>1 DEF Heights
    <2>5. BelowInv'
      BY <1>0, <2>1, <2>2, <2>4 DEF RowsInv, BelowInv
    <2> QED BY <1>0, <1>2, <2>1, <2>3, <2>5 DEF AboveInv, Rewinding
  <1>4. CASE ApplyFilter
    <2>1. /\ next <= BatchEnd /\ UNCHANGED <<filRows, txRows>>
          /\ \E m \in {chain[next], matchRows[next]} : matchRows' = [matchRows EXCEPT ![next] = m]
      BY <1>4 DEF ApplyFilter
    <2>2. next \in 0..tip /\ \A h \in 0..tip : h \in Heights
      BY <1>1, <2>1 DEF Heights
    <2>3. \A h \in Heights : matchRows'[h] \in {matchRows[h], chain[h]} /\ (h # next => matchRows'[h] = matchRows[h])
      BY <1>1, <2>1
    <2>4. \A h \in Heights : h > tip => h # next
      BY <1>1, <2>2 DEF Heights
    <2>5. BelowInv'
      BY <1>0, <2>1, <2>2, <2>3 DEF RowsInv, BelowInv
    <2> QED BY <1>0, <1>2, <2>1, <2>3, <2>4, <2>5 DEF AboveInv, Rewinding
  <1>5. CASE \E t \in Txs : SaveTransaction(t)
    <2>1. PICK t \in Txs : SaveTransaction(t)
      BY <1>5
    <2>2. /\ next <= BatchEnd /\ UNCHANGED <<filRows, matchRows>>
          /\ txRows' = [txRows EXCEPT ![t] = Row(next)]
      BY <2>1 DEF SaveTransaction
    <2>3. next \in 0..tip
      BY <1>1, <2>2
    <2>4. \A u \in Txs : IF u = t THEN txRows'[u] = Row(next) ELSE txRows'[u] = txRows[u]
      BY <1>1, <2>2
    <2>5. Row(next).height = next /\ Row(next).block = chain[next]
      BY DEF Row
    <2>6. BelowInv'
      BY <1>0, <2>2, <2>4, <2>5 DEF RowsInv, BelowInv
    <2>7. \A u \in Txs : txRows'[u].height <= tip
      BY <1>1, <1>2, <2>3, <2>4, <2>5 DEF Heights
    <2> QED BY <1>0, <1>2, <2>2, <2>6, <2>7 DEF AboveInv, Rewinding
  <1> QED BY <1>3, <1>4, <1>5

\* Every step keeps the tables in line with the chain.
LEMMA NextRowsInv ==
  ASSUME RowsInv, "delHeaders" \notin RewindFaults, [Next]_vars, ~interrupted'
  PROVE  RowsInv'
  <1>1. HInv'
    BY NextHInv DEF RowsInv
  <1>2. SpanInv'
    BY SpanStep DEF RowsInv
  <1>3. CASE Quiet
    <2>1. UNCHANGED <<chain, tip, filRows, matchRows, txRows>>
      BY <1>3 DEF Quiet
    <2>2. BelowInv'
      BY <2>1 DEF RowsInv, BelowInv
    <2>3. AboveInv'
      BY <1>3, <2>1 DEF Quiet, RowsInv, AboveInv, Rewinding
    <2> QED BY <1>1, <1>2, <2>2, <2>3 DEF RowsInv
  <1>4. CASE ~Quiet
    <2>1. BelowInv' /\ AboveInv'
      BY <1>4, StepKinds, RewindRows, ExtendRows, AcceptRows DEF RowsInv
    <2> QED BY <1>1, <1>2, <2>1 DEF RowsInv
  <1> QED BY <1>3, <1>4

\* Outside a rewind every filter row belongs to the block of its height on the
\* chain ("keeps the header chain and filter rows consistent",
\* DeleteFiltersFrom), as long as no rewind was interrupted.
THEOREM FilterRowsStayOnChain == "delHeaders" \notin RewindFaults => (Spec => []FilterRowsOnChain)
  <1> SUFFICES ASSUME "delHeaders" \notin RewindFaults PROVE Spec => []FilterRowsOnChain
    OBVIOUS
  <1> DEFINE Inv == HInv /\ (~interrupted => RowsInv)
  <1>1. Init => Inv
    BY InitRowsInv DEF RowsInv
  <1>2. Inv /\ [Next]_vars => Inv'
    BY NextHInv, NextRowsInv, Uninterrupted
  <1>3. Inv => FilterRowsOnChain
    BY BoundsAssumption DEF RowsInv, HInv, SyncTypes, BelowInv, AboveInv, FilterRowsOnChain,
                            FilterRowsConsistent, Rewinding, Heights
  <1> HIDE DEF Inv
  <1> QED BY <1>1, <1>2, <1>3, PTL DEF Spec

\* So do the matches and the confirmed transactions: a payment in an orphaned
\* block does not stay confirmed (rewindTo).
THEOREM LedgerStaysOnChain == "delHeaders" \notin RewindFaults => (Spec => []LedgerOnChain)
  <1> SUFFICES ASSUME "delHeaders" \notin RewindFaults PROVE Spec => []LedgerOnChain
    OBVIOUS
  <1> DEFINE Inv == HInv /\ (~interrupted => RowsInv)
  <1>1. Init => Inv
    BY InitRowsInv DEF RowsInv
  <1>2. Inv /\ [Next]_vars => Inv'
    BY NextHInv, NextRowsInv, Uninterrupted
  <1>3. Inv => LedgerOnChain
    <2>1. ASSUME RowsInv PROVE LedgerOnChain
      <3>1. \A t \in Txs : txRows[t] # NoTx => txRows[t].height \in Heights
        BY <2>1 DEF RowsInv, HInv, SyncTypes, TxRow
      <3> QED BY <2>1, <3>1, BoundsAssumption
              DEF RowsInv, HInv, SyncTypes, BelowInv, AboveInv, LedgerOnChain, Rewinding, Heights
    <2> QED BY <2>1 DEF LedgerOnChain
  <1> HIDE DEF Inv
  <1> QED BY <1>1, <1>2, <1>3, PTL DEF Spec

(***************************************************************************)
(* The ledger                                                              *)
(*                                                                         *)
(* The invariant says what a filter row and a confirmed transaction prove  *)
(* about the chain, where the download resumes, and that nothing below     *)
(* that point was skipped.                                                 *)
(***************************************************************************)

(***************************************************************************)
(* What rows prove                                                         *)
(***************************************************************************)

\* The wallet transactions of the block at height h are stored.
Stored(h) == \A t \in WalletTxs[chain[h]] : txRows[t] = Row(h)

\* A block at or below height h is not dated before the seed.
Dated(h) == \E g \in 0..h : chain[g] \notin Old

\* A confirmed transaction is one of its block.
OwnInv == \A t \in Txs : txRows[t] # NoTx => t \in WalletTxs[txRows[t].block]

\* A filter row is there only once the payments of its block are.
SearchedInv == \A h \in 0..tip : filRows[h] # None => Stored(h)

\* So is a filter accepted and not committed yet.
AcceptedInv == pc = "filters" => \A h \in from..(next - 1) : Stored(h)

\* The download goes on where there is no row,
FreshInv == pc \in {"hashes", "filters"} => \A h \in Heights : h >= from => filRows[h] = None

\* and skips no height that can hold a payment,
FromInv ==
  pc \in {"hashes", "filters"} =>
    \A h \in 0..tip : h < from /\ Dated(h) => filRows[h] # None

\* because the rows have no gap below any row.
NoGapInv ==
  \A h, k \in 0..tip : h <= k /\ Dated(h) /\ filRows[k] # None => filRows[h] # None

\* After a successful round no height is left.
DoneInv == pc = "idle" /\ roundOK => \A h \in 0..tip : Dated(h) => filRows[h] # None

WorkInv ==
  /\ OwnInv /\ SearchedInv /\ AcceptedInv
  /\ FreshInv /\ FromInv /\ NoGapInv /\ DoneInv

LedgerInv == RowsInv /\ WorkInv

(***************************************************************************)
(* Facts about the chain and the cursors                                   *)
(***************************************************************************)

\* A transaction is in one block of the chain only.
LEMMA BlockOnce ==
  ASSUME HInv, NEW h \in 0..tip, NEW k \in 0..tip,
         NEW t, t \in WalletTxs[chain[h]], t \in WalletTxs[chain[k]]
  PROVE  h = k
  <1>1. PICK br \in Branches : OnBranch(chain, tip, br)
    BY DEF HInv, ChainInv
  <1>2. Len(br) \in 1..(MaxHeight + 1) /\ MaxHeight \in Nat /\ tip \in Heights
    BY BranchFacts, BoundsAssumption DEF HInv, SyncTypes
  <1>3. /\ h \in Heights /\ k \in Heights /\ h <= tip /\ k <= tip
        /\ h + 1 \in 1..Len(br) /\ k + 1 \in 1..Len(br)
    BY <1>1, <1>2 DEF OnBranch, Heights
  <1>4. chain[h] = br[h + 1] /\ chain[k] = br[k + 1]
    BY <1>1, <1>3 DEF OnBranch
  <1>5. h + 1 # k + 1 => WalletTxs[br[h + 1]] \cap WalletTxs[br[k + 1]] = {}
    BY <1>3, BranchesAssumption
  <1> QED BY <1>3, <1>4, <1>5

\* The types the proofs below use.
LEMMA Types ==
  ASSUME RowsInv
  PROVE  /\ tip \in Nat /\ tip <= MaxHeight /\ MaxHeight \in Nat
         /\ 0..tip \subseteq Heights
         /\ from \in Nat /\ next \in Nat /\ end \in Nat
         /\ filRows \in [Heights -> Blocks \cup {None}]
         /\ \A t \in Txs : txRows[t] = NoTx \/ txRows[t].height \in Heights
         /\ \A t \in Txs : txRows[t] \in TxRow
         /\ \A h \in 0..tip : WalletTxs[chain[h]] \subseteq Txs /\ chain[h] \in Blocks
  <1>1. SyncTypes /\ MaxHeight \in Nat
    BY BoundsAssumption DEF RowsInv, HInv
  <1>2. \A t \in Txs : txRows[t] \in TxRow
    BY <1>1 DEF SyncTypes
  <1>3. \A t \in Txs : txRows[t] = NoTx \/ txRows[t].height \in Heights
    BY <1>2 DEF TxRow
  <1>4. \A h \in 0..tip : chain[h] \in Blocks
    <2>1. PICK br \in Branches : OnBranch(chain, tip, br)
      BY DEF RowsInv, HInv, ChainInv
    <2>2. ASSUME NEW h \in 0..tip PROVE chain[h] \in Blocks
      <3>1. h \in Heights /\ h <= tip /\ h + 1 \in 1..Len(br)
        BY <1>1, <2>1, BranchFacts DEF OnBranch, SyncTypes, Heights
      <3> QED BY <2>1, <3>1, BranchFacts DEF OnBranch
    <2> QED BY <2>2
  <1>5. \A h \in 0..tip : WalletTxs[chain[h]] \subseteq Txs
    BY <1>4, BlocksAssumption
  <1> QED BY <1>1, <1>2, <1>3, <1>4, <1>5 DEF SyncTypes, Heights

\* The block being searched gives a transaction its first row.
LEMMA FirstRow ==
  ASSUME LedgerInv, NEW t \in Txs, SaveTransaction(t)
  PROVE  txRows[t] = NoTx /\ next \in 0..tip
  <1>1. /\ pc = "filters" /\ next <= BatchEnd
        /\ t \in WalletTxs[chain[next]] /\ txRows[t] # Row(next)
    BY DEF SaveTransaction
  <1>2. next \in 0..tip
    BY <1>1, NextFacts DEF LedgerInv, RowsInv
  <1>3. SUFFICES ASSUME txRows[t] # NoTx PROVE FALSE
    BY <1>2
  <1>4. txRows[t].height \in 0..tip /\ txRows[t] \in TxRow
    <2>1. txRows[t].height <= tip
      BY <1>1 DEF LedgerInv, RowsInv, AboveInv, Rewinding
    <2> QED BY <1>3, <2>1, Types DEF LedgerInv, Heights
  <1>5. txRows[t].block = chain[txRows[t].height] /\ t \in WalletTxs[txRows[t].block]
    BY <1>3, <1>4 DEF LedgerInv, RowsInv, BelowInv, WorkInv, OwnInv
  <1>6. txRows[t].height = next
    BY <1>1, <1>2, <1>4, <1>5, BlockOnce DEF LedgerInv, RowsInv
  <1> QED BY <1>1, <1>3, <1>4, <1>5, <1>6 DEF Row, TxRow

\* Where the download resumes there are no rows, and all that was skipped is
\* there already or too old.
LEMMA ResumeFacts ==
  ASSUME RowsInv, NoGapInv, pc \notin Rewinding, NEW r, Resuming(r)
  PROVE  /\ \A h \in Heights : h >= r => filRows[h] = None
         /\ \A h \in 0..tip : h < r /\ Dated(h) => filRows[h] # None
  <1>0. /\ MaxHeight \in Nat /\ tip \in Nat /\ SafetyGap \in Nat /\ 0..tip \subseteq Heights
        /\ r \in 0..(MaxHeight + 1)
    BY Types, BoundsAssumption DEF Resuming
  <1>1. PICK s \in Heights : IsFilterStart(s, chain, tip) /\ IsResume(r, s)
    BY DEF Resuming
  <1>2. PICK first \in 0..(tip + 1) :
          IsFirst(first, chain, tip) /\ s = IF first > SafetyGap THEN first - SafetyGap ELSE 0
    BY <1>1 DEF IsFilterStart
  <1>3. CASE r = s /\ \A h \in Heights : h >= s => filRows[h] = None
    <2>1. s <= first
      BY <1>0, <1>2
    <2>2. \A h \in 0..tip : h < r => ~Dated(h)
      <3>1. ASSUME NEW h \in 0..tip, h < r, NEW g \in 0..h PROVE chain[g] \in Old
        <4>1. g \in 0..(first - 1)
          BY <1>0, <1>3, <2>1, <3>1 DEF Heights
        <4> QED BY <1>2, <4>1 DEF IsFirst
      <3> QED BY <3>1 DEF Dated
    <2> QED BY <1>3, <2>2
  <1>4. CASE /\ r - 1 \in Heights /\ r - 1 >= s /\ filRows[r - 1] # None
             /\ \A h \in Heights : h >= r => filRows[h] = None
    <2>1. r - 1 \in 0..tip
      <3>1. r - 1 <= tip
        BY <1>0, <1>4 DEF RowsInv, AboveInv, Rewinding, Heights
      <3> QED BY <1>0, <1>4, <3>1 DEF Heights
    <2>2. \A h \in 0..tip : h < r => h <= r - 1
      BY <1>0
    <2> QED BY <1>4, <2>1, <2>2 DEF NoGapInv
  <1> QED BY <1>1, <1>3, <1>4 DEF IsResume

(***************************************************************************)
(* Every step keeps the invariant                                          *)
(***************************************************************************)

\* A new wallet: no rows, and the round has not succeeded.
LEMMA InitLedgerInv == ASSUME Init PROVE LedgerInv
  <1>1. RowsInv
    BY InitRowsInv
  <1>2. /\ \A h \in Heights : filRows[h] = None
        /\ \A t \in Txs : txRows[t] = NoTx
        /\ pc = "idle" /\ roundOK = FALSE
    BY DEF Init
  <1>3. 0..tip \subseteq Heights
    BY <1>1, Types
  <1> QED BY <1>1, <1>2, <1>3 DEF LedgerInv, WorkInv, OwnInv, SearchedInv, AcceptedInv,
                                  FreshInv, FromInv, NoGapInv, DoneInv

\* Steps that change neither the chain nor the rows.
LEMMA QuietWork ==
  ASSUME LedgerInv, Quiet
  PROVE  WorkInv'
  <1> USE DEF LedgerInv, WorkInv
  <1>1. UNCHANGED <<chain, tip, filRows, txRows>>
    BY DEF Quiet
  <1>2. pc' \in {"hashes", "filters", "idle"} => pc \notin Rewinding
    BY DEF Quiet, Rewinding
  <1>3. OwnInv' /\ SearchedInv' /\ NoGapInv'
    BY <1>1 DEF OwnInv, SearchedInv, NoGapInv, Stored, Dated, Row
  <1>4. AcceptedInv'
    <2>1. ASSUME pc' = "filters" PROVE \A h \in from'..(next' - 1) : Stored(h)'
      <3>1. CASE pc = "hashes" /\ from' = from /\ next' = from'
        BY <3>1, Types
      <3>2. CASE UNCHANGED <<pc, from, next, end>>
        BY <1>1, <2>1, <3>2 DEF AcceptedInv, Stored, Row
      <3> QED BY <2>1, <3>1, <3>2 DEF Quiet
    <2> QED BY <2>1 DEF AcceptedInv
  <1>5. FreshInv' /\ FromInv'
    <2>1. ASSUME pc' \in {"hashes", "filters"}
          PROVE  /\ \A h \in Heights : h >= from' => filRows[h] = None
                 /\ \A h \in 0..tip : h < from' /\ Dated(h) => filRows[h] # None
      <3>1. CASE pc \in {"hashes", "filters"} /\ from' = from
        BY <3>1 DEF FreshInv, FromInv
      <3>2. CASE from' <= tip /\ next' = from' /\ Resuming(from') /\ pc' = "hashes"
        BY <1>2, <3>2, ResumeFacts
      <3> QED BY <2>1, <3>1, <3>2 DEF Quiet
    <2>2. \A h \in 0..tip : Dated(h)' <=> Dated(h)
      BY <1>1 DEF Dated
    <2> QED BY <1>1, <2>1, <2>2 DEF FreshInv, FromInv
  <1>6. DoneInv'
    <2>1. ASSUME pc' = "idle", roundOK' PROVE \A h \in 0..tip : Dated(h) => filRows[h] # None
      <3>1. CASE UNCHANGED <<pc, roundOK>>
        BY <2>1, <3>1 DEF DoneInv
      <3>2. CASE \E r \in Nat : Resuming(r) /\ r > tip
        <4>1. PICK r \in Nat : Resuming(r) /\ r > tip
          BY <3>2
        <4>2. \A h \in 0..tip : h < r
          BY <4>1, Types
        <4> QED BY <1>2, <2>1, <4>1, <4>2, ResumeFacts
      <3> QED BY <2>1, <3>1, <3>2 DEF Quiet
    <2>2. \A h \in 0..tip : Dated(h)' <=> Dated(h)
      BY <1>1 DEF Dated
    <2> QED BY <1>1, <2>1, <2>2 DEF DoneInv
  <1> QED BY <1>3, <1>4, <1>5, <1>6

\* Cutting the chain in memory, and the deletes that follow, lose nothing at
\* or below the fork.
LEMMA RewindWork ==
  ASSUME LedgerInv,
         Truncation \/ DeleteHeadersFrom \/ DeleteFiltersFrom \/ DeleteMatchesFrom \/ DeleteTransactionsFrom
  PROVE  WorkInv'
  <1> USE DEF LedgerInv, WorkInv
  <1>1. pc' \in Rewinding \cup {"append"}
    BY DEF Truncation, DeleteHeadersFrom, DeleteFiltersFrom, DeleteMatchesFrom,
           DeleteTransactionsFrom, Rewinding
  <1>2. AcceptedInv' /\ FreshInv' /\ FromInv' /\ DoneInv'
    BY <1>1 DEF AcceptedInv, FreshInv, FromInv, DoneInv, Rewinding
  <1>3. tip' \in Nat /\ tip' <= tip /\ \A h \in 0..tip' : h \in 0..tip /\ chain'[h] = chain[h]
    <2>1. CASE Truncation
      BY <2>1, Types DEF Truncation, UpTo
    <2>2. CASE DeleteHeadersFrom \/ DeleteFiltersFrom \/ DeleteMatchesFrom \/ DeleteTransactionsFrom
      BY <2>2, Types DEF DeleteHeadersFrom, DeleteFiltersFrom, DeleteMatchesFrom,
                         DeleteTransactionsFrom, memory
    <2> QED BY <2>1, <2>2
  <1>4. \A h \in 0..tip' : filRows'[h] = filRows[h]
    <2>1. filRows' = filRows \/ (filRows' = UpTo(filRows, tip) /\ tip' = tip)
      BY DEF Truncation, DeleteHeadersFrom, DeleteFiltersFrom, DeleteMatchesFrom,
             DeleteTransactionsFrom, memory
    <2> QED BY <1>3, <2>1, Types DEF UpTo
  <1>5. \A t \in Txs : \/ txRows'[t] = txRows[t]
                       \/ txRows'[t] = NoTx /\ txRows[t].height > tip'
    <2>1. txRows' = txRows \/ (txRows' = TxsUpTo(tip) /\ tip' = tip)
      BY DEF Truncation, DeleteHeadersFrom, DeleteFiltersFrom, DeleteMatchesFrom,
             DeleteTransactionsFrom, memory
    <2>2. \A t \in Txs : txRows[t].height \in Int
      BY Types DEF NoTx, Heights
    <2> QED BY <2>1, <2>2, Types DEF TxsUpTo
  <1>6. OwnInv'
    BY <1>5 DEF OwnInv
  <1>7. \A h \in 0..tip' : (Dated(h)' <=> Dated(h)) /\ (Stored(h) => Stored(h)')
    <2>1. ASSUME NEW h \in 0..tip' PROVE Dated(h)' <=> Dated(h)
      <3>1. \A g \in 0..h : g \in 0..tip'
        BY <1>3
      <3> QED BY <1>3, <3>1 DEF Dated
    <2>2. ASSUME NEW h \in 0..tip', Stored(h) PROVE Stored(h)'
      <3>1. chain'[h] = chain[h] /\ WalletTxs[chain[h]] \subseteq Txs
        BY <1>3, Types
      <3>2. \A t \in WalletTxs[chain[h]] : txRows[t] = Row(h) /\ Row(h).height = h /\ ~(h > tip')
        BY <1>3, <2>2 DEF Stored, Row
      <3> QED BY <1>5, <3>1, <3>2 DEF Stored, Row
    <2> QED BY <2>1, <2>2
  <1>8. SearchedInv' /\ NoGapInv'
    BY <1>3, <1>4, <1>7 DEF SearchedInv, NoGapInv
  <1> QED BY <1>2, <1>6, <1>8

\* Appended headers have no row yet.
LEMMA ExtendFacts ==
  ASSUME RowsInv, ExtendHeaders
  PROVE  /\ UNCHANGED <<filRows, txRows>>
         /\ tip' \in Nat /\ tip' >= tip /\ tip' <= MaxHeight
         /\ \A h \in 0..tip : h \in 0..tip' /\ chain'[h] = chain[h]
         /\ \A h \in Heights : h > tip => filRows[h] = None
         /\ \A t \in Txs : txRows[t].height <= tip
         /\ pc' \in {"idle", "start", "headers"} /\ (pc' = "idle" => ~roundOK')
  <1>1. pc = "append" /\ UNCHANGED <<filRows, txRows>>
    BY DEF ExtendHeaders
  <1>2. pc' \in {"idle", "start", "headers"} /\ (pc' = "idle" => ~roundOK')
    BY DEF ExtendHeaders, EndRound
  <1>3. PICK n \in 0..Len(batch) : tip' = tip + n /\ chain' = Appended(chain, n)
    BY DEF ExtendHeaders
  <1>4. n \in Nat
    BY DEF RowsInv, HInv, SyncTypes
  <1>5. tip' \in Heights
    BY ExtendHeadersHInv DEF RowsInv, HInv, SyncTypes
  <1>6. tip' \in Nat /\ tip' >= tip /\ tip' <= MaxHeight
    BY <1>3, <1>4, <1>5, Types DEF Heights
  <1>7. \A h \in 0..tip : h \in 0..tip' /\ chain'[h] = chain[h]
    BY <1>3, <1>4, <1>6, Types DEF Appended, Heights
  <1>8. /\ \A h \in Heights : h > tip => filRows[h] = None
        /\ \A t \in Txs : txRows[t].height <= tip
    BY <1>1 DEF RowsInv, AboveInv, Rewinding
  <1> QED BY <1>1, <1>2, <1>6, <1>7, <1>8

\* So appending headers keeps what the rows prove.
LEMMA ExtendWork ==
  ASSUME LedgerInv, ExtendHeaders
  PROVE  WorkInv'
  <1> USE DEF LedgerInv, WorkInv
  <1>1. AcceptedInv' /\ FreshInv' /\ FromInv' /\ DoneInv'
    BY ExtendFacts DEF AcceptedInv, FreshInv, FromInv, DoneInv
  <1>2. OwnInv'
    BY ExtendFacts DEF OwnInv
  <1>3. \A h \in 0..tip' : h \in 0..tip \/ (h \in Heights /\ filRows'[h] = None)
    BY ExtendFacts, Types DEF Heights
  <1>4. \A h \in 0..tip : (Dated(h)' <=> Dated(h)) /\ (Stored(h) => Stored(h)')
    <2>1. ASSUME NEW h \in 0..tip PROVE Dated(h)' <=> Dated(h)
      <3>1. \A g \in 0..h : g \in 0..tip
        BY Types
      <3> QED BY <3>1, ExtendFacts DEF Dated
    <2>2. ASSUME NEW h \in 0..tip, Stored(h) PROVE Stored(h)'
      BY <2>2, ExtendFacts DEF Stored, Row
    <2> QED BY <2>1, <2>2
  <1>5. SearchedInv'
    BY <1>3, <1>4, ExtendFacts DEF SearchedInv
  <1>6. NoGapInv'
    <2>1. ASSUME NEW h \in 0..tip', NEW k \in 0..tip', h <= k, Dated(h)', filRows'[k] # None
          PROVE  filRows'[h] # None
      <3>1. k \in 0..tip
        BY <1>3, <2>1
      <3>2. h \in 0..tip
        BY <2>1, <3>1, Types
      <3> QED BY <1>4, <2>1, <3>1, <3>2, ExtendFacts DEF NoGapInv
    <2> QED BY <2>1 DEF NoGapInv
  <1> QED BY <1>1, <1>2, <1>5, <1>6

\* Rows are stored for blocks whose payments are, above all rows.
LEMMA StoreFacts ==
  ASSUME LedgerInv, RowsStored
  PROVE  /\ UNCHANGED <<chain, tip, txRows>>
         /\ \A h \in Heights : filRows'[h] = IF h >= from /\ h < next THEN chain[h] ELSE filRows[h]
         /\ \A h \in 0..tip : h >= from /\ h < next => Stored(h) /\ chain[h] # None
         /\ \A h \in Heights : h >= from => filRows[h] = None
         /\ from <= next /\ next - 1 <= tip
  <1>1. pc = "filters" /\ filRows' = WithRows /\ UNCHANGED <<chain, tip, txRows>>
    BY DEF RowsStored
  <1>2. \A h \in Heights : h >= from => filRows[h] = None
    BY <1>1 DEF LedgerInv, WorkInv, FreshInv
  <1>3. from <= next /\ next - 1 <= tip
    BY <1>1, NextFacts DEF LedgerInv, RowsInv, SpanInv
  <1>4. \A h \in 0..tip : h >= from /\ h < next => Stored(h)
    BY <1>1, Types DEF LedgerInv, WorkInv, AcceptedInv
  <1>5. \A h \in 0..tip : chain[h] # None
    BY Types, BlocksAssumption DEF LedgerInv
  <1> QED BY <1>1, <1>2, <1>3, <1>4, <1>5 DEF WithRows

\* Committing them keeps what rows prove, and moves the cursor past them.
LEMMA StoreWork ==
  ASSUME LedgerInv, RowsStored
  PROVE  WorkInv'
  <1> USE DEF LedgerInv, WorkInv
  <1>0. pc = "filters"
    BY DEF RowsStored
  <1>1. OwnInv'
    BY StoreFacts DEF OwnInv
  <1>2. \A h \in 0..tip : (Dated(h)' <=> Dated(h)) /\ (Stored(h)' <=> Stored(h))
    BY StoreFacts DEF Dated, Stored, Row
  <1>3. SearchedInv'
    BY <1>2, StoreFacts, Types DEF SearchedInv
  <1>4. \A h \in 0..tip : h < next /\ Dated(h) => filRows'[h] # None
    <2>1. ASSUME NEW h \in 0..tip, h < next, Dated(h) PROVE filRows'[h] # None
      <3>1. CASE h < from
        BY <1>0, <2>1, <3>1, StoreFacts, Types DEF FromInv
      <3>2. CASE h >= from
        BY <2>1, <3>2, StoreFacts, Types
      <3> QED BY <2>1, <3>1, <3>2, Types
    <2> QED BY <2>1
  <1>5. \A h \in Heights : h >= next => filRows'[h] = None
    BY StoreFacts, Types DEF Heights
  <1>6. NoGapInv'
    <2>1. ASSUME NEW h \in 0..tip, NEW k \in 0..tip, h <= k, Dated(h), filRows'[k] # None
          PROVE  filRows'[h] # None
      <3>1. k < next
        BY <1>5, <2>1, Types
      <3> QED BY <1>4, <2>1, <3>1, Types
    <2> QED BY <1>2, <2>1, StoreFacts DEF NoGapInv
  <1>7. AcceptedInv' /\ FreshInv' /\ FromInv'
    <2>1. ASSUME pc' \in {"hashes", "filters"} PROVE from' = next /\ next' = next
      BY <2>1 DEF RowsStored
    <2>2. AcceptedInv'
      BY <2>1, Types DEF AcceptedInv
    <2>3. FreshInv'
      BY <1>5, <2>1 DEF FreshInv
    <2>4. FromInv'
      BY <1>2, <1>4, <2>1, StoreFacts DEF FromInv
    <2> QED BY <2>2, <2>3, <2>4
  <1>8. DoneInv'
    <2>1. ASSUME pc' = "idle", roundOK' PROVE \A h \in 0..tip : h < next
      <3>1. next > tip
        BY <2>1 DEF RowsStored
      <3> QED BY <3>1, Types
    <2> QED BY <1>2, <1>4, <2>1, StoreFacts DEF DoneInv
  <1> QED BY <1>1, <1>3, <1>6, <1>7, <1>8

\* A payment is stored, or the next block is done.
LEMMA ApplyWork ==
  ASSUME LedgerInv, ApplyFilter \/ \E t \in Txs : SaveTransaction(t)
  PROVE  WorkInv'
  <1> USE DEF LedgerInv, WorkInv
  <1>1. pc = "filters" /\ pc' = pc /\ UNCHANGED <<chain, tip, filRows, from>>
    BY DEF ApplyFilter, SaveTransaction, memory, cursor
  <1>2. FreshInv' /\ FromInv' /\ NoGapInv' /\ DoneInv'
    BY <1>1 DEF FreshInv, FromInv, NoGapInv, DoneInv, Dated
  <1>3. CASE ApplyFilter
    <2>1. /\ \A t \in WalletTxs[chain[next]] : txRows[t] = Row(next)
          /\ next' = next + 1 /\ UNCHANGED txRows
      BY <1>3 DEF ApplyFilter
    <2>2. Stored(next)
      BY <2>1 DEF Stored
    <2>3. \A h \in from..(next' - 1) : Stored(h)
      BY <1>1, <2>1, <2>2, Types DEF AcceptedInv
    <2>4. \A h : Stored(h) => Stored(h)'
      BY <1>1, <2>1 DEF Stored, Row
    <2> QED BY <1>1, <1>2, <2>1, <2>3, <2>4 DEF OwnInv, SearchedInv, AcceptedInv
  <1>4. CASE \E t \in Txs : SaveTransaction(t)
    <2>1. PICK t \in Txs : SaveTransaction(t)
      BY <1>4
    <2>2. /\ t \in WalletTxs[chain[next]]
          /\ txRows' = [txRows EXCEPT ![t] = Row(next)]
          /\ UNCHANGED next
      BY <2>1 DEF SaveTransaction, cursor
    <2>3. txRows[t] = NoTx /\ next \in 0..tip
      BY <2>1, FirstRow
    <2>4. \A u \in Txs : txRows'[u] = IF u = t THEN Row(next) ELSE txRows[u]
      <3>1. txRows \in [Txs -> TxRow]
        BY DEF RowsInv, HInv, SyncTypes
      <3> QED BY <2>2, <3>1
    <2>5. OwnInv'
      BY <2>2, <2>4 DEF OwnInv, Row
    <2>6. \A h \in 0..tip : Stored(h) => Stored(h)'
      <3>1. ASSUME NEW h \in 0..tip, Stored(h), NEW u \in WalletTxs[chain[h]]
            PROVE  txRows'[u] = Row(h)
        <4>1. txRows[u] = Row(h) /\ u \in Txs
          BY <3>1, Types DEF Stored
        <4>2. Row(h) # NoTx
          BY DEF Row, NoTx
        <4> QED BY <2>3, <2>4, <4>1, <4>2
      <3> QED BY <1>1, <3>1 DEF Stored, Row
    <2>7. \A h \in from..(next - 1) : h \in 0..tip
      BY <2>3, Types
    <2> QED BY <1>1, <1>2, <2>2, <2>5, <2>6, <2>7 DEF SearchedInv, AcceptedInv
  <1> QED BY <1>3, <1>4

\* Every step keeps the invariant.
LEMMA NextLedgerInv ==
  ASSUME LedgerInv, "delHeaders" \notin RewindFaults, [Next]_vars, ~interrupted'
  PROVE  LedgerInv'
  <1>1. RowsInv'
    BY NextRowsInv DEF LedgerInv
  <1>2. WorkInv'
    BY StepKinds, QuietWork, RewindWork, ExtendWork, StoreWork, ApplyWork DEF LedgerInv, RowsInv
  <1> QED BY <1>1, <1>2 DEF LedgerInv

\* What the code promises of a successful round: every wallet transaction in
\* every block from the first one dated at or after the seed is stored, however
\* forks, restarts and moves of the filter start interleaved before
\* (syncFilters, FilterResumeHeight, filterStartHeight), as long as no
\* rewind was interrupted.
THEOREM NoPaymentIsMissed == "delHeaders" \notin RewindFaults => (Spec => []NoPaymentMissed)
  <1> SUFFICES ASSUME "delHeaders" \notin RewindFaults PROVE Spec => []NoPaymentMissed
    OBVIOUS
  <1> DEFINE Inv == HInv /\ (~interrupted => LedgerInv)
  <1>1. Init => Inv
    BY InitLedgerInv DEF LedgerInv, RowsInv
  <1>2. Inv /\ [Next]_vars => Inv'
    BY NextHInv, NextLedgerInv, Uninterrupted
  <1>3. Inv => NoPaymentMissed
    <2>1. ASSUME LedgerInv, pc = "idle", roundOK, NEW first \in 0..tip, IsFirst(first, chain, tip),
                 NEW h \in first..tip
          PROVE  Stored(h)
      <3>1. h \in 0..tip /\ first \in 0..h
        BY <2>1, Types DEF LedgerInv
      <3>2. Dated(h)
        BY <2>1, <3>1, Types DEF LedgerInv, IsFirst, Dated
      <3> QED BY <2>1, <3>1, <3>2 DEF LedgerInv, WorkInv, DoneInv, SearchedInv
    <2> QED BY <2>1 DEF NoPaymentMissed, Stored
  <1> HIDE DEF Inv
  <1> QED BY <1>1, <1>2, <1>3, PTL DEF Spec

(***************************************************************************)
(* ChainSync implements ConfirmedLedger                                    *)
(***************************************************************************)

\* The confirmed payments the promise sees.
Booked == TxsUpTo(tip)

\* A new wallet promises nothing yet.
LEMMA InitPromise == ASSUME Init PROVE Promise!Init
  <1>1. /\ chain = [h \in Heights |-> IF h = 0 THEN Genesis ELSE None]
        /\ tip = 0
        /\ filRows = [h \in Heights |-> None]
        /\ txRows = [t \in Txs |-> NoTx]
        /\ ~interrupted
    BY DEF Init
  <1>2. UpTo(filRows, tip) = [h \in Heights |-> None]
    BY <1>1 DEF UpTo
  <1>3. TxsUpTo(tip) = [t \in Txs |-> NoTx]
    BY <1>1 DEF TxsUpTo
  <1> QED BY <1>1, <1>2, <1>3 DEF Promise!Init, Promise!Heights, Promise!Unbooked, Heights, NoTx

\* The promise sees nothing of a step that leaves alone the chain and the rows
\* at its heights.
LEMMA Unseen ==
  ASSUME UNCHANGED <<chain, tip>>, UpTo(filRows, tip)' = UpTo(filRows, tip),
         TxsUpTo(tip)' = TxsUpTo(tip)
  PROVE  UNCHANGED Promise!ledger
  BY DEF Promise!ledger

\* The deletes of a rewind remove what no longer counts.
LEMMA DeletesUnseen ==
  ASSUME RowsInv,
         DeleteHeadersFrom \/ DeleteFiltersFrom \/ DeleteMatchesFrom \/ DeleteTransactionsFrom
  PROVE  UNCHANGED Promise!ledger
  <1>1. /\ UNCHANGED <<chain, tip>>
        /\ filRows' = filRows \/ filRows' = UpTo(filRows, tip)
        /\ txRows' = txRows \/ txRows' = TxsUpTo(tip)
    BY DEF DeleteHeadersFrom, DeleteFiltersFrom, DeleteMatchesFrom, DeleteTransactionsFrom, memory
  <1>2. UpTo(filRows, tip)' = UpTo(filRows, tip)
    BY <1>1 DEF UpTo
  <1>3. TxsUpTo(tip)' = TxsUpTo(tip)
    <2>1. NoTx.height <= tip
      BY Types DEF NoTx
    <2> QED BY <1>1, <2>1 DEF TxsUpTo
  <1> QED BY <1>1, <1>2, <1>3, Unseen

\* Cutting the chain in memory is the whole rewind.
LEMMA TruncationForks ==
  ASSUME RowsInv, Truncation
  PROVE  Promise!Fork \/ UNCHANGED Promise!ledger
  <1>1. PICK f \in 0..tip : chain' = UpTo(chain, f) /\ tip' = f
    BY DEF Truncation
  <1>2. UNCHANGED <<filRows, txRows>>
    BY DEF Truncation
  <1>3. CASE f < tip
    <2>1. tip' \in 0..(tip - 1)
      BY <1>1, <1>3, Types
    <2>2. UpTo(filRows, tip)' = UpTo(UpTo(filRows, tip), tip')
      <3>1. \A h \in Heights : h <= f => h <= tip
        BY <1>3, Types DEF Heights
      <3> QED BY <1>1, <1>2, <3>1 DEF UpTo
    <2>3. TxsUpTo(tip)' = [t \in Txs |-> IF Booked[t].height <= tip' THEN Booked[t] ELSE NoTx]
      <3>1. ASSUME NEW t \in Txs
            PROVE  (IF txRows[t].height <= f THEN txRows[t] ELSE NoTx)
                     = IF Booked[t].height <= f THEN Booked[t] ELSE NoTx
        <4>1. Booked[t] = IF txRows[t].height <= tip THEN txRows[t] ELSE NoTx
          BY DEF Booked, TxsUpTo
        <4>2. txRows[t].height \in Int /\ f \in Nat
          BY <1>1, Types DEF NoTx, Heights
        <4> QED BY <1>1, <4>1, <4>2, Types
      <3> QED BY <1>1, <1>2, <3>1 DEF TxsUpTo
    <2>4. chain' = Promise!Cut(chain, tip') /\ UpTo(filRows, tip)' = Promise!Cut(UpTo(filRows, tip), tip')
      BY <1>1, <2>2 DEF UpTo, Promise!Cut, Promise!Heights, Heights
    <2> QED BY <2>1, <2>3, <2>4 DEF Promise!Fork, Promise!Unbooked, NoTx, Booked
  <1>4. CASE f = tip
    <2>1. chain' = chain
      <3>1. chain \in [Heights -> Blocks \cup {None}]
        BY DEF RowsInv, HInv, SyncTypes
      <3>2. \A h \in Heights : h > tip => chain[h] = None
        BY Types DEF RowsInv, HInv, ChainInv, OnBranch, Heights
      <3>3. \A h \in Heights : h <= tip \/ h > tip
        BY Types DEF Heights
      <3> QED BY <1>1, <1>4, <3>1, <3>2, <3>3 DEF UpTo
    <2> QED BY <1>1, <1>2, <1>4, <2>1, Unseen DEF UpTo, TxsUpTo
  <1> QED BY <1>1, <1>3, <1>4, Types

\* Appended headers are valid and linked, and nothing is stored for them.
LEMMA ExtendGrows ==
  ASSUME RowsInv, ExtendHeaders
  PROVE  Promise!Grow \/ UNCHANGED Promise!ledger
  <1>1. PICK n \in 0..Len(batch) :
          IsAccepted(n, batch) /\ tip' = tip + n /\ chain' = Appended(chain, n)
    BY DEF ExtendHeaders
  <1>2. n \in Nat /\ Len(batch) \in Nat
    BY DEF RowsInv, HInv, SyncTypes
  <1>3. PICK br \in Branches :
          /\ OnBranch(chain, tip, br)
          /\ tip + Len(batch) < Len(br)
          /\ \A i \in 1..Len(batch) : batch[i] = br[tip + i + 1]
    BY DEF ExtendHeaders, RowsInv, HInv, BatchInv
  <1>4. Len(br) \in Nat /\ \A i \in 2..Len(br) : Parent[br[i]] = br[i - 1]
    BY BranchFacts
  <1>5. UpTo(filRows, tip)' = UpTo(filRows, tip)
    <2>1. \A h \in Heights : (h <= tip => h <= tip') /\ (h <= tip \/ filRows[h] = None)
      BY ExtendFacts, Types DEF Heights
    <2> QED BY <2>1, ExtendFacts DEF UpTo
  <1>6. TxsUpTo(tip)' = TxsUpTo(tip)
    <2>1. \A t \in Txs : txRows[t].height <= tip /\ txRows[t].height \in Int
      BY ExtendFacts, Types DEF NoTx, Heights
    <2>2. \A t \in Txs : txRows[t].height <= tip'
      BY <2>1, ExtendFacts, Types
    <2> QED BY <2>1, <2>2, ExtendFacts DEF TxsUpTo
  <1>7. CASE n = 0
    <2>1. tip' = tip /\ chain' = chain
      <3>1. chain \in [Heights -> Blocks \cup {None}]
        BY DEF RowsInv, HInv, SyncTypes
      <3>2. \A h \in Heights : ~(h > tip /\ h <= tip + 0)
        BY Types DEF Heights
      <3> QED BY <1>1, <1>7, <3>1, <3>2, Types DEF Appended
    <2> QED BY <1>5, <1>6, <2>1, Unseen
  <1>8. CASE n > 0
    <2>1. tip' \in (tip + 1)..MaxHeight
      BY <1>1, <1>2, <1>8, ExtendFacts, Types
    <2>2. chain' = [h \in Heights |-> IF h > tip /\ h <= tip' THEN chain'[h] ELSE chain[h]]
      BY <1>1 DEF Appended
    <2>3. ASSUME NEW h \in (tip + 1)..tip'
          PROVE  chain'[h] \in Valid /\ Parent[chain'[h]] = chain'[h - 1]
      <3>1. /\ h \in Heights /\ h > tip /\ h <= tip + n /\ h - tip \in 1..n /\ h - tip \in 1..Len(batch)
            /\ h + 1 \in 2..Len(br) /\ tip + (h - tip) + 1 = h + 1 /\ (h + 1) - 1 = h
        <4>1. /\ h \in Int /\ h > tip /\ h <= tip + n /\ n <= Len(batch)
              /\ tip + n <= MaxHeight /\ tip \in Nat /\ MaxHeight \in Nat
          BY <1>1, <1>2, <2>1, Types
        <4>2. h + 1 <= Len(br)
          BY <1>2, <1>3, <1>4, <4>1
        <4> QED BY <1>2, <1>4, <4>1, <4>2 DEF Heights
      <3>2. chain'[h] = batch[h - tip] /\ batch[h - tip] = br[h + 1]
        BY <1>1, <1>3, <3>1 DEF Appended
      <3>3. batch[h - tip] \in Valid
        BY <1>1, <3>1 DEF IsAccepted
      <3>4. chain'[h - 1] = br[h]
        <4>1. CASE h - 1 <= tip
          <5>1. h - 1 \in 0..tip /\ h - 1 \in Heights /\ (h - 1) + 1 = h
            BY <3>1, <4>1, Types DEF Heights
          <5> QED BY <1>3, <4>1, <5>1, ExtendFacts DEF OnBranch
        <4>2. CASE h - 1 > tip
          <5>1. /\ h - 1 \in Heights /\ h - 1 <= tip + n /\ (h - 1) - tip \in 1..Len(batch)
                /\ tip + ((h - 1) - tip) + 1 = h
            <6>1. h \in Nat /\ tip \in Nat /\ h - tip <= Len(batch) /\ h <= MaxHeight /\ MaxHeight \in Nat
              BY <1>2, <3>1, Types DEF Heights
            <6> QED BY <1>2, <3>1, <4>2, <6>1 DEF Heights
          <5>2. chain'[h - 1] = batch[(h - 1) - tip]
            BY <1>1, <4>2, <5>1 DEF Appended
          <5>3. batch[(h - 1) - tip] = br[tip + ((h - 1) - tip) + 1]
            BY <1>3, <5>1
          <5> QED BY <5>1, <5>2, <5>3
        <4>3. h - 1 <= tip \/ h - 1 > tip
          <5>1. h \in Int /\ tip \in Int
            BY <3>1, Types DEF Heights
          <5> QED BY <5>1
        <4> QED BY <4>1, <4>2, <4>3
      <3>5. Parent[br[h + 1]] = br[h]
        BY <1>4, <3>1
      <3> QED BY <3>2, <3>3, <3>4, <3>5
    <2> QED BY <1>5, <1>6, <2>1, <2>2, <2>3 DEF Promise!Grow, Promise!Heights, Heights
  <1> QED BY <1>2, <1>7, <1>8

\* A stored payment is booked while its block is not searched yet.
LEMMA SaveBooks ==
  ASSUME LedgerInv, NEW t \in Txs, SaveTransaction(t)
  PROVE  Promise!Book(t)
  <1>1. /\ pc = "filters" /\ t \in WalletTxs[chain[next]]
        /\ txRows' = [txRows EXCEPT ![t] = Row(next)]
        /\ UNCHANGED <<chain, tip, filRows>>
    BY DEF SaveTransaction, memory
  <1>2. txRows[t] = NoTx /\ next \in 0..tip
    BY FirstRow
  <1>3. next \in Heights /\ next >= from /\ next <= tip /\ NoTx.height <= tip
    BY <1>1, <1>2, Types DEF LedgerInv, RowsInv, SpanInv, NoTx
  <1>4. UpTo(filRows, tip)[next] = None
    BY <1>1, <1>3 DEF LedgerInv, WorkInv, FreshInv, UpTo
  <1>5. TxsUpTo(tip)[t] = NoTx
    BY <1>2 DEF TxsUpTo
  <1>6. TxsUpTo(tip)' = [TxsUpTo(tip) EXCEPT ![t] = Row(next)]
    <2>1. txRows \in [Txs -> TxRow]
      BY DEF LedgerInv, RowsInv, HInv, SyncTypes
    <2>2. Row(next).height <= tip
      BY <1>3 DEF Row
    <2> QED BY <1>1, <2>1, <2>2 DEF TxsUpTo
  <1>7. UpTo(filRows, tip)' = UpTo(filRows, tip)
    BY <1>1 DEF UpTo
  <1> QED BY <1>1, <1>2, <1>4, <1>5, <1>6, <1>7
          DEF Promise!Book, Promise!Unbooked, Promise!At, NoTx, Row

\* The rows committed are those of blocks searched for the first time.
LEMMA StoreSearches ==
  ASSUME LedgerInv, RowsStored
  PROVE  Promise!Search \/ UNCHANGED Promise!ledger
  <1>1. UNCHANGED <<chain, tip>> /\ TxsUpTo(tip)' = TxsUpTo(tip)
    BY StoreFacts DEF TxsUpTo
  <1>2. CASE UpTo(filRows, tip)' = UpTo(filRows, tip)
    BY <1>1, <1>2, Unseen
  <1>3. CASE UpTo(filRows, tip)' # UpTo(filRows, tip)
    <2>1. ASSUME NEW h \in Heights, UpTo(filRows, tip)'[h] # UpTo(filRows, tip)[h]
          PROVE  /\ h <= tip
                 /\ UpTo(filRows, tip)[h] = None
                 /\ UpTo(filRows, tip)'[h] = chain[h]
                 /\ \A t \in WalletTxs[chain[h]] : TxsUpTo(tip)[t] = Row(h)
      <3>1. h <= tip /\ filRows'[h] # filRows[h]
        BY <2>1, StoreFacts DEF UpTo
      <3>2. h >= from /\ h < next /\ filRows'[h] = chain[h] /\ filRows[h] = None
        BY <3>1, StoreFacts
      <3>3. h \in 0..tip
        BY <3>1, Types DEF LedgerInv, Heights
      <3>4. Stored(h) /\ WalletTxs[chain[h]] \subseteq Txs
        BY <3>2, <3>3, StoreFacts, Types DEF LedgerInv
      <3>5. Row(h).height <= tip
        BY <3>1 DEF Row
      <3> QED BY <1>1, <3>1, <3>2, <3>4, <3>5 DEF UpTo, TxsUpTo, Stored
    <2> QED BY <1>1, <1>3, <2>1 DEF Promise!Search, Promise!Heights, Promise!At, Heights, Row
  <1> QED BY <1>2, <1>3

\* Every step of the sync is a step of the promise, or none.
LEMMA NextPromise ==
  ASSUME LedgerInv, interrupted \in BOOLEAN, "delHeaders" \notin RewindFaults,
         [Next]_vars, ~interrupted'
  PROVE  Promise!Next \/ UNCHANGED Promise!promise
  <1>0. UNCHANGED interrupted
    <2>1. interrupted = FALSE
      BY Uninterrupted
    <2>2. CASE Next
      <3>1. interrupted' = FALSE
        BY <2>2 DEF Next
      <3> QED BY <2>1, <3>1
    <2>3. CASE UNCHANGED vars
      BY <2>3 DEF vars
    <2> QED BY <2>2, <2>3
  <1>1. CASE Quiet \/ ApplyFilter
    <2>1. UNCHANGED Promise!ledger
      BY <1>1, Unseen DEF Quiet, ApplyFilter, memory, UpTo, TxsUpTo
    <2> QED BY <1>0, <2>1 DEF Promise!promise
  <1>2. CASE Truncation
    <2>1. Promise!Fork \/ UNCHANGED Promise!ledger
      BY <1>2, TruncationForks DEF LedgerInv
    <2> QED BY <1>0, <2>1 DEF Promise!Next, Promise!Keeps, Promise!promise
  <1>3. CASE DeleteHeadersFrom \/ DeleteFiltersFrom \/ DeleteMatchesFrom \/ DeleteTransactionsFrom
    <2>1. UNCHANGED Promise!ledger
      BY <1>3, DeletesUnseen DEF LedgerInv
    <2> QED BY <1>0, <2>1 DEF Promise!promise
  <1>4. CASE ExtendHeaders
    <2>1. Promise!Grow \/ UNCHANGED Promise!ledger
      BY <1>4, ExtendGrows DEF LedgerInv
    <2> QED BY <1>0, <2>1 DEF Promise!Next, Promise!Keeps, Promise!promise
  <1>5. CASE RowsStored
    <2>1. Promise!Search \/ UNCHANGED Promise!ledger
      BY <1>5, StoreSearches
    <2> QED BY <1>0, <2>1 DEF Promise!Next, Promise!Keeps, Promise!promise
  <1>6. CASE \E t \in Txs : SaveTransaction(t)
    <2>1. \E t \in Txs : Promise!Book(t)
      BY <1>6, SaveBooks
    <2> QED BY <1>0, <2>1 DEF Promise!Next, Promise!Keeps
  <1> QED BY <1>1, <1>2, <1>3, <1>4, <1>5, <1>6, StepKinds DEF LedgerInv, RowsInv

\* The sync keeps its promise to the rest of the wallet: however headers,
\* rewinds, filter batches, failures and restarts interleave, blocks leave with
\* everything learned from them, no block counts as searched before its
\* payments are stored, none is searched twice while it stays on the chain, and
\* a payment is booked once (extendHeaders, rewindTo, processBlock,
\* storeFilters), until a rewind is interrupted.
THEOREM SyncImplementsLedger == "delHeaders" \notin RewindFaults => (Spec => ImplementsLedger)
  <1> SUFFICES ASSUME "delHeaders" \notin RewindFaults PROVE Spec => Promise!Spec
    BY DEF ImplementsLedger
  <1> DEFINE Inv == HInv /\ interrupted \in BOOLEAN /\ (~interrupted => LedgerInv)
  <1>1. Init => Inv /\ Promise!Init
    BY InitLedgerInv, InitPromise DEF LedgerInv, RowsInv, Init
  <1>2. Inv /\ [Next]_vars => Inv' /\ [Promise!Next]_Promise!promise
    <2>1. ASSUME Inv, [Next]_vars PROVE Inv'
      <3>1. interrupted' \in BOOLEAN
        BY <2>1 DEF Next, vars
      <3> QED BY <2>1, <3>1, NextHInv, NextLedgerInv, Uninterrupted
    <2>2. ASSUME Inv, [Next]_vars, ~interrupted' PROVE Promise!Next \/ UNCHANGED Promise!promise
      BY <2>2, Uninterrupted, NextPromise
    <2>3. ASSUME interrupted' PROVE Promise!Next
      BY <2>3 DEF Promise!Next, Promise!Breaks
    <2> QED BY <2>1, <2>2, <2>3
  <1> HIDE DEF Inv
  <1> QED BY <1>1, <1>2, PTL DEF Spec, Promise!Spec

(***************************************************************************)
(* HeaderRules: products and quotients                                     *)
(***************************************************************************)

\* Products grow with their factors.
LEMMA TimesGrows ==
  ASSUME NEW a \in Nat, NEW b \in Nat, NEW c \in Nat, a <= b
  PROVE  a * c <= b * c /\ c * a <= c * b /\ a * c \in Nat
  OBVIOUS

\* And the factors with the products.
LEMMA TimesLess ==
  ASSUME NEW a \in Nat, NEW b \in Nat, NEW c \in Nat \ {0}
  PROVE  /\ a < b => (a + 1) * c <= b * c /\ a * c < b * c
         /\ a * c < b * c => a < b
         /\ a * c <= b * c => a <= b
  OBVIOUS

\* What integer division leaves is less than the divisor.
LEMMA DivFacts ==
  ASSUME NEW a \in Nat, NEW b \in Nat \ {0}
  PROVE  a \div b \in Nat /\ (a \div b) * b <= a /\ a < (a \div b) * b + b
  OBVIOUS

\* The quotient is the greatest number of times the divisor fits.
LEMMA DivGreatest ==
  ASSUME NEW a \in Nat, NEW b \in Nat \ {0}, NEW q \in Nat
  PROVE  q * b <= a <=> q <= a \div b
  <1> DEFINE d == a \div b
  <1>1. d \in Nat /\ d * b <= a /\ a < d * b + b
    BY DivFacts
  <1> HIDE DEF d
  <1>2. (d + 1) * b = d * b + b
    BY <1>1
  <1>3. ASSUME q * b <= a PROVE q <= d
    <2>1. q * b < (d + 1) * b
      BY <1>1, <1>2, <1>3
    <2>2. q < d + 1
      BY <1>1, <2>1, TimesLess
    <2> QED BY <1>1, <2>2
  <1>4. ASSUME q <= d PROVE q * b <= a
    <2>1. q * b <= d * b
      BY <1>1, <1>4, TimesGrows
    <2> QED BY <1>1, <2>1
  <1> QED BY <1>3, <1>4 DEF d

\* Dividing twice is dividing by the product.
LEMMA DivTwice ==
  ASSUME NEW a \in Nat, NEW b \in Nat \ {0}, NEW c \in Nat \ {0}
  PROVE  (a \div b) \div c = a \div (b * c)
  <1> DEFINE d == a \div b
             e == d \div c
             f == a \div (b * c)
  <1>0. b * c \in Nat \ {0}
    OBVIOUS
  <1>1. d \in Nat /\ e \in Nat /\ f \in Nat
    BY <1>0, DivFacts
  <1>2. \A q \in Nat : q <= e <=> q <= f
    <2> SUFFICES ASSUME NEW q \in Nat PROVE q <= e <=> q <= f
      OBVIOUS
    <2>1. q <= e <=> q * c <= d
      BY <1>1, DivGreatest
    <2>2. q * c \in Nat /\ (q * c) * b = q * (b * c)
      OBVIOUS
    <2>3. q * c <= d <=> (q * c) * b <= a
      BY <2>2, DivGreatest
    <2>4. q <= f <=> q * (b * c) <= a
      BY <1>0, DivGreatest
    <2> HIDE DEF d, e, f
    <2> QED BY <2>1, <2>2, <2>3, <2>4
  <1> HIDE DEF d, e, f
  <1>3. e <= f /\ f <= e
    BY <1>1, <1>2
  <1> QED BY <1>1, <1>3 DEF d, e, f

(***************************************************************************)
(* Powers of the base                                                      *)
(***************************************************************************)

\* g has the powers with up to n digits.
PowersTo(g, n) == g[0] = 1 /\ \A k \in 0..(n - 1) : g[k + 1] = Base * g[k]

\* There are powers up to any number of digits.
LEMMA PowersExist == \A n \in Nat : \E g : PowersTo(g, n)
  <1> DEFINE S == {n \in Nat : \E g : PowersTo(g, n)}
  <1>1. 0 \in S
    <2> DEFINE g == [k \in Nat |-> 1]
    <2>1. PowersTo(g, 0)
      BY DEF PowersTo
    <2> HIDE DEF g
    <2> QED BY <2>1
  <1>2. ASSUME NEW n \in Nat, n \in S PROVE n + 1 \in S
    <2>1. PICK g : PowersTo(g, n)
      BY <1>2
    <2> DEFINE h == [k \in Nat |-> IF k <= n THEN g[k] ELSE Base * g[n]]
    <2>2. h[0] = 1
      BY <2>1 DEF PowersTo
    <2>3. ASSUME NEW k \in 0..n PROVE h[k + 1] = Base * h[k]
      <3>1. k \in Nat /\ k + 1 \in Nat /\ h[k] = g[k]
        OBVIOUS
      <3>2. CASE k = n
        <4>1. ~(k + 1 <= n)
          BY <3>2
        <4> QED BY <3>1, <3>2, <4>1
      <3>3. CASE k # n
        <4>1. k \in 0..(n - 1) /\ k + 1 <= n
          BY <3>3
        <4>2. g[k + 1] = Base * g[k]
          BY <2>1, <4>1 DEF PowersTo
        <4>3. h[k + 1] = g[k + 1]
          BY <3>1, <4>1
        <4> HIDE DEF h
        <4> QED BY <3>1, <4>2, <4>3
      <3> QED BY <3>2, <3>3
    <2>4. (n + 1) - 1 = n
      OBVIOUS
    <2> HIDE DEF h
    <2>5. PowersTo(h, n + 1)
      BY <2>2, <2>3, <2>4 DEF PowersTo
    <2> QED BY <2>5
  <1>3. Nat \subseteq S
    <2> HIDE DEF S
    <2> QED BY <1>1, <1>2, AllNumbers
  <1> QED BY <1>3

\* Powers built up to further agree with those built so far.
LEMMA PowersAgree ==
  ASSUME NEW n \in Nat, NEW g, PowersTo(g, n), NEW h, PowersTo(h, n + 1)
  PROVE  g[n] = h[n]
  <1> DEFINE S == {k \in Nat : k <= n => g[k] = h[k]}
  <1>1. 0 \in S
    BY DEF PowersTo
  <1>2. ASSUME NEW k \in Nat, k \in S PROVE k + 1 \in S
    <2> SUFFICES ASSUME k + 1 <= n PROVE g[k + 1] = h[k + 1]
      OBVIOUS
    <2>1. k \in 0..(n - 1) /\ k \in 0..((n + 1) - 1) /\ k <= n
      OBVIOUS
    <2>2. g[k + 1] = Base * g[k] /\ h[k + 1] = Base * h[k] /\ g[k] = h[k]
      BY <1>2, <2>1 DEF PowersTo
    <2> QED BY ONLY <2>2, Zenon
  <1>3. Nat \subseteq S
    <2> HIDE DEF S
    <2> QED BY <1>1, <1>2, AllNumbers
  <1> QED BY <1>3

\* So the function of the code's shifts is what its definition says.
LEMMA PowerDef == Power = [n \in Nat |-> IF n = 0 THEN 1 ELSE Base * Power[n - 1]]
  <1> DEFINE upTo(n) == CHOOSE g : PowersTo(g, n)
             p == [n \in Nat |-> upTo(n)[n]]
  <1>1. \A n \in Nat : PowersTo(upTo(n), n)
    BY PowersExist
  <1>2. \A n \in Nat : p[n] = upTo(n)[n]
    OBVIOUS
  <1> HIDE DEF upTo
  <1>3. ASSUME NEW n \in Nat PROVE p[n] = IF n = 0 THEN 1 ELSE Base * p[n - 1]
    <2>1. CASE n = 0
      BY <1>1, <1>2, <2>1 DEF PowersTo
    <2>2. CASE n # 0
      <3> DEFINE k == n - 1
      <3>1. k \in Nat /\ n = k + 1 /\ k \in 0..(n - 1)
        BY <2>2
      <3>2. PowersTo(upTo(k), k) /\ PowersTo(upTo(k + 1), k + 1)
        BY <1>1, <3>1
      <3> HIDE DEF k
      <3>3. upTo(n)[k + 1] = Base * upTo(n)[k]
        BY <1>1, <3>1 DEF PowersTo
      <3>4. upTo(k)[k] = upTo(k + 1)[k]
        BY <3>1, <3>2, PowersAgree
      <3>5. p[n] = upTo(n)[n] /\ p[k] = upTo(k)[k]
        BY <1>2, <3>1
      <3> HIDE DEF p
      <3>6. p[n] = Base * p[k]
        BY ONLY <3>1, <3>3, <3>4, <3>5, Zenon
      <3> QED BY <2>2, <3>6 DEF k
    <2> QED BY <2>1, <2>2
  <1>4. p = [n \in Nat |-> IF n = 0 THEN 1 ELSE Base * p[n - 1]]
    <2>1. p = [n \in Nat |-> p[n]]
      OBVIOUS
    <2> HIDE DEF p
    <2> QED BY <1>3, <2>1
  <1> HIDE DEF p
  <1>5. \E f : f = [n \in Nat |-> IF n = 0 THEN 1 ELSE Base * f[n - 1]]
    BY <1>4
  <1> QED BY <1>5, Zenon DEF Power

(***************************************************************************)
(* Digits                                                                  *)
(***************************************************************************)

\* What a shift multiplies by: the sizes of numbers with so many digits.
LEMMA PowerFacts ==
  /\ Power[0] = 1
  /\ \A n \in Nat : Power[n] \in Nat \ {0} /\ Power[n + 1] = Base * Power[n] /\ n < Power[n]
  <1>0. Base \in Nat /\ Base >= 2
    BY NumbersAssumption
  <1>1. \A n \in Nat : Power[n] = IF n = 0 THEN 1 ELSE Base * Power[n - 1]
    BY PowerDef
  <1>2. Power[0] = 1
    BY <1>1
  <1>3. \A n \in Nat : Power[n + 1] = Base * Power[n]
    <2> SUFFICES ASSUME NEW n \in Nat PROVE Power[n + 1] = Base * Power[n]
      OBVIOUS
    <2>1. n + 1 \in Nat /\ n + 1 # 0 /\ (n + 1) - 1 = n
      OBVIOUS
    <2> QED BY <1>1, <2>1
  <1> DEFINE S == {n \in Nat : Power[n] \in Nat /\ n < Power[n]}
  <1>4. 0 \in S
    BY <1>2
  <1>5. ASSUME NEW n \in Nat, n \in S PROVE n + 1 \in S
    <2>1. Power[n] \in Nat /\ n < Power[n] /\ Power[n + 1] = Base * Power[n]
      BY <1>3, <1>5
    <2>2. 2 * Power[n] <= Base * Power[n] /\ Base * Power[n] \in Nat
      BY <1>0, <2>1
    <2> QED BY <2>1, <2>2
  <1>6. Nat \subseteq S
    <2> HIDE DEF S
    <2> QED BY <1>4, <1>5, AllNumbers
  <1> QED BY <1>2, <1>3, <1>6

\* Shifting by m + n digits is shifting by m and by n.
LEMMA PowerSplit ==
  \A m, n \in Nat : Power[m + n] = Power[m] * Power[n]
  <1> SUFFICES ASSUME NEW m \in Nat PROVE \A n \in Nat : Power[m + n] = Power[m] * Power[n]
    OBVIOUS
  <1> DEFINE S == {n \in Nat : Power[m + n] = Power[m] * Power[n]}
  <1>0. Base \in Nat
    BY NumbersAssumption
  <1>1. 0 \in S
    BY PowerFacts
  <1>2. ASSUME NEW n \in Nat, n \in S PROVE n + 1 \in S
    <2>1. Power[m + (n + 1)] = Base * Power[m + n] /\ Power[n + 1] = Base * Power[n]
      <3>1. m + n \in Nat /\ (m + n) + 1 = m + (n + 1)
        OBVIOUS
      <3> QED BY <3>1, PowerFacts
    <2>2. Power[m] \in Nat /\ Power[n] \in Nat
      BY PowerFacts
    <2>3. Base * (Power[m] * Power[n]) = Power[m] * (Base * Power[n])
      BY <1>0, <2>2
    <2> QED BY <1>2, <2>1, <2>3
  <1>3. Nat \subseteq S
    <2> HIDE DEF S
    <2> QED BY <1>1, <1>2, AllNumbers
  <1> QED BY <1>3

\* Powers grow with their digits.
LEMMA PowerGrows ==
  \A m, n \in Nat : m <= n => Power[m] <= Power[n]
  <1> SUFFICES ASSUME NEW m \in Nat, NEW n \in Nat, m <= n PROVE Power[m] <= Power[n]
    OBVIOUS
  <1>1. n - m \in Nat /\ m + (n - m) = n
    OBVIOUS
  <1>2. Power[n] = Power[m] * Power[n - m] /\ Power[m] \in Nat /\ Power[n - m] \in Nat \ {0}
    <2> DEFINE k == n - m
    <2>1. k \in Nat /\ m + k = n
      BY <1>1
    <2> HIDE DEF k
    <2>2. Power[n] = Power[m] * Power[k]
      BY <2>1, PowerSplit
    <2> QED BY <2>1, <2>2, PowerFacts DEF k
  <1>3. Power[m] * 1 <= Power[m] * Power[n - m]
    BY <1>2, TimesGrows
  <1> QED BY <1>2, <1>3

\* Every target above zero has its number of digits.
LEMMA DigitsFacts ==
  ASSUME NEW x \in Nat \ {0}
  PROVE  Digits(x) \in 1..x /\ x < Power[Digits(x)] /\ x >= Power[Digits(x) - 1]
  <1> DEFINE S == {n \in Nat : x < Power[n]}
  <1>1. x \in S
    BY PowerFacts
  <1>2. PICK n \in S : \A k \in S : n <= k
    BY <1>1, LeastNumber
  <1>3. n # 0 /\ n \in Nat /\ x < Power[n] /\ n <= x
    BY <1>1, <1>2, PowerFacts
  <1>4. n - 1 \in Nat /\ ~(n <= n - 1)
    BY <1>3
  <1>5. n - 1 \notin S
    BY <1>2, <1>4
  <1>6. x >= Power[n - 1]
    <2>1. Power[n - 1] \in Nat
      BY <1>4, PowerFacts
    <2> QED BY <1>4, <1>5, <2>1
  <1>7. n \in 1..x /\ x < Power[n] /\ x >= Power[n - 1]
    BY <1>3, <1>6
  <1> QED BY <1>7 DEF Digits

\* In the compact format j digits of x are cut off: what is left has the sign
\* bit free, and none more is cut than that takes.
IsCut(x, j) ==
  /\ BigToCompact(x) = [exp |-> Size + j, man |-> x \div Power[j]]
  /\ 2 * (x \div Power[j]) < Power[Size]
  /\ j > 0 => 2 * x >= Power[Size + j - 1]

\* Every target above zero is cut so: bigToCompact takes the digits that the
\* mantissa has no room for, and one more when the sign bit would be set.
LEMMA CutExists ==
  ASSUME NEW x \in Nat \ {0}
  PROVE  \E j \in Nat : IsCut(x, j)
  <1> DEFINE n == Digits(x)
  <1>1. n \in Nat /\ n >= 1 /\ x < Power[n] /\ x >= Power[n - 1]
    BY DigitsFacts
  <1>2. Size \in Nat /\ Size >= 2 /\ Base \in Nat /\ Base >= 2
    BY NumbersAssumption
  <1> DEFINE k == IF n > Size THEN n - Size ELSE 0
             m == x \div Power[k]
  <1>3. k \in Nat /\ k + 1 \in Nat /\ (n > Size => n = Size + k)
    BY <1>1, <1>2
  <1>4. /\ Power[0] = 1 /\ Power[k] \in Nat \ {0} /\ Power[k + 1] = Base * Power[k]
        /\ Power[Size] \in Nat \ {0} /\ Power[k + 1] \in Nat \ {0}
    BY <1>2, <1>3, PowerFacts
  <1>5. m \in Nat /\ m * Power[k] <= x /\ x < m * Power[k] + Power[k]
    BY <1>4, DivFacts
  <1>6. x < Power[Size] * Power[k]
    <2>1. CASE n > Size
      BY <1>1, <1>2, <1>3, <2>1, PowerSplit
    <2>2. CASE ~(n > Size)
      <3>1. n <= Size /\ k = 0
        BY <1>1, <1>2, <2>2
      <3>2. Power[n] <= Power[Size] /\ Power[n] \in Nat
        BY <1>1, <1>2, <3>1, PowerGrows, PowerFacts
      <3> HIDE DEF n, k
      <3> QED BY <1>1, <1>4, <3>1, <3>2
    <2> QED BY <2>1, <2>2
  <1>7. m < Power[Size]
    <2>1. m * Power[k] < Power[Size] * Power[k]
      <3>1. m * Power[k] \in Nat /\ Power[Size] * Power[k] \in Nat
        BY <1>4, <1>5
      <3> HIDE DEF m, k, n
      <3> QED BY <1>5, <1>6, <3>1
    <2> HIDE DEF m, k, n
    <2> QED BY <1>4, <1>5, <2>1, TimesLess
  <1>8. n <= Size => m = x
    BY <1>1, <1>2, <1>4, <1>5
  <1>9. BigToCompact(x) = IF 2 * m >= Power[Size] THEN [exp |-> Size + k + 1, man |-> m \div Base]
                          ELSE [exp |-> Size + k, man |-> m]
    <2>1. BigToCompact(x) =
            LET man == IF n > Size THEN x \div Power[n - Size] ELSE x
                exp == IF n > Size THEN n ELSE Size
            IN IF 2 * man >= Power[Size] THEN [exp |-> exp + 1, man |-> man \div Base]
               ELSE [exp |-> exp, man |-> man]
      BY DEF BigToCompact
    <2>2. (IF n > Size THEN x \div Power[n - Size] ELSE x) = m
      BY <1>1, <1>2, <1>8
    <2>3. (IF n > Size THEN n ELSE Size) = Size + k
      BY <1>1, <1>2
    <2> HIDE DEF n, k, m
    <2> QED BY <2>1, <2>2, <2>3
  <1>10. CASE ~(2 * m >= Power[Size])
    <2>1. k > 0 => 2 * x >= Power[Size + k - 1]
      <3> SUFFICES ASSUME k > 0 PROVE 2 * x >= Power[Size + k - 1]
        OBVIOUS
      <3>1. Size + k - 1 = n - 1 /\ n - 1 \in Nat
        BY <1>1, <1>2
      <3>2. Power[n - 1] \in Nat
        BY <3>1, PowerFacts
      <3> HIDE DEF n, k, m
      <3> QED BY <1>1, <3>1, <3>2
    <2>2. IsCut(x, k)
      <3> HIDE DEF n, k
      <3> QED BY <1>4, <1>5, <1>9, <1>10, <2>1 DEF IsCut
    <2> QED BY <1>3, <2>2
  <1>11. CASE 2 * m >= Power[Size]
    <2> DEFINE j == k + 1
    <2>1. m \div Base = x \div Power[j]
      <3>1. Base \in Nat \ {0} /\ Power[j] = Power[k] * Base
        BY <1>2, <1>4
      <3>2. (x \div Power[k]) \div Base = x \div (Power[k] * Base)
        BY <1>4, <3>1, DivTwice
      <3> HIDE DEF n, k, j
      <3> QED BY <3>1, <3>2
    <2>2. 2 * (m \div Base) < Power[Size]
      <3>1. m \div Base \in Nat /\ (m \div Base) * Base <= m
        BY <1>2, <1>5, DivFacts
      <3>2. (m \div Base) * 2 <= (m \div Base) * Base
        BY <1>2, <3>1, TimesGrows
      <3> HIDE DEF m
      <3> QED BY <1>2, <1>4, <1>5, <1>7, <3>1, <3>2
    <2>3. 2 * x >= Power[Size + j - 1]
      <3>1. Size + j - 1 = Size + k /\ Power[Size + k] = Power[Size] * Power[k]
        <4>1. Size + j - 1 = Size + k
          BY <1>2, <1>3
        <4> HIDE DEF j, k
        <4> QED BY <1>2, <1>3, <4>1, PowerSplit
      <3>2. Power[Size] * Power[k] <= (2 * m) * Power[k]
        <4> HIDE DEF m, k, n
        <4> QED BY <1>4, <1>5, <1>11, TimesGrows
      <3>3. (2 * m) * Power[k] = 2 * (m * Power[k]) /\ m * Power[k] \in Nat
        BY <1>4, <1>5
      <3>4. Power[Size] * Power[k] \in Nat
        BY <1>4
      <3> HIDE DEF m, k, n, j
      <3> QED BY <1>5, <3>1, <3>2, <3>3, <3>4
    <2>4. IsCut(x, j)
      <3>1. Size + k + 1 = Size + j
        BY <1>2, <1>3
      <3>2. BigToCompact(x) = [exp |-> Size + j, man |-> x \div Power[j]]
        <4> HIDE DEF n, k, m, j
        <4> QED BY <1>9, <1>11, <2>1, <3>1
      <3> HIDE DEF n, k, m, j
      <3> QED BY <2>1, <2>2, <2>3, <3>2 DEF IsCut
    <2> QED BY <1>3, <2>4
  <1> QED BY <1>10, <1>11

(***************************************************************************)
(* Targets                                                                 *)
(***************************************************************************)

\* Bits as they are stored: a mantissa that leaves the sign bit free.
Bits == {bits \in [exp : Nat, man : Nat] : 2 * bits.man < Power[Size]}

\* The target of bits is a mantissa of that length in some unit.
LEMMA TargetFacts ==
  ASSUME NEW bits \in Bits
  PROVE  /\ CompactToBig(bits) \in Nat
         /\ \E i \in Nat, k \in Nat : CompactToBig(bits) = k * Power[i] /\ 2 * k < Power[Size]
  <1> DEFINE e == bits.exp
             m == bits.man
  <1>1. e \in Nat /\ m \in Nat /\ 2 * m < Power[Size] /\ Size \in Nat
    BY NumbersAssumption DEF Bits
  <1>2. CASE e <= Size
    <2> DEFINE p == Power[Size - e]
               k == m \div p
    <2>1. p \in Nat \ {0}
      <3>1. Size - e \in Nat
        BY <1>1, <1>2
      <3> HIDE DEF e
      <3> QED BY <3>1, PowerFacts
    <2>2. k \in Nat /\ k * p <= m /\ k * 1 <= k * p
      <3> HIDE DEF m, p
      <3> QED BY <1>1, <2>1, DivFacts, TimesGrows
    <2>3. CompactToBig(bits) = k
      BY <1>2 DEF CompactToBig
    <2>4. Power[0] = 1 /\ Power[Size] \in Nat
      BY <1>1, PowerFacts
    <2>5. k = k * Power[0] /\ 2 * k < Power[Size]
      <3>1. k * p \in Nat
        <4> HIDE DEF p, k
        <4> QED BY <2>1, <2>2
      <3> HIDE DEF k, m, p
      <3> QED BY <1>1, <2>2, <2>4, <3>1
    <2> HIDE DEF k
    <2> QED BY <2>2, <2>3, <2>5
  <1>3. CASE ~(e <= Size)
    <2> DEFINE i == e - Size
    <2>1. i \in Nat
      BY <1>1, <1>3
    <2>2. CompactToBig(bits) = m * Power[i]
      BY <1>3 DEF CompactToBig
    <2> HIDE DEF i, m
    <2>3. m * Power[i] \in Nat
      BY <1>1, <2>1, PowerFacts
    <2> QED BY <1>1, <2>1, <2>2, <2>3
  <1> QED BY <1>2, <1>3

\* What a target above zero is rounded to.
Round(x) == CompactToBig(BigToCompact(x))

\* A target is rounded down to a multiple of a power.
LEMMA RoundFacts ==
  ASSUME NEW x \in Nat \ {0}
  PROVE  /\ BigToCompact(x) \in Bits
         /\ \E j \in Nat :
              /\ Round(x) = (x \div Power[j]) * Power[j] /\ Unit(BigToCompact(x)) = Power[j]
              /\ j > 0 => 2 * x >= Power[Size + j - 1]
  <1>1. PICK j \in Nat : IsCut(x, j)
    BY CutExists
  <1> DEFINE m == x \div Power[j]
             bits == [exp |-> Size + j, man |-> m]
  <1>2. Size \in Nat /\ Power[j] \in Nat \ {0} /\ Power[0] = 1
    BY NumbersAssumption, PowerFacts
  <1>3. m \in Nat
    BY <1>2, DivFacts
  <1>4. BigToCompact(x) = bits /\ 2 * m < Power[Size] /\ (j > 0 => 2 * x >= Power[Size + j - 1])
    BY <1>1 DEF IsCut
  <1> HIDE DEF m
  <1>5. bits \in Bits /\ bits.exp = Size + j /\ bits.man = m
    BY <1>2, <1>3, <1>4 DEF Bits
  <1> HIDE DEF bits
  <1>6. CASE j = 0
    <2>1. bits.exp <= Size /\ Size - bits.exp = 0 /\ ~(bits.exp > Size)
      BY <1>2, <1>5, <1>6
    <2>2. m \div 1 = m /\ m * 1 = m
      BY <1>3
    <2>3. CompactToBig(bits) = m * Power[j] /\ Unit(bits) = Power[j]
      BY <1>2, <1>5, <1>6, <2>1, <2>2 DEF CompactToBig, Unit
    <2> QED BY <1>4, <1>5, <2>3 DEF Round, m
  <1>7. CASE j # 0
    <2>1. ~(bits.exp <= Size) /\ bits.exp > Size /\ bits.exp - Size = j
      BY <1>2, <1>5, <1>7
    <2>2. CompactToBig(bits) = m * Power[j] /\ Unit(bits) = Power[j]
      BY <1>5, <2>1 DEF CompactToBig, Unit
    <2> QED BY <1>4, <1>5, <2>2 DEF Round, m
  <1> QED BY <1>6, <1>7

\* Rounding takes off less than one step of the mantissa.
LEMMA RoundBounds ==
  ASSUME NEW x \in Nat \ {0}
  PROVE  /\ Round(x) \in Nat /\ Unit(BigToCompact(x)) \in Nat \ {0}
         /\ Round(x) <= x /\ x < Round(x) + Unit(BigToCompact(x))
  <1>1. PICK j \in Nat : /\ Round(x) = (x \div Power[j]) * Power[j]
                         /\ Unit(BigToCompact(x)) = Power[j]
    BY RoundFacts
  <1> DEFINE p == Power[j]
             m == x \div p
  <1>2. p \in Nat \ {0}
    BY PowerFacts
  <1>3. m \in Nat /\ m * p <= x /\ x < m * p + p
    BY <1>2, DivFacts
  <1>4. Round(x) = m * p /\ Unit(BigToCompact(x)) = p
    BY <1>1
  <1> HIDE DEF m, p
  <1>5. m * p \in Nat
    BY <1>2, <1>3
  <1> QED BY <1>2, <1>3, <1>4, <1>5

\* A target is not rounded below one that the compact format holds.
LEMMA RoundKeeps ==
  ASSUME NEW bits \in Bits, NEW x \in Nat \ {0}, CompactToBig(bits) <= x
  PROVE  CompactToBig(bits) <= Round(x)
  <1> DEFINE t == CompactToBig(bits)
  <1>1. PICK i \in Nat, k \in Nat : t = k * Power[i] /\ 2 * k < Power[Size]
    BY TargetFacts
  <1>2. PICK j \in Nat : /\ Round(x) = (x \div Power[j]) * Power[j]
                         /\ j > 0 => 2 * x >= Power[Size + j - 1]
    BY RoundFacts
  <1> DEFINE p == Power[j]
             m == x \div p
  <1>3. p \in Nat \ {0} /\ Power[i] \in Nat \ {0} /\ Size \in Nat /\ Size >= 2 /\ Power[Size] \in Nat
    BY NumbersAssumption, PowerFacts
  <1>4. m \in Nat /\ \A q \in Nat : q * p <= x => q * p <= m * p
    <2>1. m \in Nat
      BY <1>3, DivFacts
    <2>2. ASSUME NEW q \in Nat, q * p <= x PROVE q * p <= m * p
      <3>1. q <= m
        BY <1>3, <2>2, DivGreatest
      <3> HIDE DEF m, p
      <3> QED BY <1>3, <2>1, <3>1, TimesGrows
    <2> QED BY <2>1, <2>2
  <1>5. t \in Nat /\ t <= x /\ Round(x) = m * p
    BY <1>2, TargetFacts
  <1>6. CASE j <= i
    <2> DEFINE d == i - j
    <2>1. d \in Nat /\ i = d + j
      BY <1>6
    <2> HIDE DEF d
    <2>2. Power[i] = Power[d] * p /\ Power[d] \in Nat
      BY <2>1, PowerSplit, PowerFacts
    <2>3. t = (k * Power[d]) * p /\ k * Power[d] \in Nat
      <3> HIDE DEF t, p
      <3> QED BY <1>1, <1>3, <2>2
    <2> HIDE DEF t, p, m
    <2> QED BY <1>4, <1>5, <2>3 DEF t
  <1>7. CASE i < j
    <2> DEFINE h == Base \div 2
               q == h * Power[Size - 2]
    <2>1. h \in Nat /\ Base = 2 * h
      BY NumbersAssumption
    <2>2. /\ Size - 2 \in Nat /\ Size - 1 \in Nat
          /\ j \in Nat /\ j >= 1 /\ j - 1 \in Nat /\ i <= j - 1
      BY <1>3, <1>7
    <2>3. Power[Size - 2] \in Nat /\ Power[Size - 1] = Base * Power[Size - 2]
      <3> DEFINE n == Size - 2
      <3>1. n \in Nat /\ n + 1 = Size - 1
        BY <1>3
      <3> HIDE DEF n
      <3>2. Power[n] \in Nat /\ Power[n + 1] = Base * Power[n]
        BY <3>1, PowerFacts
      <3> QED BY <3>1, <3>2 DEF n
    \* half of what x is known to have at least is a multiple of the unit
    <2>4. Power[Size + j - 1] = 2 * (q * p) /\ q \in Nat
      <3>1. Size + j - 1 = (Size - 1) + j
        BY <1>3
      <3>2. Power[(Size - 1) + j] = Power[Size - 1] * p
        BY <2>2, PowerSplit
      <3>3. Power[Size - 1] = 2 * q /\ q \in Nat
        <4> DEFINE r == Power[Size - 2]
        <4>1. r \in Nat /\ Power[Size - 1] = (2 * h) * r /\ q = h * r
          BY <2>1, <2>3
        <4> HIDE DEF r, h, q
        <4>2. (2 * h) * r = 2 * (h * r) /\ h * r \in Nat
          BY <2>1, <4>1
        <4> QED BY <4>1, <4>2
      <3> HIDE DEF q, p
      <3>4. (2 * q) * p = 2 * (q * p)
        BY <1>3, <3>3
      <3> QED BY <3>1, <3>2, <3>3, <3>4
    <2> HIDE DEF h, q
    <2>5. q * p <= x
      <3>1. 2 * x >= 2 * (q * p) /\ q * p \in Nat
        <4>1. q * p \in Nat
          <5> HIDE DEF p
          <5> QED BY <1>3, <2>4
        <4> QED BY <1>2, <2>2, <2>4, <4>1
      <3> HIDE DEF p
      <3> QED BY <3>1
    <2>6. t < q * p
      <3>1. 2 * t < Power[Size] * Power[i]
        <4>1. (2 * k) * Power[i] < Power[Size] * Power[i]
          <5>1. 2 * k \in Nat
            OBVIOUS
          <5> QED BY <1>1, <1>3, <5>1, TimesLess
        <4>2. (2 * k) * Power[i] = 2 * (k * Power[i])
          BY <1>3
        <4> HIDE DEF t
        <4> QED BY <1>1, <4>1, <4>2
      <3>2. Power[Size] * Power[i] = Power[Size + i]
        BY <1>3, PowerSplit
      <3>3. /\ Power[Size + i] <= Power[Size + j - 1]
            /\ Power[Size + i] \in Nat /\ Power[Size + j - 1] \in Nat
        <4>1. Size + i \in Nat /\ Size + j - 1 \in Nat /\ Size + i <= Size + j - 1
          BY <1>3, <2>2
        <4> QED BY <4>1, PowerGrows, PowerFacts
      <3>4. q * p \in Nat
        <4> HIDE DEF p
        <4> QED BY <1>3, <2>4
      <3> HIDE DEF t, p
      <3> QED BY <1>5, <2>4, <3>1, <3>2, <3>3, <3>4
    <2>7. q * p <= m * p
      BY <1>4, <2>4, <2>5
    <2>8. q * p \in Nat /\ m * p \in Nat
      <3> HIDE DEF p, m
      <3> QED BY <1>3, <1>4, <2>4
    <2> HIDE DEF t, p, m
    <2> QED BY <1>5, <2>6, <2>7, <2>8 DEF t
  <1> QED BY <1>6, <1>7

(***************************************************************************)
(* Retargets                                                               *)
(***************************************************************************)

\* What a retarget that finds a target above zero makes of an old one.
LEMMA RetargetFacts ==
  ASSUME NEW old \in Bits, NEW first \in Int, NEW last \in Int,
         CompactToBig(NextRetargetBits(first, last, old)) > 0
  PROVE  LET w == NextRetargetBits(first, last, old)
             r == CompactToBig(w)
             t == CompactToBig(old)
         IN  /\ w \in Bits
             /\ r \in Nat /\ t \in Nat /\ r <= PowLimit /\ r <= 4 * t
             /\ 4 * (r + Unit(w)) > IF t > PowLimit THEN PowLimit ELSE t
             /\ last - first >= Timespan /\ t <= CompactToBig(PowLimitBits) => r >= t
  <1> DEFINE c == Clamped(last - first)
             t == CompactToBig(old)
             target == (t * c) \div Timespan
             x == IF target > PowLimit THEN PowLimit ELSE target
             w == NextRetargetBits(first, last, old)
             r == CompactToBig(w)
             q == Timespan \div 4
  <1>1. Timespan \in Nat \ {0} /\ q \in Nat /\ Timespan = 4 * q /\ PowLimit \in Nat \ {0}
    BY NumbersAssumption
  <1>2. /\ c \in Nat /\ q <= c /\ c <= 4 * Timespan
        /\ last - first >= Timespan => c >= Timespan
    <2>1. c = IF last - first < q THEN q ELSE IF last - first > Timespan * 4 THEN Timespan * 4
              ELSE last - first
      BY DEF Clamped
    <2> HIDE DEF c, q
    <2> QED BY <1>1, <2>1
  <1>3. t \in Nat
    BY TargetFacts
  <1>4. /\ t * c \in Nat /\ target \in Nat
        /\ target * Timespan <= t * c /\ t * c < target * Timespan + Timespan
    <2>1. t * c \in Nat
      <3> HIDE DEF t, c
      <3> QED BY <1>2, <1>3
    <2> HIDE DEF t, c
    <2> QED BY <1>1, <2>1, DivFacts
  <1>5. target > 0 /\ w = BigToCompact(x)
    <2>1. w = IF target <= 0 THEN [exp |-> 0, man |-> 0] ELSE BigToCompact(x)
      BY DEF NextRetargetBits
    <2>2. ASSUME target <= 0 PROVE FALSE
      <3>1. w = [exp |-> 0, man |-> 0]
        BY <2>1, <2>2
      <3>2. Size \in Nat /\ Size - 0 = Size /\ Power[Size] \in Nat \ {0}
        BY NumbersAssumption, PowerFacts
      <3>3. r = 0 \div Power[Size]
        BY <3>1, <3>2 DEF CompactToBig
      <3>4. 0 \div Power[Size] = 0
        <4> DEFINE d == 0 \div Power[Size]
        <4>1. d \in Nat /\ d * Power[Size] <= 0 /\ d * 1 <= d * Power[Size]
          BY <3>2, DivFacts, TimesGrows
        <4> HIDE DEF d
        <4>2. d * Power[Size] \in Nat /\ d * 1 = d
          BY <3>2, <4>1
        <4>3. d = 0
          BY <4>1, <4>2
        <4> QED BY <4>3 DEF d
      <3> QED BY <3>3, <3>4
    <2> HIDE DEF w, x, target, r
    <2> QED BY <1>4, <2>1, <2>2
  <1>6. x \in Nat \ {0} /\ x <= PowLimit /\ x <= target
    BY <1>1, <1>4, <1>5
  <1>7. /\ w \in Bits /\ r = Round(x) /\ r \in Nat /\ Unit(w) \in Nat \ {0}
        /\ r <= x /\ x < r + Unit(w)
    <2>1. w \in Bits
      <3> HIDE DEF x, w
      <3> QED BY <1>5, <1>6, RoundFacts
    <2>2. r = Round(x)
      BY <1>5 DEF Round
    <2> HIDE DEF x, r, w
    <2> QED BY <1>5, <1>6, <2>1, <2>2, RoundBounds
  <1>8. target <= 4 * t
    <2>1. t * c <= t * (4 * Timespan)
      <3> HIDE DEF t, c
      <3> QED BY <1>1, <1>2, <1>3, TimesGrows
    <2>2. t * (4 * Timespan) = (4 * t) * Timespan /\ (4 * t) * Timespan \in Nat
      <3> HIDE DEF t
      <3> QED BY <1>1, <1>3
    <2>3. target * Timespan <= (4 * t) * Timespan
      <3>1. target * Timespan \in Nat
        <4> HIDE DEF target
        <4> QED BY <1>1, <1>4
      <3> HIDE DEF target, t, c
      <3> QED BY <1>4, <2>1, <2>2, <3>1
    <2>4. 4 * t \in Nat
      <3> HIDE DEF t
      <3> QED BY <1>3
    <2> HIDE DEF target, t
    <2> QED BY <1>1, <1>4, <2>3, <2>4, TimesLess
  <1>9. t < 4 * (target + 1)
    <2>1. t * q <= t * c /\ t * q \in Nat
      <3> HIDE DEF t, c, q
      <3> QED BY <1>1, <1>2, <1>3, TimesGrows
    <2>2. target * Timespan + Timespan = (4 * (target + 1)) * q
      <3> HIDE DEF target, q
      <3>1. target * (4 * q) + 4 * q = (4 * (target + 1)) * q
        BY <1>1, <1>4
      <3> QED BY <1>1, <3>1
    <2>3. t * q < (4 * (target + 1)) * q
      <3>1. (4 * (target + 1)) * q \in Nat
        <4> HIDE DEF target, q
        <4> QED BY <1>1, <1>4
      <3> HIDE DEF target, q, t, c
      <3> QED BY <1>4, <2>1, <2>2, <3>1
    <2>4. q # 0 /\ 4 * (target + 1) \in Nat
      <3> HIDE DEF target, q
      <3> QED BY <1>1, <1>4
    <2> HIDE DEF target, q, t
    <2> QED BY <1>1, <1>3, <2>3, <2>4, TimesLess
  <1>10. r <= PowLimit /\ r <= 4 * t
    <2> HIDE DEF r, x, target, t
    <2> QED BY <1>1, <1>3, <1>4, <1>6, <1>7, <1>8
  <1>11. 4 * (r + Unit(w)) > IF t > PowLimit THEN PowLimit ELSE t
    <2>1. CASE target > PowLimit
      <3>1. x = PowLimit
        BY <2>1
      <3> HIDE DEF r, x, target, t, w
      <3> QED BY <1>1, <1>3, <1>7, <3>1
    <2>2. CASE ~(target > PowLimit)
      <3>1. x = target
        BY <2>2
      <3> HIDE DEF r, x, target, t, w
      <3> QED BY <1>1, <1>3, <1>4, <1>7, <1>9, <3>1
    <2> QED BY <2>1, <2>2
  <1>12. ASSUME last - first >= Timespan, t <= CompactToBig(PowLimitBits) PROVE t <= r
    <2>1. CASE target > PowLimit
      <3>1. x = PowLimit
        BY <2>1
      <3>2. r = CompactToBig(PowLimitBits)
        BY <1>7, <3>1 DEF Round, PowLimitBits
      <3> QED BY <1>12, <3>2
    <2>2. CASE ~(target > PowLimit)
      <3>1. x = target
        BY <2>2
      <3>2. t * Timespan <= t * c
        <4> HIDE DEF t, c
        <4> QED BY <1>1, <1>2, <1>3, <1>12, TimesGrows
      <3>3. t <= target
        <4> HIDE DEF t, c
        <4> QED BY <1>1, <1>3, <1>4, <3>2, DivGreatest
      <3>4. t <= Round(x)
        <4> HIDE DEF x, target
        <4> QED BY <1>6, <3>1, <3>3, RoundKeeps
      <3> QED BY <1>7, <3>4
    <2> QED BY <2>1, <2>2
  <1> HIDE DEF r, t, w
  <1> QED BY <1>3, <1>7, <1>10, <1>11, <1>12 DEF r, t, w

(***************************************************************************)
(* The median time                                                         *)
(***************************************************************************)

\* A header as the chain keeps it.
Header == [time : 0..Latest, bits : Bits]

\* The heights whose times count for the median of the first n headers.
LastOf(n) == {h \in 0..(n - 1) : h >= n - Window}

\* t is the median of them in the chain hs, the upper of two.
IsMedian(hs, n, t) ==
  /\ t \in {hs[h + 1].time : h \in LastOf(n)}
  /\ Cardinality({h \in LastOf(n) : hs[h + 1].time < t}) <= Cardinality(LastOf(n)) \div 2
  /\ Cardinality({h \in LastOf(n) : hs[h + 1].time <= t}) > Cardinality(LastOf(n)) \div 2

\* The window fills, and then stays as long as it is.
LEMMA WindowFacts ==
  ASSUME NEW n \in Nat \ {0}
  PROVE  /\ IsFiniteSet(LastOf(n)) /\ Cardinality(LastOf(n)) \in Nat \ {0}
         /\ Cardinality(LastOf(n)) <= Cardinality(LastOf(n + 1))
         /\ \A h \in LastOf(n + 1) : h \in LastOf(n) \/ h = n
  <1>1. Window \in Nat \ {0}
    BY NumbersAssumption
  <1> DEFINE low(k) == IF k < Window THEN 0 ELSE k - Window
  <1>2. ASSUME NEW k \in Nat \ {0}
        PROVE  /\ LastOf(k) = low(k)..(k - 1) /\ IsFiniteSet(LastOf(k))
               /\ Cardinality(LastOf(k)) = k - low(k) /\ low(k) \in Nat /\ low(k) < k
    <2>1. low(k) \in Nat /\ low(k) < k
      BY <1>1
    <2>2. LastOf(k) = low(k)..(k - 1)
      BY <1>1 DEF LastOf
    <2> HIDE DEF low
    <2> DEFINE a == low(k)
               b == k - 1
    <2>3. a \in Int /\ b \in Int /\ a <= b
      BY <2>1
    <2> HIDE DEF a, b
    <2>4. IsFiniteSet(a..b) /\ Cardinality(a..b) = IF a > b THEN 0 ELSE b - a + 1
      BY <2>3, FS_Interval
    <2>5. Cardinality(a..b) = b - a + 1
      BY <2>3, <2>4
    <2> QED BY <2>1, <2>2, <2>4, <2>5 DEF a, b
  <1>3. Cardinality(LastOf(n)) = n - low(n) /\ Cardinality(LastOf(n + 1)) = (n + 1) - low(n + 1)
        /\ low(n) \in Nat /\ low(n) < n /\ IsFiniteSet(LastOf(n))
    <2>1. n + 1 \in Nat \ {0}
      OBVIOUS
    <2> HIDE DEF low
    <2> QED BY <1>2, <2>1
  <1>4. low(n + 1) <= low(n) + 1 /\ low(n + 1) \in Nat
    BY <1>1
  <1>5. \A h \in LastOf(n + 1) : h \in LastOf(n) \/ h = n
    BY <1>1 DEF LastOf
  <1> HIDE DEF low
  <1> QED BY <1>3, <1>4, <1>5

\* The header at a place of a chain.
LEMMA HeaderFacts ==
  ASSUME NEW hs \in Seq(Header), NEW i \in 1..Len(hs)
  PROVE  hs[i].time \in Nat /\ hs[i].time <= Latest /\ hs[i].bits \in Bits
  <1>1. hs[i] \in Header
    OBVIOUS
  <1> QED BY <1>1, NumbersAssumption DEF Header

\* There is a median: the least time that more than half are not after.
LEMMA MedianExists ==
  ASSUME NEW hs \in Seq(Header), NEW n \in 1..Len(hs)
  PROVE  \E t : IsMedian(hs, n, t)
  <1> DEFINE last == LastOf(n)
             half == Cardinality(last) \div 2
             until(t) == {h \in last : hs[h + 1].time <= t}
             before(t) == {h \in last : hs[h + 1].time < t}
             Many == {t \in Nat : Cardinality(until(t)) > half}
  <1>1. n \in Nat \ {0} /\ IsFiniteSet(last) /\ Cardinality(last) \in Nat \ {0}
    <2>1. n \in Nat \ {0}
      OBVIOUS
    <2> QED BY <2>1, WindowFacts
  <1>2. half \in Nat /\ half < Cardinality(last)
    <2> HIDE DEF last
    <2> QED BY <1>1
  <1>3. \A h \in last : hs[h + 1].time \in Nat /\ hs[h + 1].time <= Latest
    <2>1. \A h \in last : h + 1 \in 1..Len(hs)
      BY DEF LastOf
    <2> HIDE DEF last
    <2> QED BY <2>1, HeaderFacts
  <1>4. Latest \in Many
    <2>1. until(Latest) = last /\ Latest \in Nat
      BY <1>3, NumbersAssumption
    <2> HIDE DEF last, until
    <2> QED BY <1>2, <2>1
  <1>5. PICK m \in Many : \A k \in Many : m <= k
    <2> HIDE DEF until, half
    <2> QED BY <1>4, LeastNumber
  <1>6. Cardinality(before(m)) <= half
    <2>1. CASE m = 0
      <3>1. before(m) = {}
        BY <1>3, <2>1
      <3> HIDE DEF before, half
      <3> QED BY <1>2, <3>1, FS_EmptySet
    <2>2. CASE m # 0
      <3>1. m - 1 \in Nat /\ ~(m <= m - 1)
        BY <2>2
      <3>2. before(m) = until(m - 1)
        BY <1>3, <3>1
      <3>3. ~(Cardinality(until(m - 1)) > half)
        <4> HIDE DEF until, half
        <4> QED BY <1>5, <3>1
      <3>4. Cardinality(until(m - 1)) \in Nat
        <4>1. until(m - 1) \subseteq last
          OBVIOUS
        <4> HIDE DEF until, last
        <4> QED BY <1>1, <4>1, FS_Subset, FS_CardinalityType
      <3> HIDE DEF before, until, half
      <3> QED BY <1>2, <3>2, <3>3, <3>4
    <2> QED BY <2>1, <2>2
  <1>7. m \in {hs[h + 1].time : h \in last}
    <2> SUFFICES ASSUME m \notin {hs[h + 1].time : h \in last} PROVE FALSE
      OBVIOUS
    <2>1. until(m) = before(m)
      BY <1>3
    <2>2. Cardinality(until(m)) > half /\ Cardinality(until(m)) \in Nat
      <3>1. until(m) \subseteq last
        OBVIOUS
      <3>2. Cardinality(until(m)) \in Nat
        <4> HIDE DEF until, last
        <4> QED BY <1>1, <3>1, FS_Subset, FS_CardinalityType
      <3> HIDE DEF until, half
      <3> QED BY <3>2
    <2> HIDE DEF until, before, half
    <2> QED BY <1>2, <1>6, <2>1, <2>2
  <1>8. Cardinality(until(m)) > half
    <2> HIDE DEF until, half
    <2> QED OBVIOUS
  <1> QED BY <1>6, <1>7, <1>8 DEF IsMedian

\* Of the times of a chain the median is one, and it depends on no later header.
LEMMA MedianUnique ==
  ASSUME NEW hs \in Seq(Header), NEW gs \in Seq(Header), NEW n \in 1..Len(hs), n <= Len(gs),
         \A i \in 1..n : gs[i] = hs[i],
         NEW t, IsMedian(hs, n, t), NEW u, IsMedian(gs, n, u)
  PROVE  t = u
  <1> DEFINE last == LastOf(n)
             half == Cardinality(last) \div 2
             time(h) == hs[h + 1].time
  <1>1. n \in Nat \ {0} /\ IsFiniteSet(last) /\ Cardinality(last) \in Nat \ {0} /\ half \in Nat
    <2>1. n \in Nat \ {0} /\ IsFiniteSet(last) /\ Cardinality(last) \in Nat \ {0}
      <3>1. n \in Nat \ {0}
        OBVIOUS
      <3> QED BY <3>1, WindowFacts
    <2> HIDE DEF last
    <2> QED BY <2>1
  <1>2. \A h \in last : time(h) \in Int /\ gs[h + 1].time = time(h)
    <2>1. \A h \in last : h + 1 \in 1..Len(hs) /\ h + 1 \in 1..n
      BY DEF LastOf
    <2>2. \A h \in last : hs[h + 1].time \in Int /\ gs[h + 1].time = hs[h + 1].time
      <3> HIDE DEF last
      <3> QED BY <2>1, HeaderFacts
    <2> QED BY <2>1, <2>2
  <1>3. /\ t \in {time(h) : h \in last}
        /\ Cardinality({h \in last : time(h) < t}) <= half
        /\ Cardinality({h \in last : time(h) <= t}) > half
    BY DEF IsMedian
  <1>4. /\ u \in {time(h) : h \in last}
        /\ Cardinality({h \in last : time(h) < u}) <= half
        /\ Cardinality({h \in last : time(h) <= u}) > half
    <2> DEFINE gtime(h) == gs[h + 1].time
    <2>1. /\ u \in {gtime(h) : h \in last}
          /\ Cardinality({h \in last : gtime(h) < u}) <= half
          /\ Cardinality({h \in last : gtime(h) <= u}) > half
      BY DEF IsMedian
    <2>2. /\ {gtime(h) : h \in last} = {time(h) : h \in last}
          /\ {h \in last : gtime(h) < u} = {h \in last : time(h) < u}
          /\ {h \in last : gtime(h) <= u} = {h \in last : time(h) <= u}
      BY <1>2
    <2> HIDE DEF half, gtime, time
    <2> QED BY <2>1, <2>2
  <1>5. t \in Int /\ u \in Int
    <2> HIDE DEF last, time
    <2> QED BY <1>2, <1>3, <1>4
  <1>6. ASSUME NEW a \in Int, NEW b \in Int, a < b,
               Cardinality({h \in last : time(h) <= a}) > half,
               Cardinality({h \in last : time(h) < b}) <= half
        PROVE  FALSE
    <2> DEFINE A == {h \in last : time(h) <= a}
               B == {h \in last : time(h) < b}
    <2>1. A \subseteq B /\ B \subseteq last
      <3> HIDE DEF last, time
      <3> QED BY <1>2, <1>6
    <2>2. Cardinality(A) > half /\ Cardinality(B) <= half
      BY <1>6
    <2> HIDE DEF A, B, last, half
    <2>3. IsFiniteSet(B)
      BY <1>1, <2>1, FS_Subset
    <2>4. Cardinality(A) <= Cardinality(B) /\ Cardinality(A) \in Nat /\ Cardinality(B) \in Nat
      BY <2>1, <2>3, FS_Subset, FS_CardinalityType
    <2> QED BY <1>1, <2>2, <2>4
  <1> HIDE DEF last, half, time
  <1>7. ~(t < u) /\ ~(u < t)
    BY <1>3, <1>4, <1>5, <1>6
  <1> QED BY <1>5, <1>7

\* A header dated after the median does not lower it.
LEMMA MedianGrows ==
  ASSUME NEW hs \in Seq(Header), NEW gs \in Seq(Header), NEW n \in 1..Len(hs), n + 1 <= Len(gs),
         \A i \in 1..n : gs[i] = hs[i],
         NEW t, IsMedian(hs, n, t), NEW u, IsMedian(gs, n + 1, u), t < gs[n + 1].time
  PROVE  t <= u
  <1> DEFINE last == LastOf(n)
             wide == LastOf(n + 1)
             half == Cardinality(last) \div 2
  <1>1. /\ n \in Nat \ {0} /\ IsFiniteSet(last) /\ Cardinality(last) \in Nat \ {0}
        /\ Cardinality(last) <= Cardinality(wide) /\ \A h \in wide : h \in last \/ h = n
    <2>1. n \in Nat \ {0}
      OBVIOUS
    <2> QED BY <2>1, WindowFacts
  <1>2. IsFiniteSet(wide) /\ Cardinality(wide) \in Nat
    <2>1. n + 1 \in Nat \ {0}
      OBVIOUS
    <2> QED BY <2>1, WindowFacts
  <1>3. half \in Nat /\ half <= Cardinality(wide) \div 2 /\ Cardinality(wide) \div 2 \in Nat
    <2> HIDE DEF last, wide
    <2> QED BY <1>1, <1>2
  <1>4. \A h \in last : h + 1 \in 1..n /\ hs[h + 1].time \in Int /\ gs[h + 1].time = hs[h + 1].time
    <2>1. \A h \in last : h + 1 \in 1..Len(hs) /\ h + 1 \in 1..n
      BY DEF LastOf
    <2>2. \A h \in last : hs[h + 1].time \in Int /\ gs[h + 1].time = hs[h + 1].time
      <3> HIDE DEF last
      <3> QED BY <2>1, HeaderFacts
    <2> QED BY <2>1, <2>2
  <1>5. t \in Int /\ u \in Int /\ gs[n + 1].time \in Int
    <2>1. t \in {hs[h + 1].time : h \in last} /\ u \in {gs[h + 1].time : h \in wide}
      BY DEF IsMedian
    <2>2. n + 1 \in 1..Len(gs)
      OBVIOUS
    <2>3. gs[n + 1].time \in Int
      BY <2>2, HeaderFacts
    <2> HIDE DEF last, wide
    <2> QED BY <1>1, <1>4, <2>1, <2>3
  <1> SUFFICES ASSUME u < t PROVE FALSE
    BY <1>5
  <1> DEFINE A == {h \in wide : gs[h + 1].time <= u}
             B == {h \in last : hs[h + 1].time < t}
  <1>6. A \subseteq B /\ B \subseteq last
    <2> HIDE DEF last, wide
    <2> QED BY <1>1, <1>4, <1>5
  <1>7. Cardinality(A) > Cardinality(wide) \div 2 /\ Cardinality(B) <= half
    BY DEF IsMedian
  <1> HIDE DEF A, B, last, wide, half
  <1>8. IsFiniteSet(B)
    BY <1>1, <1>6, FS_Subset
  <1>9. Cardinality(A) <= Cardinality(B) /\ Cardinality(A) \in Nat /\ Cardinality(B) \in Nat
    BY <1>6, <1>8, FS_Subset, FS_CardinalityType
  <1> QED BY <1>3, <1>7, <1>9

(***************************************************************************)
(* The inductive invariant                                                 *)
(***************************************************************************)

\* The chain has its genesis, and headers with a time and bits.
ChainTyped ==
  /\ net \in Networks
  /\ headers \in Seq(Header) /\ Len(headers) > 0

\* Every retarget is the one the headers below it ask for.
Retargeted ==
  \A h \in Retargets : HeaderAt(h).bits = WantedBits(h) /\ Target(h) > 0

\* The inductive invariant: retargets are kept as what they were computed from,
\* not as the bounds they meet.
RulesInv == ChainTyped /\ MedianNeverFalls /\ Retargeted

\* What medianTime returns is the median.
LEMMA MedianTimeFacts ==
  ASSUME headers \in Seq(Header)
  PROVE  \A n \in 1..Len(headers) : IsMedian(headers, n, MedianTime(n))
  <1> SUFFICES ASSUME NEW n \in 1..Len(headers) PROVE IsMedian(headers, n, MedianTime(n))
    OBVIOUS
  <1>1. \E t : IsMedian(headers, n, t)
    BY MedianExists
  <1> QED BY <1>1 DEF IsMedian, MedianTime, LastOf, HeaderAt

\* And after a step.
LEMMA MedianTimeFactsNext ==
  ASSUME headers' \in Seq(Header)
  PROVE  \A n \in 1..Len(headers') : IsMedian(headers', n, MedianTime(n)')
  <1> SUFFICES ASSUME NEW n \in 1..Len(headers') PROVE IsMedian(headers', n, MedianTime(n)')
    OBVIOUS
  <1>1. \E t : IsMedian(headers', n, t)
    BY MedianExists
  <1> QED BY <1>1 DEF IsMedian, MedianTime, LastOf, HeaderAt

\* A retarget has a period below it.
LEMMA PeriodBelow ==
  ASSUME NEW h \in Nat \ {0}, IsRetarget(h)
  PROVE  h - Interval \in 0..(h - 1)
  <1>1. Interval \in Nat \ {0} /\ h % Interval = 0
    BY NumbersAssumption DEF IsRetarget
  <1>2. h < Interval => h % Interval = h
    BY <1>1
  <1> QED BY <1>1, <1>2

\* Headers that stay in their place keep what is said of them.
LEMMA BelowStays ==
  ASSUME RulesInv, headers' \in Seq(Header), net' = net,
         NEW n \in 1..Len(headers), n <= Len(headers'),
         \A i \in 1..n : headers'[i] = headers[i]
  PROVE  /\ \A k \in 1..n : MedianTime(k)' = MedianTime(k)
         /\ \A h \in 1..n : IsRetarget(h) => WantedBits(h)' = WantedBits(h)
         /\ \A h \in 0..(n - 1) : HeaderAt(h)' = HeaderAt(h)
         /\ \A k \in 1..(n - 1) : MedianTime(k)' <= MedianTime(k + 1)'
         /\ \A h \in 1..(n - 1) : IsRetarget(h) /\ net # "regtest" =>
              HeaderAt(h)'.bits = WantedBits(h)' /\ CompactToBig(HeaderAt(h)'.bits) > 0
  <1>0. headers \in Seq(Header) /\ n \in Nat
    BY DEF RulesInv, ChainTyped
  <1>1. ASSUME NEW k \in 1..n PROVE MedianTime(k)' = MedianTime(k)
    <2>1. k \in 1..Len(headers) /\ k \in 1..Len(headers') /\ k <= Len(headers')
          /\ \A i \in 1..k : headers'[i] = headers[i]
      BY <1>0
    <2>2. IsMedian(headers, k, MedianTime(k)) /\ IsMedian(headers', k, MedianTime(k)')
      BY <1>0, <2>1, MedianTimeFacts, MedianTimeFactsNext
    <2> QED BY <1>0, <2>1, <2>2, MedianUnique
  <1>2. \A h \in 0..(n - 1) : HeaderAt(h)' = HeaderAt(h)
    BY <1>0 DEF HeaderAt
  <1>3. ASSUME NEW h \in 1..n, IsRetarget(h) PROVE WantedBits(h)' = WantedBits(h)
    <2>1. h - Interval \in 0..(n - 1) /\ h - 1 \in 0..(n - 1)
      <3>1. h \in Nat \ {0} /\ h - 1 \in 0..(n - 1)
        BY <1>0
      <3>2. h - Interval \in 0..(h - 1)
        BY <1>3, <3>1, PeriodBelow
      <3> QED BY <1>0, <3>1, <3>2
    <2>2. HeaderAt(h - Interval)' = HeaderAt(h - Interval) /\ HeaderAt(h - 1)' = HeaderAt(h - 1)
      BY <1>2, <2>1
    <2>3. OldBits(h)' = OldBits(h)
      BY <2>2 DEF OldBits, EnforceBIP94
    <2> QED BY <2>2, <2>3 DEF WantedBits
  <1>4. ASSUME NEW k \in 1..(n - 1) PROVE MedianTime(k)' <= MedianTime(k + 1)'
    <2>1. k \in 1..n /\ k + 1 \in 1..n /\ k \in 1..(Len(headers) - 1)
      BY <1>0
    <2>2. MedianTime(k) <= MedianTime(k + 1)
      BY <2>1 DEF RulesInv, MedianNeverFalls
    <2> QED BY <1>1, <2>1, <2>2
  <1>5. ASSUME NEW h \in 1..(n - 1), IsRetarget(h), net # "regtest"
        PROVE  HeaderAt(h)'.bits = WantedBits(h)' /\ CompactToBig(HeaderAt(h)'.bits) > 0
    <2>1. h \in Retargets
      BY <1>0, <1>5 DEF Retargets
    <2>2. HeaderAt(h).bits = WantedBits(h) /\ CompactToBig(HeaderAt(h).bits) > 0
      BY <2>1 DEF RulesInv, Retargeted, Target
    <2>3. HeaderAt(h)' = HeaderAt(h) /\ WantedBits(h)' = WantedBits(h)
      <3>1. h \in 1..n /\ h \in 0..(n - 1)
        BY <1>0
      <3> QED BY <1>2, <1>3, <1>5, <3>1
    <2> QED BY <2>2, <2>3
  <1> QED BY <1>1, <1>2, <1>3, <1>4, <1>5

\* What a retarget gets from the headers below.
LEMMA WantedFacts ==
  ASSUME ChainTyped, NEW h \in 1..Len(headers), IsRetarget(h), CompactToBig(WantedBits(h)) > 0
  PROVE  LET w == WantedBits(h)
             r == CompactToBig(w)
             t == Target(Reference(h))
         IN  /\ w \in Bits
             /\ r \in Nat /\ t \in Nat /\ r <= PowLimit /\ r <= 4 * t
             /\ 4 * (r + Unit(w)) > IF t > PowLimit THEN PowLimit ELSE t
             /\ HeaderAt(h - 1).time - HeaderAt(h - Interval).time >= Timespan
                /\ t <= CompactToBig(PowLimitBits) => r >= t
  <1>1. headers \in Seq(Header) /\ h \in Nat \ {0}
    BY DEF ChainTyped
  <1>2. h - Interval \in 0..(h - 1) /\ h - 1 \in 0..(h - 1)
    BY <1>1, PeriodBelow
  <1> DEFINE first == HeaderAt(h - Interval).time
             last == HeaderAt(h - 1).time
             old == HeaderAt(Reference(h)).bits
  <1>3. first \in Int /\ last \in Int /\ old \in Bits
    <2>1. \A k \in 0..(h - 1) : k + 1 \in 1..Len(headers)
      BY <1>1
    <2>2. \A k \in 0..(h - 1) : HeaderAt(k).time \in Nat /\ HeaderAt(k).bits \in Bits
      BY <1>1, <2>1, HeaderFacts DEF HeaderAt
    <2>3. Reference(h) \in 0..(h - 1)
      BY <1>2 DEF Reference
    <2> QED BY <1>2, <2>2, <2>3
  <1>4. WantedBits(h) = NextRetargetBits(first, last, old)
    BY DEF WantedBits, OldBits, Reference, EnforceBIP94
  <1>5. Target(Reference(h)) = CompactToBig(old)
    BY DEF Target
  <1> HIDE DEF first, last, old
  <1>6. CompactToBig(NextRetargetBits(first, last, old)) > 0
    BY <1>4
  <1>7. LET w == NextRetargetBits(first, last, old)
            r == CompactToBig(w)
            t == CompactToBig(old)
        IN  /\ w \in Bits
            /\ r \in Nat /\ t \in Nat /\ r <= PowLimit /\ r <= 4 * t
            /\ 4 * (r + Unit(w)) > IF t > PowLimit THEN PowLimit ELSE t
            /\ last - first >= Timespan /\ t <= CompactToBig(PowLimitBits) => r >= t
    BY <1>3, <1>6, RetargetFacts
  <1> QED BY <1>4, <1>5, <1>7 DEF first, last

\* Genesis alone has a median and no retarget.
LEMMA RulesStart == RulesInit => RulesInv
  <1> SUFFICES ASSUME RulesInit PROVE RulesInv
    OBVIOUS
  <1>1. headers = <<[time |-> 0, bits |-> PowLimitBits]>> /\ net \in Networks
    BY DEF RulesInit
  <1>2. PowLimitBits \in Bits
    BY NumbersAssumption, RoundFacts DEF PowLimitBits
  <1>3. [time |-> 0, bits |-> PowLimitBits] \in Header
    BY <1>2, NumbersAssumption DEF Header
  <1>4. headers \in Seq(Header) /\ Len(headers) = 1
    <2> HIDE DEF Header
    <2> QED BY <1>1, <1>3
  <1> QED BY <1>1, <1>4 DEF RulesInv, ChainTyped, MedianNeverFalls, Retargeted, Retargets

\* A header that Add accepts.
LEMMA AddKeeps ==
  ASSUME RulesInv, NEW time \in Times, NEW bits,
         bits \in Offered \/ (IsRetarget(Len(headers)) /\ bits = WantedBits(Len(headers))),
         Add(time, bits)
  PROVE  RulesInv'
  <1> DEFINE new == [time |-> time, bits |-> bits]
  <1>0. headers \in Seq(Header) /\ Len(headers) \in Nat /\ Len(headers) > 0
    BY DEF RulesInv, ChainTyped
  <1>len. PICK n \in Nat : n = Len(headers)
    BY <1>0
  <1>1. /\ ChainTyped /\ headers \in Seq(Header) /\ n \in Nat /\ n > 0 /\ net \in Networks
    BY <1>0, <1>len DEF RulesInv, ChainTyped
  <1>2. /\ CompactToBig(bits) > 0 /\ time <= Latest /\ time > MedianTime(n)
        /\ CheckDifficulty(time, bits, n)
        /\ headers' = Append(headers, new) /\ net' = net
    BY <1>len DEF Add, CheckPoW, AfterMedian
  <1>3. bits \in Bits
    <2>1. CASE bits \in Offered
      BY <2>1, OfferedAssumption DEF Bits
    <2>2. CASE IsRetarget(n) /\ bits = WantedBits(n)
      <3>1. n \in 1..Len(headers)
        BY <1>1, <1>len
      <3> QED BY <1>1, <1>2, <2>2, <3>1, WantedFacts
    <2> QED BY <1>len, <2>1, <2>2
  <1>4. new \in Header
    BY <1>2, <1>3, NumbersAssumption DEF Header
  <1>5. /\ headers' \in Seq(Header) /\ Len(headers') = n + 1 /\ headers'[n + 1] = new
        /\ \A i \in 1..n : headers'[i] = headers[i]
    <2> HIDE DEF Header, new
    <2> QED BY <1>1, <1>len, <1>2, <1>4
  <1> HIDE DEF new
  <1>6. n \in 1..Len(headers) /\ n <= Len(headers')
    BY <1>1, <1>len, <1>5
  <1>7. /\ \A k \in 1..n : MedianTime(k)' = MedianTime(k)
        /\ \A h \in 1..n : IsRetarget(h) => WantedBits(h)' = WantedBits(h)
        /\ \A k \in 1..(n - 1) : MedianTime(k)' <= MedianTime(k + 1)'
        /\ \A h \in 1..(n - 1) : IsRetarget(h) /\ net # "regtest" =>
             HeaderAt(h)'.bits = WantedBits(h)' /\ CompactToBig(HeaderAt(h)'.bits) > 0
    BY <1>2, <1>5, <1>6, BelowStays
  <1>8. MedianTime(n)' <= MedianTime(n + 1)'
    <2>1. IsMedian(headers, n, MedianTime(n)) /\ IsMedian(headers', n + 1, MedianTime(n + 1)')
      <3>1. n + 1 \in 1..Len(headers')
        BY <1>1, <1>5
      <3> QED BY <1>1, <1>5, <1>6, <3>1, MedianTimeFacts, MedianTimeFactsNext
    <2>2. MedianTime(n) < headers'[n + 1].time
      <3>1. headers'[n + 1].time = time
        BY <1>5 DEF new
      <3>2. MedianTime(n) \in {headers[h + 1].time : h \in LastOf(n)}
        BY <2>1 DEF IsMedian
      <3>3. \A h \in LastOf(n) : headers[h + 1].time \in Nat
        <4>1. \A h \in LastOf(n) : h + 1 \in 1..Len(headers)
          BY <1>1, <1>len DEF LastOf
        <4> QED BY <1>1, <4>1, HeaderFacts
      <3>4. MedianTime(n) \in Nat
        BY <3>2, <3>3
      <3>5. time \in Nat
        BY NumbersAssumption
      <3> QED BY <1>2, <3>1, <3>4, <3>5
    <2>3. MedianTime(n) <= MedianTime(n + 1)'
      <3>1. n + 1 <= Len(headers')
        BY <1>1, <1>5
      <3> QED BY <1>1, <1>5, <1>6, <2>1, <2>2, <3>1, MedianGrows
    <2>4. MedianTime(n)' = MedianTime(n)
      BY <1>1, <1>7
    <2> QED BY <2>3, <2>4
  <1>9. IsRetarget(n) /\ net # "regtest" =>
          HeaderAt(n)'.bits = WantedBits(n)' /\ CompactToBig(HeaderAt(n)'.bits) > 0
    <2> SUFFICES ASSUME IsRetarget(n), net # "regtest"
                 PROVE  HeaderAt(n)'.bits = WantedBits(n)' /\ CompactToBig(HeaderAt(n)'.bits) > 0
      OBVIOUS
    <2>1. bits = WantedBits(n)
      BY <1>2 DEF CheckDifficulty
    <2>2. HeaderAt(n)' = new /\ new.bits = bits
      BY <1>5 DEF HeaderAt, new
    <2>3. WantedBits(n)' = WantedBits(n)
      BY <1>1, <1>7
    <2> QED BY <1>2, <2>1, <2>2, <2>3
  <1>10. MedianNeverFalls'
    <2> SUFFICES ASSUME NEW k \in 1..n PROVE MedianTime(k)' <= MedianTime(k + 1)'
      BY <1>1, <1>5 DEF MedianNeverFalls
    <2>1. CASE k = n
      BY <1>8, <2>1
    <2>2. CASE k # n
      <3>1. k \in 1..(n - 1)
        BY <1>1, <2>2
      <3> QED BY <1>7, <3>1
    <2> QED BY <2>1, <2>2
  <1>11. Retargeted'
    <2> SUFFICES ASSUME NEW h \in 1..n, IsRetarget(h), net # "regtest"
                 PROVE  HeaderAt(h)'.bits = WantedBits(h)' /\ CompactToBig(HeaderAt(h)'.bits) > 0
      BY <1>1, <1>2, <1>5 DEF Retargeted, Retargets, Target, IsRetarget
    <2>1. CASE h = n
      BY <1>9, <2>1
    <2>2. CASE h # n
      <3>1. h \in 1..(n - 1)
        BY <1>1, <2>2
      <3> QED BY <1>7, <3>1
    <2> QED BY <2>1, <2>2
  <1> QED BY <1>1, <1>2, <1>5, <1>10, <1>11 DEF RulesInv, ChainTyped

\* The lower part of a chain keeps what is said of it.
LEMMA PartKeeps ==
  ASSUME RulesInv, net' = net, NEW n \in 1..Len(headers),
         headers' \in Seq(Header), Len(headers') = n, \A i \in 1..n : headers'[i] = headers[i]
  PROVE  RulesInv'
  <1>1. headers \in Seq(Header) /\ net \in Networks /\ n \in Nat /\ n > 0
    BY DEF RulesInv, ChainTyped
  <1>2. /\ \A k \in 1..(n - 1) : MedianTime(k)' <= MedianTime(k + 1)'
        /\ \A k \in 1..(n - 1) : IsRetarget(k) /\ net # "regtest" =>
             HeaderAt(k)'.bits = WantedBits(k)' /\ CompactToBig(HeaderAt(k)'.bits) > 0
    <2>1. n <= Len(headers')
      BY <1>1
    <2> QED BY <2>1, BelowStays
  <1>3. MedianNeverFalls'
    BY <1>2 DEF MedianNeverFalls
  <1>4. Retargeted'
    BY <1>2 DEF Retargeted, Retargets, Target, IsRetarget
  <1> QED BY <1>1, <1>3, <1>4 DEF RulesInv, ChainTyped

\* A rewind leaves the headers at and below the fork.
LEMMA TruncateKeeps ==
  ASSUME RulesInv, NEW h \in 0..(Len(headers) - 2), Truncate(h)
  PROVE  RulesInv'
  <1> DEFINE n == h + 1
  <1>1. headers \in Seq(Header)
    BY DEF RulesInv, ChainTyped
  <1>2. headers' = SubSeq(headers, 1, n) /\ net' = net
    BY DEF Truncate
  <1>3. n \in 1..Len(headers) /\ n \in Nat
    BY <1>1
  <1> HIDE DEF n
  <1>4. /\ headers' \in Seq(Header) /\ Len(headers') = n
        /\ \A i \in 1..n : headers'[i] = headers[i]
    <2> HIDE DEF Header
    <2> QED BY <1>1, <1>2, <1>3
  <1> QED BY <1>2, <1>3, <1>4, PartKeeps

\* Whatever follows.
LEMMA RulesStep == RulesInv /\ [RulesNext]_rulesVars => RulesInv'
  <1> SUFFICES ASSUME RulesInv, [RulesNext]_rulesVars PROVE RulesInv'
    OBVIOUS
  <1>1. CASE UNCHANGED rulesVars
    <2>1. headers \in Seq(Header) /\ Len(headers) \in 1..Len(headers)
      BY DEF RulesInv, ChainTyped
    <2>2. headers' = headers /\ net' = net
      BY <1>1 DEF rulesVars
    <2>3. PICK n \in 1..Len(headers) : n = Len(headers)
      BY <2>1
    <2> QED BY <2>1, <2>2, <2>3, PartKeeps
  <1>2. ASSUME NEW time \in Times, NEW bits \in Offered, Add(time, bits) PROVE RulesInv'
    BY <1>2, AddKeeps
  <1>3. ASSUME NEW time \in Times, IsRetarget(Len(headers)), Add(time, WantedBits(Len(headers)))
        PROVE  RulesInv'
    BY <1>3, AddKeeps
  <1>4. ASSUME NEW h \in 0..(Len(headers) - 2), Truncate(h) PROVE RulesInv'
    BY <1>4, TruncateKeeps
  <1> QED BY <1>1, <1>2, <1>3, <1>4 DEF RulesNext

\* The retargets of a chain are bounded and do not creep.
LEMMA RulesSound == RulesInv => AcceptedHeadersSound
  <1> SUFFICES ASSUME RulesInv PROVE RetargetsBounded /\ NoCreep
    BY DEF AcceptedHeadersSound, RulesInv
  <1>1. ASSUME NEW h \in Retargets
        PROVE  /\ Target(h) <= PowLimit
               /\ Target(h) <= 4 * Target(Reference(h))
               /\ 4 * (Target(h) + Unit(HeaderAt(h).bits)) >
                    IF Target(Reference(h)) > PowLimit THEN PowLimit ELSE Target(Reference(h))
               /\ HeaderAt(h - 1).time - HeaderAt(h - Interval).time >= Timespan
                  /\ Target(Reference(h)) <= CompactToBig(PowLimitBits)
                    => Target(h) >= Target(Reference(h))
    <2>1. h \in 1..Len(headers) /\ IsRetarget(h) /\ ChainTyped
      BY DEF Retargets, RulesInv, ChainTyped
    <2>2. /\ HeaderAt(h).bits = WantedBits(h) /\ CompactToBig(WantedBits(h)) > 0
          /\ Target(h) = CompactToBig(WantedBits(h))
      BY DEF RulesInv, Retargeted, Target
    <2> QED BY <2>1, <2>2, WantedFacts
  <1> QED BY <1>1 DEF RetargetsBounded, NoCreep

\* Whatever times headers are offered with, whatever exceptions of the test
\* networks they use and however often the chain is cut and grows again: the
\* median time never falls, a retarget moves the target by a factor of four at
\* most but for rounding, and a period that took its time makes no block harder
\* (Chain.Add, medianTime, nextRetargetBits, bigToCompact, checkDifficulty).
THEOREM HeadersAreSound == RulesSpec => []AcceptedHeadersSound
  BY RulesStart, RulesStep, RulesSound, PTL DEF RulesSpec

=============================================================================
