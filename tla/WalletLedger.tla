--------------------------- MODULE WalletLedger ----------------------------
(***************************************************************************)
(* The wallet's transactions (internal/sync/wallet.go) and the rescan of   *)
(* addresses watched late (rescan.go): what the scan of blocks, relayed    *)
(* and sent transactions, newly derived addresses, forks and restarts do   *)
(* to the tables transactions, pending, matches and rescans.               *)
(*                                                                         *)
(* The wallet state in memory (outpoints, coins, pendingSpends, firstPaid) *)
(* is rebuilt by loadWalletLocked under walletMu with every change of the  *)
(* tables, so it is written as operators on the tables; processBlock works *)
(* on the state from before the block, and so does ProcessBlock here.      *)
(*                                                                         *)
(* Blocks are those of verified headers (see ChainSync), numbered from 1,  *)
(* and filters match exactly: a filter false positive only downloads a     *)
(* block without wallet transactions.                                      *)
(***************************************************************************)
EXTENDS Integers, Sequences, FiniteSets, SequencesExt, Keeping

CONSTANTS
  Txs,          \* transactions
  Outputs,      \* transaction outputs
  Creator,      \* transaction of an output
  Address,      \* address an output pays
  Spends,       \* outputs a transaction spends
  Addrs,        \* addresses of the wallet seed
  FirstAddrs,   \* those stored before the first scan
  Branches,     \* chains: sequences of blocks, each a set of transactions
  MaxPending,   \* bound: pending transactions
  MaxRestarts,  \* bound: restarts
  MaxReorgs     \* bound: reorganisations

ASSUME DataAssumption ==
  /\ Creator \in [Outputs -> Txs]
  /\ Spends \in [Txs -> SUBSET Outputs]
  /\ FirstAddrs \subseteq Addrs
  /\ \A br \in Branches : br \in Seq(SUBSET Txs)
  /\ MaxPending \in Nat /\ MaxRestarts \in Nat /\ MaxReorgs \in Nat

\* Consensus: a transaction is confirmed once on a chain.
ASSUME ConsensusAssumption ==
  \A br \in Branches : \A i, j \in 1..Len(br) : i # j => br[i] \cap br[j] = {}

VARIABLES
  branch,     \* the chain the headers follow
  tip,        \* header tip
  scanned,    \* highest filter row: FilterResumeHeight - 1
  confirmed,  \* table transactions: height, 0 for no row
  pending,    \* table pending, oldest first
  matches,    \* table matches: <<height, address>>
  stored,     \* table addresses
  rescans,    \* table rescans: fromHeight, 0 for no row
  watched,    \* scripts in memory
  pc,         \* where the sync loop is
  snapshot,   \* watchedScripts() of the filter being matched
  targets,    \* rescan targets: from, 0 for none
  jobs,       \* the queued rescans the targets were made from
  pos,        \* next height to rescan
  restarts, reorgs,
  paidBefore  \* history: first stored block paying an address as it was watched

chainVars == <<branch, tip, reorgs>>
tables == <<confirmed, pending, matches, stored, rescans>>
rescanVars == <<targets, jobs, pos>>
workVars == <<chainVars, scanned, tables, watched, pc, snapshot, rescanVars, restarts>>
ledgerVars == <<workVars, paidBefore>>

(***************************************************************************)
(* Wallet state derived from the tables                                    *)
(***************************************************************************)

IsConfirmed(t) == confirmed[t] > 0
IsPending(t) == \E i \in DOMAIN pending : pending[i] = t
Known(t) == IsConfirmed(t) \/ IsPending(t)

Conflict(t, u) == t # u /\ Spends[t] \cap Spends[u] # {}

\* outpoints: outputs of known transactions paying a watched script.
Outpoints == {o \in Outputs : Known(Creator[o]) /\ Address[o] \in watched}

\* coins: the outpoints no known transaction spends.
Coins == {o \in Outpoints : \A t \in Txs : Known(t) => o \notin Spends[t]}

\* describeTx: the transaction pays a watched script or spends an outpoint.
Relevant(t) ==
  \/ \E o \in Outputs : Creator[o] = t /\ Address[o] \in watched
  \/ Spends[t] \cap Outpoints # {}

\* pendingSpends: of several pending transactions spending an output the
\* map keeps the last one.
PendingSpender(o, t) ==
  \E i \in DOMAIN pending :
    /\ pending[i] = t
    /\ o \in Spends[t]
    /\ \A j \in (i + 1)..Len(pending) : o \notin Spends[pending[j]]

\* Heights of the stored blocks paying the address (firstPaid is the lowest).
PaidAt(a) == {confirmed[Creator[o]] : o \in {p \in Outputs : Address[p] = a}} \ {0}
IsFirstPaid(h, a) == h \in PaidAt(a) /\ \A g \in PaidAt(a) : h <= g

\* The block's filter holds the address: an output pays it, or an input
\* spends an output that does.
Touches(h, a) ==
  \E t \in branch[h] : \E o \in Outputs :
    Address[o] = a /\ (Creator[o] = t \/ o \in Spends[t])

Without(seq, S) == Keep(seq, Txs \ S)

(***************************************************************************)
(* Start                                                                   *)
(***************************************************************************)

NoRescan == [a \in Addrs |-> 0]

LedgerInit ==
  /\ branch \in Branches
  /\ tip = 0 /\ scanned = 0
  /\ confirmed = [t \in Txs |-> 0]
  /\ pending = << >>
  /\ matches = {}
  /\ stored = FirstAddrs
  /\ rescans = NoRescan
  /\ watched = FirstAddrs
  /\ pc = "idle"
  /\ snapshot = {}
  /\ targets = NoRescan /\ jobs = NoRescan /\ pos = 0
  /\ restarts = 0 /\ reorgs = 0
  /\ paidBefore = [a \in Addrs |-> 0]

(***************************************************************************)
(* Scan                                                                    *)
(***************************************************************************)

\* syncHeaders stores the next header.
Extend ==
  /\ pc = "idle"
  /\ tip < Len(branch)
  /\ tip' = tip + 1
  /\ UNCHANGED <<branch, reorgs, scanned, tables, watched, pc, snapshot, rescanVars, restarts>>

\* applyFilter takes its snapshot of the scripts to match.
TakeSnapshot ==
  /\ pc = "idle"
  /\ scanned < tip
  /\ snapshot' = watched
  /\ pc' = "match"
  /\ UNCHANGED <<chainVars, scanned, tables, watched, rescanVars, restarts>>

\* The pending transactions processBlock drops for a transaction of the
\* block: its conflicts, as pendingSpends knows them.
Rivals(t) == {p \in Txs : p # t /\ \E o \in Spends[t] : PendingSpender(o, p)}
Dropped(h) == UNION {Rivals(t) : t \in branch[h]}

\* The transactions processBlock stores.
Found(h) == {t \in branch[h] : Relevant(t)}

\* Mutant: a transaction the block confirms stays pending.
WritesKeepPending(h, done, gone) ==
  /\ confirmed' = [t \in Txs |-> IF t \in done THEN h ELSE confirmed[t]]
  /\ pending' = Without(pending, gone \ done)

\* The writes of processBlock: transactions stored, pending ones dropped.
Writes(h, done, gone) ==
  /\ confirmed' = [t \in Txs |-> IF t \in done THEN h ELSE confirmed[t]]
  /\ pending' = Without(pending, gone)

\* processBlock: store the relevant transactions of the block, drop pending
\* transactions they confirm or the block conflicts with.
ProcessBlock(h) == Writes(h, Found(h), Dropped(h) \cup Found(h))

\* t spends an output of u.
SpendsFrom(t, u) == \E o \in Spends[t] : Creator[o] = u

\* The process ends inside processBlock, which takes the transactions in their
\* order, one after those it spends from: it drops the conflicts of each,
\* stores it, and deletes it from pending.  The last one may still be there.
PartOfBlock(h) ==
  \E done \in SUBSET Found(h) : \E gone \in SUBSET (Dropped(h) \cup done) :
    /\ \A t \in done : \A u \in Found(h) : SpendsFrom(t, u) => u \in done
    /\ \A t \in done : Rivals(t) \subseteq gone
    /\ \A t \in done \ gone : \A u \in done : u # t => u \in gone /\ ~SpendsFrom(u, t)
    /\ Writes(h, done, gone)

\* SaveMatch, for each address of S found in block h.
SaveMatches(h, S) == matches' = matches \cup {<<h, a>> : a \in S}

\* The rest of applyFilter: the block is downloaded on a match, processed
\* with the scripts watched by then, and the matches are stored.
Hits == {a \in snapshot : Touches(scanned + 1, a)}
ApplyFilter ==
  /\ pc = "match"
  /\ IF Hits # {} THEN ProcessBlock(scanned + 1) ELSE UNCHANGED <<confirmed, pending>>
  /\ SaveMatches(scanned + 1, Hits)
  /\ snapshot' = {}
  /\ pc' = "store"
  /\ UNCHANGED <<chainVars, scanned, stored, rescans, watched, rescanVars, restarts>>

\* SaveFilters.
StoreFilter ==
  /\ pc = "store"
  /\ scanned' = scanned + 1
  /\ pc' = "idle"
  /\ UNCHANGED <<chainVars, tables, watched, snapshot, rescanVars, restarts>>

\* Mutant: the filter rows above the fork stay.
ScannedKept(fork) == scanned

\* DeleteFiltersFrom.
ScannedUpTo(fork) == IF scanned < fork THEN scanned ELSE fork

\* extendHeaders rewinds a fork: rows above it go, then the branch's first
\* new header is stored.
Reorg(br) ==
  /\ pc = "idle"
  /\ reorgs < MaxReorgs
  /\ \E fork \in 0..(tip - 1) :
       /\ fork < Len(br)
       /\ SubSeq(br, 1, fork) = SubSeq(branch, 1, fork)
       /\ br[fork + 1] # branch[fork + 1]
       /\ branch' = br
       /\ tip' = fork + 1
       /\ scanned' = ScannedUpTo(fork)
       /\ matches' = {m \in matches : m[1] <= fork}
       /\ confirmed' = [t \in Txs |-> IF confirmed[t] <= fork THEN confirmed[t] ELSE 0]
  /\ reorgs' = reorgs + 1
  /\ UNCHANGED <<pending, stored, rescans, watched, pc, snapshot, rescanVars, restarts>>

(***************************************************************************)
(* Unconfirmed transactions                                                *)
(***************************************************************************)

\* Where blocks and the pending set leave t: its inputs were created in the
\* chain or are pending, and no scanned block holds it or a conflict.
Spendable(t) ==
  /\ \A o \in Spends[t] : (\E h \in 1..tip : Creator[o] \in branch[h]) \/ IsPending(Creator[o])
  /\ \A h \in 1..scanned : \A u \in branch[h] : u # t /\ ~Conflict(t, u)

\* A bound.
MayBePending(t) == Len(pending) < MaxPending

\* SavePending: the newest is the last.
SavePending(t) == pending' = Append(pending, t)

\* acceptPendingTx, at any time in a peer's goroutine: t is in the mempool of
\* a peer.
AcceptPendingTx(t) ==
  /\ MayBePending(t)
  /\ Spendable(t)
  /\ ~Known(t)
  /\ Relevant(t)
  /\ SavePending(t)
  /\ UNCHANGED <<chainVars, scanned, confirmed, matches, stored, rescans, watched, pc, snapshot, rescanVars, restarts>>

\* Broadcast of a new payment planned from the wallet's coins: they may have
\* been spent since.
Broadcast(t) ==
  /\ MayBePending(t)
  /\ ~Known(t)
  /\ \A h \in 1..tip : t \notin branch[h]
  /\ Spends[t] # {} /\ Spends[t] \subseteq Outpoints
  /\ SavePending(t)
  /\ UNCHANGED <<chainVars, scanned, confirmed, matches, stored, rescans, watched, pc, snapshot, rescanVars, restarts>>

\* DeletePendingBefore: the k oldest go.
DeletePendingBefore(k) == pending' = SubSeq(pending, k + 1, Len(pending))

\* expirePending, as a round begins.
ExpirePending ==
  /\ pc = "idle"
  /\ \E k \in 1..Len(pending) : DeletePendingBefore(k)
  /\ UNCHANGED <<chainVars, scanned, confirmed, matches, stored, rescans, watched, pc, snapshot, rescanVars, restarts>>

(***************************************************************************)
(* Addresses                                                               *)
(***************************************************************************)

\* Mutant: an address paid before it was watched is not queued.
QueueNone(a) == UNCHANGED rescans

\* Store.AddRescan for an address paid in a stored block: from the first one.
QueueRescan(a) ==
  IF PaidAt(a) = {} THEN UNCHANGED rescans
  ELSE \E h \in PaidAt(a) :
         /\ IsFirstPaid(h, a)
         /\ rescans' = [rescans EXCEPT ![a] = IF @ = 0 \/ h < @ THEN h ELSE @]

\* Watch, called by the user interface right after it stored the address.
Watch(a) ==
  /\ a \notin watched
  /\ stored' = stored \cup {a}
  /\ watched' = watched \cup {a}
  /\ QueueRescan(a)
  /\ UNCHANGED <<chainVars, scanned, confirmed, pending, matches, pc, snapshot, rescanVars, restarts>>

(***************************************************************************)
(* Rescan                                                                  *)
(***************************************************************************)

\* rescanTargets and the start of rescan: addresses never paid in a stored
\* block, or paid above the synced filters, leave the queue at once.
RescanFrom(a, h) ==
  \E first \in PaidAt(a) :
    /\ IsFirstPaid(first, a)
    /\ h = IF rescans[a] > first THEN rescans[a] ELSE first
    /\ h <= scanned

\* Mutant: the queue is emptied as the rescan starts.
QueuedNone(due) == NoRescan

\* The queue while the rescan of the due addresses runs: their rows.
QueuedFor(due) == [a \in Addrs |-> IF a \in due THEN rescans[a] ELSE 0]

StartRescan ==
  LET due == {a \in Addrs : rescans[a] > 0 /\ a \in watched /\
                              \E h \in 1..scanned : RescanFrom(a, h)} IN
  /\ pc = "idle"
  /\ scanned = tip
  /\ \E a \in Addrs : rescans[a] > 0
  /\ jobs' = [a \in Addrs |-> IF a \in due THEN rescans[a] ELSE 0]
  /\ rescans' = QueuedFor(due)
  /\ targets' = [a \in Addrs |->
                   IF a \in due THEN CHOOSE h \in 1..scanned : RescanFrom(a, h) ELSE 0]
  /\ IF due = {}
       THEN UNCHANGED <<pos, pc>>
       ELSE /\ \E a \in due :
                 /\ \A b \in due : targets'[a] <= targets'[b]
                 /\ pos' = targets'[a]
            /\ pc' = "rescan"
  /\ UNCHANGED <<chainVars, scanned, confirmed, pending, matches, stored, watched, snapshot, restarts>>

\* rescanBlock: targets reached that the block was not matched for before.
Fresh == {a \in Addrs : /\ targets[a] > 0 /\ targets[a] <= pos
                        /\ Touches(pos, a)
                        /\ <<pos, a>> \notin matches}
RescanBlock ==
  /\ pc = "rescan"
  /\ pos <= scanned
  /\ IF Fresh # {} THEN ProcessBlock(pos) ELSE UNCHANGED <<confirmed, pending>>
  /\ SaveMatches(pos, Fresh)
  /\ pos' = pos + 1
  /\ UNCHANGED <<chainVars, scanned, stored, rescans, watched, pc, snapshot, targets, jobs, restarts>>

\* Store.DeleteRescan of every target: a lower height queued meanwhile stays.
WithoutJobs == [a \in Addrs |-> IF jobs[a] > 0 /\ rescans[a] >= jobs[a] THEN 0 ELSE rescans[a]]

\* The last block is done, and the rescan with it.
FinishRescan ==
  /\ pc = "rescan"
  /\ pos > scanned
  /\ rescans' = WithoutJobs
  /\ targets' = NoRescan /\ jobs' = NoRescan /\ pos' = 0
  /\ pc' = "idle"
  /\ UNCHANGED <<chainVars, scanned, confirmed, pending, matches, stored, watched, snapshot, restarts>>

(***************************************************************************)
(* Restart                                                                 *)
(***************************************************************************)

\* The process ends, inside processBlock too, and starts again: Init watches
\* every stored address.
Restart ==
  /\ restarts < MaxRestarts
  /\ \/ UNCHANGED <<confirmed, pending>>
     \/ pc = "match" /\ Hits # {} /\ PartOfBlock(scanned + 1)
     \/ pc = "rescan" /\ pos <= scanned /\ Fresh # {} /\ PartOfBlock(pos)
  /\ restarts' = restarts + 1
  /\ watched' = stored
  /\ pc' = "idle"
  /\ snapshot' = {}
  /\ targets' = NoRescan /\ jobs' = NoRescan /\ pos' = 0
  /\ UNCHANGED <<chainVars, scanned, matches, stored, rescans>>

LedgerLoop ==
  \/ Extend \/ TakeSnapshot \/ ApplyFilter \/ StoreFilter
  \/ StartRescan \/ RescanBlock \/ FinishRescan

LedgerMoves ==
  \/ LedgerLoop
  \/ \E br \in Branches : Reorg(br)
  \/ \E t \in Txs : AcceptPendingTx(t) \/ Broadcast(t)
  \/ ExpirePending
  \/ \E a \in Addrs : Watch(a)
  \/ Restart

\* What is remembered of each address: the block its first payment was known
\* from when it was watched, for as long as that payment stays stored there.
Remembered(a) ==
  IF a \in watched' \ watched
    THEN IF PaidAt(a) = {} THEN 0 ELSE CHOOSE h \in PaidAt(a) : IsFirstPaid(h, a)
    ELSE IF paidBefore[a] \in PaidAt(a)' THEN paidBefore[a] ELSE 0

LedgerNext ==
  /\ LedgerMoves
  /\ paidBefore' = [a \in Addrs |-> Remembered(a)]

\* The sync loop runs rounds for ever; nothing else has to happen.
LedgerSpec == LedgerInit /\ [][LedgerNext]_ledgerVars /\ WF_workVars(LedgerLoop)

(***************************************************************************)
(* Properties                                                              *)
(***************************************************************************)

WorkTypes ==
  /\ branch \in Branches
  /\ tip \in 0..Len(branch)
  /\ scanned \in 0..tip
  /\ confirmed \in [Txs -> 0..tip]
  /\ pending \in Seq(Txs) /\ Len(pending) <= MaxPending
  /\ matches \subseteq (1..tip) \X Addrs
  /\ watched \subseteq stored /\ stored \subseteq Addrs
  /\ rescans \in [Addrs -> Nat]
  /\ snapshot \subseteq watched
  /\ pc \in {"idle", "match", "store", "rescan"}
  /\ targets \in [Addrs -> 0..tip] /\ jobs \in [Addrs -> Nat]
  /\ pos \in 0..(tip + 1)
  /\ restarts \in 0..MaxRestarts /\ reorgs \in 0..MaxReorgs

\* Every variable keeps its type; the queue and the cursor of the rescan hold
\* heights, and only addresses of the wallet are watched.
LedgerTypes == WorkTypes /\ paidBefore \in [Addrs -> 0..tip]

\* The longest chain.
MaxHeight == Max({Len(br) : br \in Branches})

\* The block at h was searched and concerns the address, and no match tells.
Unmatched(h, a) == h <= scanned /\ <<h, a>> \notin matches /\ Touches(h, a)

SpentAt(o, h) == h \in 1..scanned /\ \E t \in branch[h] : o \in Spends[t]

\* The rescan of the address still has to reach height h.
RescanDue(a, h) ==
  \/ rescans[a] \in 1..h /\ pc # "rescan"
  \/ rescans[a] \in 1..h /\ pc = "rescan" /\ (targets[a] = 0 \/ rescans[a] < jobs[a])
  \/ pc = "rescan" /\ targets[a] \in 1..h /\ pos <= h

\* A coin of a stored transaction that a scanned block spends is not offered
\* as spendable, unless a rescan of its address that covers the spend is
\* queued or under way: "their spends were not looked for in the blocks
\* scanned before" (Watch, rescan).  Blocks matched before the payment was
\* known are skipped, which breaks it.
NoPhantomCoin ==
  \A o \in Coins : IsConfirmed(Creator[o]) =>
    \A h \in 1..scanned : SpentAt(o, h) => RescanDue(Address[o], h)

\* The payments of block h to the address are stored and no longer pending.
PaymentsStored(a, h) ==
  \A o \in Outputs : Address[o] = a /\ Creator[o] \in branch[h] =>
    confirmed[Creator[o]] = h /\ ~IsPending(Creator[o])

\* An address found paid as it was watched is followed from that block on: in
\* every scanned block the filter was matched for it and the payments to it
\* are stored and left the pending set, or the rescan is still to reach the
\* block, whatever restarts, forks, blocks and other addresses came in between
\* (Watch, AddRescan, rescan, DeleteRescan).  Blocks below are not claimed, nor
\* that what the block spends is seen (NoPhantomCoin).
LateAddressFollowed ==
  \A a \in Addrs : paidBefore[a] > 0 =>
    \A h \in paidBefore[a]..scanned : Touches(h, a) =>
      RescanDue(a, h) \/ (<<h, a>> \in matches /\ PaymentsStored(a, h))

\* t, in block h, pays one of the first addresses or spends what a lower block
\* paid them.
FromFirst(t, h) ==
  /\ t \in branch[h]
  /\ \/ \E o \in Outputs : Creator[o] = t /\ Address[o] \in FirstAddrs
     \/ \E o \in Spends[t] : /\ Address[o] \in FirstAddrs
                             /\ \E g \in 1..(h - 1) : Creator[o] \in branch[g]

\* For the addresses watched from the start no rescan is needed: whatever
\* restarts, forks, rescans and payments come in between, the ledger holds
\* every transaction of a scanned block that pays them or spends from them,
\* at its height and no longer as pending; it holds nothing that is not in the
\* chain; and no coin of theirs is offered that a later block spent
\* (applyFilter, processBlock, storeFilters, rewindTo, loadWalletLocked).
FirstAddressesSettled ==
  /\ \A t \in Txs : IsConfirmed(t) => t \in branch[confirmed[t]]
  /\ \A h \in 1..scanned : \A t \in branch[h] :
       FromFirst(t, h) => confirmed[t] = h /\ ~IsPending(t)
  /\ \A o \in Coins : Address[o] \in FirstAddrs =>
       \A g, h \in 1..scanned : Creator[o] \in branch[g] /\ g < h => ~SpentAt(o, h)

\* A rescan in the queue ends up at every scanned block that concerns its
\* address, however often the process ends or the chain forks while it runs,
\* and whatever is queued meanwhile; only a fork can take the block away
\* (rescan, DeleteRescan).
RescanArrives ==
  \A a \in Addrs \ FirstAddrs : \A h \in 1..MaxHeight :
    rescans[a] \in 1..h /\ Unmatched(h, a) ~> ~Unmatched(h, a)
============================================================================
