----------------------------- MODULE ChainSync -----------------------------
(***************************************************************************)
(* One sync round of the wallet (internal/sync/sync.go, filters.go and     *)
(* syncOnce in manager.go): header download with the rewind of a fork, the *)
(* filter header anchor, the filter download, and what each of them writes *)
(* to the wallet database (internal/storage/sync.go), including restarts   *)
(* between any two writes.                                                 *)
(*                                                                         *)
(* Data.  A block stands for its header and its hash.  The chained filter  *)
(* header of a block commits to every filter below it, so the one honest   *)
(* peers report identifies the block and is written as the block; the null *)
(* hash below genesis is None.  Filter peers are honest here.  A table     *)
(* keyed by height is a function from Heights, with None for no row.       *)
(***************************************************************************)
EXTENDS Integers, Sequences

CONSTANTS
  Blocks,         \* every block header any peer may serve
  Genesis,        \* params.GenesisBlock
  None,           \* no block, no row, the null hash
  Parent,         \* PrevBlock of a block
  Valid,          \* headers that pass the checks of Chain.Add
  Old,            \* headers dated before the wallet seed time
  Txs,            \* wallet transactions
  WalletTxs,      \* the wallet transactions each block holds
  Branches,       \* header chains peers serve, genesis first
  Best,           \* the branch every peer serves once trouble is used up
  MaxHeight,      \* bound: length of the longest branch
  SafetyGap,      \* safetyGap
  HeaderBatch,    \* headerBatch
  FilterHeaderBatch, \* filterHeaderBatch
  FilterBatch,    \* filterBatch
  RewindFaults,   \* faults inside rewindTo: "crash", or the delete that fails
  MaxTrouble      \* bound: crashes, failed requests and foreign answers

Heights == 0..MaxHeight

\* The deletes of rewindTo, in their order.
Rewinding == {"delHeaders", "delFilters", "delMatches", "delTxs"}

ASSUME BlocksAssumption ==
  /\ Genesis \in Blocks
  /\ None \notin Blocks
  /\ Valid \subseteq Blocks
  /\ Genesis \in Valid
  /\ Parent \in [Blocks -> Blocks \cup {None}]
  /\ Parent[Genesis] = None
  /\ WalletTxs \in [Blocks -> SUBSET Txs]
ASSUME BranchesAssumption ==
  /\ Best \in Branches
  /\ \A br \in Branches :
       /\ br \in Seq(Blocks)
       /\ Len(br) > 0
       /\ Len(br) <= MaxHeight + 1
       /\ br[1] = Genesis
       /\ \A i \in 2..Len(br) : Parent[br[i]] = br[i - 1]
       \* consensus: a transaction is confirmed once on a chain
       /\ \A i, j \in 1..Len(br) :
            i # j => WalletTxs[br[i]] \cap WalletTxs[br[j]] = {}
ASSUME BoundsAssumption ==
  /\ MaxHeight \in Nat
  /\ SafetyGap \in Nat \ {0}
  /\ HeaderBatch \in Nat \ {0}
  /\ FilterHeaderBatch \in Nat \ {0}
  /\ FilterBatch \in Nat \ {0}
  /\ RewindFaults \subseteq {"crash"} \cup Rewinding
  /\ MaxTrouble \in Nat

VARIABLES
  chain,       \* Chain.headers in memory: height -> block
  tip,         \* Chain.Height()
  hdrRows,     \* table headers
  filRows,     \* table cfilters
  matchRows,   \* table matches (one watched address)
  txRows,      \* table transactions: txid -> height and block
  filterStart, \* filterStart
  anchor,      \* anchorPrev once anchorSet, None before
  anchorTried, \* anchorTried
  pc,          \* where the sync loop is
  batch,       \* headers received and not appended yet
  from,        \* first height of the filter batch being accepted
  next,        \* next height to accept
  end,         \* last height of the cfheaders batch
  roundOK,     \* roundOK: the last round succeeded
  trouble,     \* adverse events left
  interrupted  \* history: a rewind was left before its last delete

memory == <<chain, tip, filterStart, anchor, anchorTried>>
tables == <<hdrRows, filRows, matchRows, txRows>>
cursor == <<from, next, end>>
sync == <<memory, tables, cursor, pc, batch, roundOK, trouble>>
vars == <<sync, interrupted>>

Places == {"idle", "headers", "append", "start", "hashes", "filters"}
            \cup Rewinding

(***************************************************************************)
(* Helpers                                                                 *)
(***************************************************************************)

\* Rows or headers up to height h: Chain.Truncate, and every
\* "delete from ... where height > h".
UpTo(table, h) == [i \in Heights |-> IF i <= h THEN table[i] ELSE None]

\* Mutant: a block not in the chain has height 0, as a map read without ok.
HeightOfZero(b) ==
  IF \E h \in 0..tip : chain[h] = b
    THEN CHOOSE h \in 0..tip : chain[h] = b
    ELSE 0

\* Chain.HeightOf: the height of the block, -1 when it is not in the chain.
HeightOf(b) ==
  IF \E h \in 0..tip : chain[h] = b
    THEN CHOOSE h \in 0..tip : chain[h] = b
    ELSE -1

\* firstHeaderAtOrAfter: the first block not dated before the seed, one past
\* the tip t when there is none.
IsFirst(first, c, t) ==
  /\ first \in 0..(t + 1)
  /\ first <= t => c[first] \notin Old
  /\ \A h \in 0..(first - 1) : c[h] \in Old

\* filterStartHeight, as a relation.
IsFilterStart(s, c, t) ==
  \E first \in 0..(t + 1) :
    /\ IsFirst(first, c, t)
    /\ s = IF first > SafetyGap THEN first - SafetyGap ELSE 0

\* Store.FilterResumeHeight(start), as a relation: one past the highest
\* filter row at or above start, start without one.
IsResume(r, start) ==
  \/ /\ r = start
     /\ \A h \in Heights : h >= start => filRows[h] = None
  \/ /\ r - 1 \in Heights
     /\ r - 1 >= start
     /\ filRows[r - 1] # None
     /\ \A h \in Heights : h >= r => filRows[h] = None

Smaller(a, b) == IF a < b THEN a ELSE b

\* Init accepts the stored headers: no height missing, each linked to the
\* one below (AppendTrusted).
Loads(rows, t) ==
  /\ t \in Heights
  /\ rows[0] = Genesis
  /\ \A h \in 1..t : rows[h] # None /\ Parent[rows[h]] = rows[h - 1]
  /\ \A h \in Heights : h > t => rows[h] = None

Row(h) == [height |-> h, block |-> chain[h]]
NoTx == [height |-> -1, block |-> None]

(***************************************************************************)
(* Start                                                                   *)
(***************************************************************************)

\* A new wallet: Init adds and stores genesis.
Init ==
  /\ chain = [h \in Heights |-> IF h = 0 THEN Genesis ELSE None]
  /\ tip = 0
  /\ hdrRows = chain
  /\ filRows = [h \in Heights |-> None]
  /\ matchRows = [h \in Heights |-> None]
  /\ txRows = [t \in Txs |-> NoTx]
  /\ filterStart \in Heights /\ IsFilterStart(filterStart, chain, tip)
  /\ anchor = None
  /\ anchorTried = FALSE
  /\ pc = "idle"
  /\ batch = << >>
  /\ from = 0 /\ next = 0 /\ end = 0
  /\ roundOK = FALSE
  /\ trouble = MaxTrouble
  /\ interrupted = FALSE

\* syncLoop starts the next round.
BeginRound ==
  /\ pc = "idle"
  /\ pc' = "headers"
  /\ UNCHANGED <<memory, tables, cursor, batch, roundOK, trouble>>

EndRound(ok) ==
  /\ pc' = "idle"
  /\ roundOK' = ok
  /\ from' = 0 /\ next' = 0 /\ end' = 0
  /\ batch' = << >>

Trouble == trouble > 0 /\ trouble' = trouble - 1

(***************************************************************************)
(* Headers                                                                 *)
(***************************************************************************)

\* The answer of a peer on branch br that knows our chain up to height f.
Answer(br, f) ==
  SubSeq(br, f + 2, Smaller(Len(br), f + 1 + HeaderBatch))

\* Mutant: off by one.
KnownForkOffByOne(fork) == fork >= -1

\* Mutant: only a batch that continues from the tip is taken.
KnownForkAtTip(fork) == fork = tip

\* extendHeaders continues only from a block of the chain.
KnownFork(fork) == fork >= 0

\* syncHeaders and the first half of extendHeaders: take the answer and,
\* when it does not continue from the tip, truncate the chain in memory
\* (the first step of rewindTo).
TakeHeaders(br, f) ==
  LET fork == HeightOf(br[f + 1]) IN
  /\ pc = "headers"
  /\ IF Answer(br, f) = << >>
       THEN /\ pc' = "start"
            /\ UNCHANGED <<memory, tables, cursor, batch, roundOK>>
       ELSE IF ~KnownFork(fork)
       THEN EndRound(FALSE) /\ UNCHANGED <<memory, tables>>
       ELSE /\ batch' = Answer(br, f)
            /\ chain' = UpTo(chain, fork)
            /\ tip' = fork
            /\ pc' = IF fork < tip THEN "delHeaders" ELSE "append"
            /\ UNCHANGED <<filterStart, anchor, anchorTried, tables, cursor, roundOK>>

\* The highest block of our chain the branch contains: where a peer that
\* knows only this branch continues from, given our block locator.
IsFork(br, f) ==
  /\ f \in 0..(Len(br) - 1)
  /\ HeightOf(br[f + 1]) # -1
  /\ \A g \in (f + 1)..(Len(br) - 1) : HeightOf(br[g + 1]) = -1

\* A peer on the best branch answers the locator.
ReceiveHeaders ==
  /\ \E f \in 0..(Len(Best) - 1) : IsFork(Best, f) /\ TakeHeaders(Best, f)
  /\ UNCHANGED trouble

\* A peer on any branch answers from any height: a stale branch, an answer
\* to an earlier request that came late, or headers we never asked for.
ReceiveOtherHeaders ==
  /\ \E br \in Branches : \E f \in 0..(Len(br) - 1) : TakeHeaders(br, f)
  /\ Trouble

\* Mutant: the stored headers are not deleted.
DeleteHeadersKept ==
  /\ pc = "delHeaders"
  /\ pc' = "delFilters"
  /\ UNCHANGED <<memory, tables, cursor, batch, roundOK, trouble>>

DeleteHeadersFrom ==
  /\ pc = "delHeaders"
  /\ hdrRows' = UpTo(hdrRows, tip)
  /\ pc' = "delFilters"
  /\ UNCHANGED <<memory, filRows, matchRows, txRows, cursor, batch, roundOK, trouble>>

\* Mutant: off by one, the first orphaned row stays.
DeleteFiltersAbove ==
  /\ pc = "delFilters"
  /\ filRows' = UpTo(filRows, tip + 1)
  /\ pc' = "delMatches"
  /\ UNCHANGED <<memory, hdrRows, matchRows, txRows, cursor, batch, roundOK, trouble>>

DeleteFiltersFrom ==
  /\ pc = "delFilters"
  /\ filRows' = UpTo(filRows, tip)
  /\ pc' = "delMatches"
  /\ UNCHANGED <<memory, hdrRows, matchRows, txRows, cursor, batch, roundOK, trouble>>

DeleteMatchesFrom ==
  /\ pc = "delMatches"
  /\ matchRows' = UpTo(matchRows, tip)
  /\ pc' = "delTxs"
  /\ UNCHANGED <<memory, hdrRows, filRows, txRows, cursor, batch, roundOK, trouble>>

TxsUpTo(h) == [t \in Txs |-> IF txRows[t].height <= h THEN txRows[t] ELSE NoTx]

\* Mutant: off by one, transactions of the first orphaned block stay.
DeleteTransactionsAbove ==
  /\ pc = "delTxs"
  /\ txRows' = TxsUpTo(tip + 1)
  /\ pc' = "append"
  /\ UNCHANGED <<memory, hdrRows, filRows, matchRows, cursor, batch, roundOK, trouble>>

\* Mutant: off by one, transactions of the fork block are dropped too.
DeleteTransactionsAtFork ==
  /\ pc = "delTxs"
  /\ txRows' = TxsUpTo(tip - 1)
  /\ pc' = "append"
  /\ UNCHANGED <<memory, hdrRows, filRows, matchRows, cursor, batch, roundOK, trouble>>

DeleteTransactionsFrom ==
  /\ pc = "delTxs"
  /\ txRows' = TxsUpTo(tip)
  /\ pc' = "append"
  /\ UNCHANGED <<memory, hdrRows, filRows, matchRows, cursor, batch, roundOK, trouble>>

\* How many headers of the batch Chain.Add accepts: those before the first
\* invalid one.
IsAccepted(n, hs) ==
  /\ n \in 0..Len(hs)
  /\ \A i \in 1..n : hs[i] \in Valid
  /\ n < Len(hs) => hs[n + 1] \notin Valid

\* The first n headers of the batch above the tip: in the chain, and in the
\* table, where rows at the same heights are replaced (SaveHeaders).
Appended(table, n) ==
  [h \in Heights |-> IF h > tip /\ h <= tip + n THEN batch[h - tip] ELSE table[h]]

\* The rest of extendHeaders: append the valid headers, store them in one
\* transaction, and go on, stop at a short batch, or fail on an invalid one.
ExtendHeaders ==
  /\ pc = "append"
  /\ \E n \in 0..Len(batch) :
       /\ IsAccepted(n, batch)
       /\ chain' = Appended(chain, n)
       /\ hdrRows' = Appended(hdrRows, n)
       /\ tip' = tip + n
       /\ IF n < Len(batch)
            THEN EndRound(FALSE)
            ELSE /\ pc' = IF n < HeaderBatch THEN "start" ELSE "headers"
                 /\ batch' = << >>
                 /\ UNCHANGED <<cursor, roundOK>>
  /\ UNCHANGED <<filterStart, anchor, anchorTried, filRows, matchRows, txRows, trouble>>

(***************************************************************************)
(* Filters                                                                 *)
(***************************************************************************)

\* syncOnce after the headers: RefreshFilterStart, the majority proof of the
\* anchor when the download starts at the filter start and it was not tried
\* in this run, and the entry of syncFilters.
StartFilters(s, r, vote) ==
  LET proving == s > 0 /\ s <= tip /\ r = s /\ ~anchorTried IN
  /\ pc = "start"
  /\ IsFilterStart(s, chain, tip)
  /\ IsResume(r, s)
  /\ filterStart' = s
  /\ IF proving /\ vote = "split"
       THEN /\ EndRound(FALSE)
            /\ UNCHANGED <<anchor, anchorTried>>
       ELSE /\ anchorTried' = (anchorTried \/ proving)
            /\ anchor' = IF proving /\ vote = "majority" THEN chain[s - 1] ELSE anchor
            /\ IF r > tip
                 THEN EndRound(TRUE)
                 ELSE /\ pc' = "hashes"
                      /\ from' = r /\ next' = r
                      /\ UNCHANGED <<end, batch, roundOK>>
  /\ UNCHANGED <<chain, tip, tables>>

SyncFilters ==
  /\ \E s \in Heights : \E r \in 0..(MaxHeight + 1) : StartFilters(s, r, "majority")
  /\ UNCHANGED trouble

\* proveFilterAnchor got no vote, or no majority.
SyncFiltersUnproven ==
  /\ \E s \in Heights : \E r \in 0..(MaxHeight + 1) :
     \E vote \in {"none", "split"} : StartFilters(s, r, vote)
  /\ Trouble

\* Mutant: the filter start is treated as any other height.
LinkOKStoredOnly(h) == h = 0 \/ filRows[h - 1] = chain[h - 1]

\* checkFilterPrev, against the header below height h that honest peers
\* report: the anchor at the filter start, the stored row elsewhere.
LinkOK(h) ==
  IF h = filterStart /\ filterStart > 0
    THEN anchor = None \/ anchor = chain[h - 1]
    ELSE h = 0 \/ filRows[h - 1] = chain[h - 1]

\* filterHashes: every peer's cfheaders must link, or all are dropped.  The
\* first answer becomes the anchor when none was proven.
FilterHashes ==
  /\ pc = "hashes"
  /\ IF LinkOK(from)
       THEN /\ anchor' = IF from = filterStart /\ filterStart > 0 /\ anchor = None
                           THEN chain[from - 1] ELSE anchor
            /\ end' = Smaller(from + FilterHeaderBatch - 1, tip)
            /\ pc' = "filters"
            /\ UNCHANGED <<from, next, batch, roundOK>>
       ELSE EndRound(FALSE) /\ UNCHANGED anchor
  /\ UNCHANGED <<chain, tip, filterStart, anchorTried, tables, trouble>>

\* Last height of the syncFilterBatch in progress.
BatchEnd == Smaller(from + FilterBatch - 1, end)

\* processBlock stores one wallet transaction of the matched block.
SaveTransaction(t) ==
  /\ pc = "filters"
  /\ next <= BatchEnd
  /\ t \in WalletTxs[chain[next]]
  /\ txRows[t] # Row(next)
  /\ txRows' = [txRows EXCEPT ![t] = Row(next)]
  /\ UNCHANGED <<memory, hdrRows, filRows, matchRows, cursor, pc, batch, roundOK, trouble>>

\* Mutant: the block is accepted before its transactions are stored.
ApplyFilterFirst ==
  /\ pc = "filters"
  /\ next <= BatchEnd
  /\ next' = next + 1
  /\ UNCHANGED <<memory, tables, from, end, pc, batch, roundOK, trouble>>

\* applyFilter is done with the block at next: its transactions are stored,
\* and so is the match (insert or ignore).
ApplyFilter ==
  /\ pc = "filters"
  /\ next <= BatchEnd
  /\ \A t \in WalletTxs[chain[next]] : txRows[t] = Row(next)
  /\ matchRows' = [matchRows EXCEPT ![next] =
                     IF WalletTxs[chain[next]] # {} /\ @ = None THEN chain[next] ELSE @]
  /\ next' = next + 1
  /\ UNCHANGED <<memory, hdrRows, filRows, txRows, from, end, pc, batch, roundOK, trouble>>

\* Mutant: off by one, a row for the block not applied yet.
WithRowsOneMore == [h \in Heights |-> IF h >= from /\ h <= next THEN chain[h] ELSE filRows[h]]

\* The rows of the accepted filters from..next-1.
WithRows == [h \in Heights |-> IF h >= from /\ h < next THEN chain[h] ELSE filRows[h]]

\* storeFilters commits the rows of the batch; syncFilters goes on with the
\* next batch, asks for more filter hashes, or is done and the round with it.
StoreFilters ==
  /\ pc = "filters"
  /\ next > BatchEnd
  /\ filRows' = WithRows
  /\ IF next <= end
       THEN from' = next /\ UNCHANGED <<next, end, pc, batch, roundOK>>
       ELSE IF next <= tip
       THEN /\ pc' = "hashes" /\ from' = next
            /\ UNCHANGED <<next, end, batch, roundOK>>
       ELSE EndRound(TRUE)
  /\ UNCHANGED <<memory, hdrRows, matchRows, txRows, trouble>>

(***************************************************************************)
(* Failures                                                                *)
(***************************************************************************)

\* A request fails, or a database error ends the round.  Filter rows
\* accepted before a failed one are still stored.
RoundFails ==
  /\ pc \in {"headers", "append", "start", "hashes", "filters"}
  /\ Trouble
  /\ EndRound(FALSE)
  /\ filRows' \in {filRows, IF pc = "filters" THEN WithRows ELSE filRows}
  /\ UNCHANGED <<memory, hdrRows, matchRows, txRows>>

\* A delete of rewindTo fails: the tables after it keep their rows.
RewindFails ==
  /\ pc \in Rewinding \cap RewindFaults
  /\ Trouble
  /\ EndRound(FALSE)
  /\ UNCHANGED <<memory, tables>>

\* The process ends, between any two writes, and is started again: Init
\* reloads the stored headers and computes the filter start; nothing of the
\* round in progress survives.  It does not start on headers Init rejects.
Restart ==
  /\ pc \in Rewinding => "crash" \in RewindFaults
  /\ Trouble
  /\ \E t, s \in Heights :
       /\ Loads(hdrRows, t)
       /\ IsFilterStart(s, hdrRows, t)
       /\ chain' = hdrRows
       /\ tip' = t
       /\ filterStart' = s
  /\ anchor' = None
  /\ anchorTried' = FALSE
  /\ EndRound(FALSE)
  /\ UNCHANGED tables

Progress ==
  \/ BeginRound \/ ReceiveHeaders
  \/ DeleteHeadersFrom \/ DeleteFiltersFrom \/ DeleteMatchesFrom \/ DeleteTransactionsFrom
  \/ ExtendHeaders \/ SyncFilters \/ FilterHashes
  \/ \E t \in Txs : SaveTransaction(t)
  \/ ApplyFilter \/ StoreFilters

Adversity ==
  \/ ReceiveOtherHeaders \/ SyncFiltersUnproven \/ RoundFails \/ RewindFails \/ Restart

\* A rewind ends with its last delete, or is interrupted: by a failed delete or
\* by the end of the process.
Interrupts == pc \in Rewinding /\ pc' = "idle"

Next ==
  /\ Progress \/ Adversity
  /\ interrupted' = (interrupted \/ Interrupts)

Spec == Init /\ [][Next]_vars

\* The sync loop keeps running: every wait in it ends by an answer, a
\* disconnection or a timeout (await), and a failed round is tried again.
FairSpec == Spec /\ WF_sync(Progress)

(***************************************************************************)
(* Properties                                                              *)
(***************************************************************************)

TxRow == [height : Heights, block : Blocks] \cup {NoTx}

SyncTypes ==
  /\ chain \in [Heights -> Blocks \cup {None}]
  /\ tip \in Heights
  /\ hdrRows \in [Heights -> Blocks \cup {None}]
  /\ filRows \in [Heights -> Blocks \cup {None}]
  /\ matchRows \in [Heights -> Blocks \cup {None}]
  /\ txRows \in [Txs -> TxRow]
  /\ filterStart \in Heights
  /\ anchor \in Blocks \cup {None}
  /\ anchorTried \in BOOLEAN
  /\ pc \in Places
  /\ batch \in Seq(Blocks)
  /\ from \in 0..(MaxHeight + 1)
  /\ next \in 0..(MaxHeight + 1)
  /\ end \in Heights
  /\ roundOK \in BOOLEAN
  /\ trouble \in 0..MaxTrouble

\* Every variable keeps its type: tables hold blocks at chain heights, the
\* batch holds headers, the cursor stays within one past the longest chain.
TypeOK == SyncTypes /\ interrupted \in BOOLEAN

\* Wherever the process ends, Init loads the stored headers again: they run
\* from genesis without a gap, each linked to the one below, although a
\* rewind truncates the memory before the table (sync.go Init, rewindTo,
\* extendHeaders).
StoredHeadersLoad == \E t \in Heights : Loads(hdrRows, t)

\* Outside a rewind no filter row belongs to a block that left the chain: "keeps
\* the header chain and filter rows consistent" (DeleteFiltersFrom).  The end of
\* the process between two deletes of rewindTo breaks it.
FilterRowsConsistent ==
  pc \notin Rewinding =>
    \A h \in Heights : filRows[h] # None => h <= tip /\ filRows[h] = chain[h]

\* As long as no rewind was interrupted, the filter rows are those of the chain.
FilterRowsOnChain == ~interrupted => FilterRowsConsistent

\* Outside a rewind the matches and the confirmed transactions too are those
\* of blocks on the chain: a payment in an orphaned block does not stay
\* confirmed (extendHeaders), as long as no rewind was interrupted.
LedgerOnChain ==
  ~interrupted /\ pc \notin Rewinding =>
    /\ \A h \in Heights : matchRows[h] # None => h <= tip /\ matchRows[h] = chain[h]
    /\ \A t \in Txs : txRows[t] # NoTx =>
         txRows[t].height <= tip /\ txRows[t].block = chain[txRows[t].height]

\* After a successful round every wallet transaction in every block from the
\* first one dated at or after the seed up to the tip is stored as confirmed
\* there, whatever forks, restarts and moves of the filter start came before
\* (syncFilters: resume height and filter start agree on what to skip), as long
\* as no rewind was interrupted.
NoPaymentMissed ==
  ~interrupted /\ pc = "idle" /\ roundOK =>
    \A first \in 0..tip : IsFirst(first, chain, tip) =>
      \A h \in first..tip : \A t \in WalletTxs[chain[h]] : txRows[t] = Row(h)

\* The wallet as its other parts see it: while a rewind deletes table by table,
\* the rows above the tip do not count.
Promise == INSTANCE ConfirmedLedger WITH
  view <- chain,
  top <- tip,
  searched <- UpTo(filRows, tip),
  booked <- TxsUpTo(tip),
  broken <- interrupted

\* The sync implements ConfirmedLedger: however headers, rewinds, filter
\* batches, failures and restarts interleave, no block counts as searched
\* before its payments are stored, none is searched twice while it stays on the
\* chain, a confirmed payment leaves or moves only when its block left the
\* chain, and what a rewind has not deleted yet never comes back with the next
\* headers (extendHeaders, rewindTo, processBlock, storeFilters).  The promise
\* ends when a rewind is interrupted.
ImplementsLedger == Promise!Spec

\* The wallet holds the best branch with every filter from the filter start.
SyncedToBest ==
  /\ tip = Len(Best) - 1
  /\ \A h \in 0..tip : chain[h] = Best[h + 1]
  /\ \A h \in filterStart..tip : filRows[h] = chain[h]

\* The header chain alone reaches the best branch and stays there, even when
\* the process was ended in the middle of a rewind (Init, extendHeaders).
HeadersEventuallySynced == <>[](\A h \in 0..(Len(Best) - 1) : chain[h] = Best[h + 1])

\* The download that starts at the filter start height compares the first
\* cfheaders batch with the anchor of that height: "the anchor at the wallet
\* seed height" (prevFilterHeader).  The anchor outlives a move of the filter
\* start, which breaks it.
AnchorIsForFilterStart ==
  pc = "hashes" /\ from = filterStart /\ filterStart > 0 =>
    anchor = None \/ anchor = chain[filterStart - 1]

\* Once failed requests, foreign answers and restarts stop, the wallet reaches
\* the best branch with all its filters and stays there (syncLoop retries every
\* failed round), with two exceptions: an interrupted rewind, which leaves rows
\* the resume height skips, and an anchor that is for ever that of another
\* filter start, which keeps honest peers' filters out.  Nothing else about
\* rewinds, resume heights or anchors blocks the rounds that follow.
EventuallySynced ==
  []~interrupted /\ <>[]AnchorIsForFilterStart => <>[]SyncedToBest
============================================================================
