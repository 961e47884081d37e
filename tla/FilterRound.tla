---------------------------- MODULE FilterRound -----------------------------
(***************************************************************************)
(* The cross-check of filters between peers (internal/sync/filters.go, and *)
(* proveFilterAnchor in manager.go): the votes on the filter header        *)
(* anchor, the filter hashes each peer commits to, the filters compared    *)
(* block by block, the block that settles a disagreement, and the peers    *)
(* dropped on the way.  Honest peers serve the true filters; the others    *)
(* answer anything, or nothing.                                            *)
(*                                                                         *)
(* Blocks are numbered from 1, the one at the filter start, which is above *)
(* genesis.  A filter is known by what it leaves out.  A chained filter    *)
(* header is "true" when honest peers report it and "false" otherwise: a   *)
(* dishonest peer claims whatever links to the stored rows, so false ones  *)
(* need not be told apart.  With a pinned peer nothing is synced without   *)
(* it until pinnedFallbackAfter has passed since it was last seen: then    *)
(* the others take over, until it is back.                                 *)
(***************************************************************************)
EXTENDS Integers, Sequences, FiniteSets, SequencesExt, Keeping

CONSTANTS
  Peers,         \* peers serving compact filters
  Honest,        \* those serving the true ones
  None,          \* no pinned peer
  Pins,          \* the peer that may be pinned, or None
  Filters,       \* filters a peer may serve for a block
  Correct,       \* the BIP158 filter
  Complete,      \* those with every output script of the block
  Blocks,        \* bound: blocks from the filter start to the tip
  FilterHeaderBatch, \* filterHeaderBatch
  FilterBatch,   \* filterBatch
  TargetPeers,   \* TargetPeers
  MaxTrouble     \* bound: unanswered requests of honest peers, failures, restarts

ASSUME PeersAssumption ==
  /\ Honest \subseteq Peers
  /\ None \notin Peers
  /\ Pins \subseteq Honest \cup {None}
ASSUME FiltersAssumption == Correct \in Complete /\ Complete \subseteq Filters
ASSUME BoundsAssumption ==
  /\ Blocks \in Nat \ {0}
  /\ FilterHeaderBatch \in Nat \ {0}
  /\ FilterBatch \in Nat \ {0}
  /\ TargetPeers \in Nat \ {0}
  /\ MaxTrouble \in Nat

VARIABLES
  pinned,      \* pinnedAddr
  pool,        \* connected peers, oldest first
  seen,        \* pinnedSeen while the pinned peer is not connected: "recent",
               \* "past" (pinnedFallbackAfter ago), or "closing", which is past
               \* too, until the goroutine of the connection sets it
  rows,        \* table cfilters: filter and chained header, from block 1, and
               \* whether the batch was stored in the fallback (history)
  anchor,      \* anchorPrev, "none" while not anchorSet
  anchorTried, \* anchorTried
  pc,          \* where the sync loop is
  peers,       \* peers of the cfheaders batch, the primary first
  hashes,      \* hashes: what the cfheaders committed to, block -> filter
  end,         \* last block of the cfheaders batch
  answers,     \* peers of the filter batch and the filters they served
  fallback,    \* the batch was served in the fallback (history)
  picked,      \* filters accepted in the filter batch
  trouble      \* adverse events left

round == <<peers, hashes, end, answers, fallback, picked>>
vars == <<pinned, pool, seen, rows, anchor, anchorTried, pc, round, trouble>>

Header == {"true", "false"}

(***************************************************************************)
(* Helpers                                                                 *)
(***************************************************************************)

Smaller(a, b) == IF a < b THEN a ELSE b

\* orderedPeers: the pinned peer first, then the oldest connection.
Ordered ==
  Keep(pool, {pinned}) \o Keep(pool, Peers \ {pinned})

\* pinnedAway: the pinned peer is not connected, and long not seen.
PinnedAway == pinned # None /\ ~Contains(pool, pinned) /\ seen # "recent"

\* filterPeers, none while primary waits for the pinned peer.
FilterPeers ==
  IF pinned # None /\ ~Contains(pool, pinned) /\ ~PinnedAway THEN << >>
  ELSE SubSeq(Ordered, 1, Smaller(Len(Ordered), TargetPeers))

\* Mutant: any answer will do.
RequireAny(ps) == TRUE

\* requirePrimary: the pinned peer, when there is one, is among those that
\* answered, or away.
RequirePrimary(ps) ==
  pinned = None \/ (ps # << >> /\ ps[1] = pinned) \/ PinnedAway

\* conn.drop of each peer in S: the pinned peer stays connected.
Dropping(S) == Keep(pool, (Peers \ S) \cup {pinned})

\* MajorityAnchor, a strict majority of the votes.
IsMajority(h, votes) ==
  2 * Cardinality({p \in DOMAIN votes : votes[p] = h}) > Cardinality(DOMAIN votes)

\* The first block without a row: FilterResumeHeight.
Resume == Len(rows) + 1

\* The header the next row links to: prevFilterHeader, checkFilterPrev.
Prev == IF rows = << >> THEN anchor ELSE Last(rows).header

\* The header chained from the first k of the filters fs: it is true when the
\* one below is and so are they.
ChainedHeader(fs, k) ==
  IF Prev = "true" /\ \A j \in 1..k : fs[j] = Correct THEN "true" ELSE "false"

\* The rows once the filters accepted are stored: SaveFilters.
StoredRows(fs) ==
  rows \o [k \in 1..Len(fs) |->
             [filter |-> fs[k], header |-> ChainedHeader(fs, k), fallback |-> fallback]]

(***************************************************************************)
(* Rounds                                                                  *)
(***************************************************************************)

NoRound ==
  /\ peers' = << >> /\ hashes' = << >> /\ end' = 0
  /\ answers' = << >> /\ fallback' = FALSE /\ picked' = << >>

Init ==
  /\ pinned \in Pins
  /\ pool = << >> /\ seen = "recent" /\ rows = << >>
  /\ anchor = "none" /\ anchorTried = FALSE
  /\ pc = "idle"
  /\ peers = << >> /\ hashes = << >> /\ end = 0 /\ answers = << >>
  /\ fallback = FALSE /\ picked = << >>
  /\ trouble = MaxTrouble

EndRound == pc' = "idle" /\ NoRound

\* Honest peers of the request do not answer in time only if trouble is left.
Answered(asked, A) ==
  /\ A \subseteq ToSet(asked)
  /\ IF ToSet(asked) \cap Honest \subseteq A
       THEN UNCHANGED trouble
       ELSE trouble > 0 /\ trouble' = trouble - 1

\* syncOnce after the headers.
BeginRound ==
  /\ pc = "idle"
  /\ FilterPeers # << >>
  /\ Resume <= Blocks
  /\ pc' = IF rows = << >> /\ ~anchorTried THEN "prove" ELSE "hashes"
  /\ UNCHANGED <<pinned, pool, seen, rows, anchor, anchorTried, round, trouble>>

\* The filter headers the peers of S may report (requestFilterAnchor).
Votes(S) == {v \in [S -> Header] : \A p \in S \cap Honest : v[p] = "true"}

\* proveFilterAnchor: connected peers vote, and candidates dialed for it.
\* Honest peers dialed may fail for free.
ProveAnchor ==
  LET asked == FilterPeers IN
  /\ pc = "prove"
  /\ \E A \in SUBSET ToSet(asked) : \E D \in SUBSET (Peers \ (ToSet(pool) \cup {pinned})) :
       /\ Answered(asked, A)
       /\ pool' = Dropping(ToSet(asked) \ A)
       /\ \E votes \in Votes(A \cup D) :
            IF DOMAIN votes = {}
              THEN pc' = "hashes" /\ anchorTried' = TRUE /\ UNCHANGED anchor
              ELSE \/ \E h \in Header :
                        /\ IsMajority(h, votes)
                        /\ anchor' = h /\ anchorTried' = TRUE /\ pc' = "hashes"
                   \/ /\ \A h \in Header : ~IsMajority(h, votes)
                      /\ pc' = "idle"
                      /\ UNCHANGED <<anchor, anchorTried>>
  /\ UNCHANGED <<pinned, seen, rows, round>>

\* The anchor filterHashes takes when none was proven: the majority of the
\* prev_filter_headers, or the one of the first peer.
AnchorFrom(claims, first) ==
  IF \E h \in Header : IsMajority(h, claims)
    THEN CHOOSE h \in Header : IsMajority(h, claims)
    ELSE claims[first]

\* The filters the peers ps may commit to for the blocks of the batch.
Commitments(ps, blocks) ==
  {[i \in DOMAIN ps |-> IF ps[i] \in Honest THEN [b \in blocks |-> Correct] ELSE lies[ps[i]]] :
     lies \in [ToSet(ps) \ Honest -> [blocks -> Filters]]}

\* filterHashes: each peer claims a header below the batch and commits to its
\* filters; those that do not link to the stored rows are dropped.
FilterHashes ==
  LET asked == FilterPeers
      last == Smaller(Resume + FilterHeaderBatch - 1, Blocks) IN
  /\ pc = "hashes"
  /\ \E A \in SUBSET ToSet(asked) : \E claims \in Votes(A) :
       LET prev == IF Prev = "none" THEN AnchorFrom(claims, Keep(asked, A)[1]) ELSE Prev
           ok == Keep(asked, {p \in A : claims[p] = prev}) IN
       /\ Answered(asked, A)
       /\ anchor' = IF Prev = "none" /\ A # {} THEN prev ELSE anchor
       /\ pool' = Dropping(ToSet(asked) \ ToSet(ok))
       /\ IF ok # << >> /\ RequirePrimary(ok)
            THEN /\ peers' = ok
                 /\ hashes' \in Commitments(ok, Resume..last)
                 /\ end' = last
                 /\ pc' = "filters"
                 /\ UNCHANGED <<answers, fallback, picked>>
            ELSE EndRound
  /\ UNCHANGED <<pinned, seen, rows, anchorTried>>

\* Last block of the syncFilterBatch in progress.
BatchEnd == Smaller(Resume + FilterBatch - 1, end)

\* syncFilterBatch, up to the blocks chosen one by one: the peers still
\* connected serve the batch.  Their filters must hash to the hashes at their
\* place in the list, and who does not serve them is dropped.
FetchFilters ==
  LET batch == Resume..BatchEnd
      live == Keep(peers, ToSet(pool))
      list(p) == hashes[CHOOSE i \in DOMAIN peers : peers[i] = p] IN
  /\ pc = "filters"
  /\ \E A \in SUBSET ToSet(live) :
       LET matching == {p \in A : p \in Honest => \A b \in batch : list(p)[b] = Correct}
           ok == Keep(live, matching) IN
       /\ Answered(live, A)
       /\ pool' = Dropping(ToSet(live) \ matching)
       /\ IF ok # << >> /\ RequirePrimary(ok)
            THEN /\ answers' = [i \in DOMAIN ok |-> [peer |-> ok[i], filters |-> list(ok[i])]]
                 /\ fallback' = PinnedAway
                 /\ pc' = "choose"
                 /\ UNCHANGED <<peers, hashes, end, picked>>
            ELSE EndRound
  /\ UNCHANGED <<pinned, seen, rows, anchor, anchorTried>>

\* groupVariants: who served the filter f of block b, and the filters in the
\* order of the peers.
Serving(f, b) == {i \in DOMAIN answers : answers[i].filters[b] = f}
Variants(b) == {answers[i].filters[b] : i \in DOMAIN answers}
ListedBefore(f, g, b) == \E i \in Serving(f, b) : \A j \in Serving(g, b) : i < j

\* Mutant: a variant is not checked against the block.
WinsUnchecked(f, b) ==
  /\ f \in Variants(b)
  /\ \A g \in Variants(b) \ {f} :
       \/ Cardinality(Serving(f, b)) > Cardinality(Serving(g, b))
       \/ Cardinality(Serving(f, b)) = Cardinality(Serving(g, b)) /\ ListedBefore(f, g, b)

\* Mutant: the first complete one wins.
WinsFirst(f, b) ==
  /\ f \in Variants(b) \cap Complete
  /\ \A g \in (Variants(b) \cap Complete) \ {f} : ListedBefore(f, g, b)

\* Mutant: on a tie the last one listed wins.
WinsLast(f, b) ==
  /\ f \in Variants(b) \cap Complete
  /\ \A g \in (Variants(b) \cap Complete) \ {f} :
       \/ Cardinality(Serving(f, b)) > Cardinality(Serving(g, b))
       \/ Cardinality(Serving(f, b)) = Cardinality(Serving(g, b)) /\ ListedBefore(g, f, b)

\* resolveVariants: the complete filter served by the most peers, the one
\* listed first on a tie.
Wins(f, b) ==
  /\ f \in Variants(b) \cap Complete
  /\ \A g \in (Variants(b) \cap Complete) \ {f} :
       \/ Cardinality(Serving(f, b)) > Cardinality(Serving(g, b))
       \/ Cardinality(Serving(f, b)) = Cardinality(Serving(g, b)) /\ ListedBefore(f, g, b)

\* The peers chooseFilter drops when f wins.
Losers(f, b) == {answers[i].peer : i \in DOMAIN answers \ Serving(f, b)}

\* The block chooseFilter looks at.
Height == Resume + Len(picked)

\* chooseFilter when every peer serves the same filter, and applyFilter.
Agree ==
  /\ pc = "choose"
  /\ Height <= BatchEnd
  /\ \E f \in Variants(Height) : Variants(Height) = {f} /\ picked' = Append(picked, f)
  /\ UNCHANGED <<pinned, pool, seen, rows, anchor, anchorTried, pc, trouble>>
  /\ UNCHANGED <<peers, hashes, end, answers, fallback>>

\* chooseFilter when they do not: the block is downloaded from a connected
\* peer, the outvoted and incomplete filters cost their peers the connection.
Settle ==
  /\ pc = "choose"
  /\ Height <= BatchEnd
  /\ Cardinality(Variants(Height)) > 1
  /\ pool # << >>
  /\ \E f \in Filters :
       /\ Wins(f, Height)
       /\ pool' = Dropping(Losers(f, Height))
       /\ picked' = Append(picked, f)
  /\ UNCHANGED <<pinned, seen, rows, anchor, anchorTried, pc, trouble>>
  /\ UNCHANGED <<peers, hashes, end, answers, fallback>>

\* No variant is complete, or the block is not served: those accepted before
\* are stored, and the round fails.
Unsettled ==
  /\ pc = "choose"
  /\ Height <= BatchEnd
  /\ Cardinality(Variants(Height)) > 1
  /\ \/ /\ \A f \in Filters : ~Wins(f, Height)
        /\ pool # << >>
        /\ pool' = Dropping({answers[i].peer : i \in DOMAIN answers})
     \/ ToSet(pool) \cap Honest = {} /\ UNCHANGED pool
  /\ rows' = StoredRows(picked)
  /\ EndRound
  /\ UNCHANGED <<pinned, seen, anchor, anchorTried, trouble>>

\* storeFilters is done with the batch; syncFilters goes on with the peers
\* still connected, asks for more hashes, or is done.
StoreFilters ==
  /\ pc = "choose"
  /\ Height > BatchEnd
  /\ rows' = StoredRows(picked)
  /\ picked' = << >> /\ answers' = << >> /\ fallback' = FALSE
  /\ IF Height <= end
       THEN /\ pc' = "filters" /\ peers' = Keep(peers, ToSet(pool))
            /\ UNCHANGED <<hashes, end>>
       ELSE /\ pc' = IF Height <= Blocks THEN "hashes" ELSE "idle"
            /\ peers' = << >> /\ hashes' = << >> /\ end' = 0
  /\ UNCHANGED <<pinned, pool, seen, anchor, anchorTried, trouble>>

(***************************************************************************)
(* Environment                                                             *)
(***************************************************************************)

\* Mutant: a peer is connected twice.
JoinTwice(p) ==
  /\ Len(pool) < TargetPeers
  /\ pool' = Append(pool, p)
  /\ UNCHANGED <<pinned, seen, rows, anchor, anchorTried, pc, round, trouble>>

\* connect: a slot is kept for the pinned peer, which is refused while its
\* former connection is in the pool.
Join(p) ==
  /\ ~Contains(pool, p)
  /\ p = pinned => seen # "closing"
  /\ p = pinned \/ Len(pool) < TargetPeers - (IF pinned = None \/ Contains(pool, pinned) THEN 0 ELSE 1)
  /\ pool' = Append(pool, p)
  /\ seen' = IF p = pinned THEN "recent" ELSE seen
  /\ UNCHANGED <<pinned, rows, anchor, anchorTried, pc, round, trouble>>

\* A peer disconnects.  pinnedSeen was not touched while the pinned peer was
\* connected: after a long connection it counts as away at once, until the
\* goroutine of the connection runs.
Leave(p) ==
  /\ Contains(pool, p)
  /\ pool' = Keep(pool, Peers \ {p})
  /\ IF p = pinned THEN seen' \in {"recent", "closing"} ELSE UNCHANGED seen
  /\ IF p \in Honest THEN trouble > 0 /\ trouble' = trouble - 1 ELSE UNCHANGED trouble
  /\ UNCHANGED <<pinned, rows, anchor, anchorTried, pc, round>>

\* The goroutine of the pinned connection sets pinnedSeen.
NoteLeft ==
  /\ seen = "closing" /\ seen' = "recent"
  /\ UNCHANGED <<pinned, pool, rows, anchor, anchorTried, pc, round, trouble>>

\* pinnedFallbackAfter passes without the pinned peer.
TimePasses ==
  /\ pinned # None /\ ~Contains(pool, pinned)
  /\ seen = "recent" /\ seen' = "past"
  /\ UNCHANGED <<pinned, pool, rows, anchor, anchorTried, pc, round, trouble>>

\* Another failure ends the round, or the process is started again, which
\* forgets the anchor.
Fail ==
  /\ trouble > 0 /\ trouble' = trouble - 1
  /\ rows' \in {rows, StoredRows(picked)}
  /\ EndRound
  /\ \/ UNCHANGED <<pool, seen, anchor, anchorTried>>
     \/ pool' = << >> /\ seen' = "recent" /\ anchor' = "none" /\ anchorTried' = FALSE
  /\ UNCHANGED pinned

SyncLoop ==
  \/ BeginRound \/ ProveAnchor \/ FilterHashes \/ FetchFilters
  \/ Agree \/ Settle \/ Unsettled \/ StoreFilters

Next ==
  \/ SyncLoop \/ Fail \/ NoteLeft \/ TimePasses
  \/ \E p \in Peers : Join(p) \/ Leave(p)

Spec == Init /\ [][Next]_vars

\* The sync loop and the goroutines of connections go on, and honest peers are
\* connected again.
FairSpec ==
  Spec /\ WF_vars(SyncLoop) /\ WF_vars(NoteLeft) /\ \A p \in Honest : WF_vars(Join(p))

(***************************************************************************)
(* Properties                                                              *)
(***************************************************************************)

\* Every variable keeps its type; the lists of a round fit together.
TypeOK ==
  /\ pinned \in Pins
  /\ pool \in Seq(Peers) /\ Len(pool) = Cardinality(ToSet(pool)) /\ Len(pool) <= TargetPeers + 1
  /\ seen \in {"recent", "past", "closing"}
  /\ rows \in Seq([filter : Filters, header : Header, fallback : BOOLEAN])
  /\ Len(rows) <= Blocks
  /\ anchor \in Header \cup {"none"}
  /\ anchorTried \in BOOLEAN
  /\ pc \in {"idle", "prove", "hashes", "filters", "choose"}
  /\ peers \in Seq(Peers) /\ Len(peers) <= Len(hashes)
  /\ end \in 0..Blocks
  /\ \A i \in DOMAIN answers : answers[i].peer \in ToSet(peers)
  /\ fallback \in BOOLEAN
  /\ picked \in Seq(Filters)
  /\ trouble \in 0..MaxTrouble

\* While an honest peer is pinned, a filter that misses an output script of
\* its block is stored only in the fallback, when that peer is not connected
\* and pinnedSeen is pinnedFallbackAfter past at the check after the filters
\* came: until then, and again from its return on, no answer of others hides
\* a payment, in no order of failures, disconnections and returns between the
\* two requests (requirePrimary after each, resolveVariants).
PinnedProtects ==
  pinned # None =>
    \A i \in DOMAIN rows : rows[i].filter \in Complete \/ rows[i].fallback

\* One honest peer among those that served the batch is enough for that,
\* however many others agree on a filter without an output (chooseFilter).
OneHonestEnough ==
  (\E i \in DOMAIN answers : answers[i].peer \in Honest) => \A k \in DOMAIN picked : picked[k] \in Complete

HonestServing == {i \in DOMAIN answers : answers[i].peer \in Honest}

\* When honest peers are the majority of those that served the batch, or half
\* of them with the primary, each filter accepted is the true one, and none
\* of them is disconnected for it (resolveVariants, chooseFilter).
HonestMajorityWins ==
  LET honest == Cardinality(HonestServing)
      others == Len(answers) - honest
  IN honest > others \/ (honest = others /\ 1 \in HonestServing) =>
       \A k \in DOMAIN picked : picked[k] = Correct

AllTrue == Len(rows) = Blocks /\ \A i \in DOMAIN rows : rows[i].header = "true"

\* A row that honest peers will never link to, stored without the pinned one.
FalseFallback ==
  \E i \in DOMAIN rows : rows[i].fallback /\ rows[i].header = "false"

\* With an honest peer pinned and never more dishonest than honest peers, the
\* download reaches the tip with true filters only, whatever the others
\* answer and however often the pinned peer goes and comes back.  Excepted is
\* what the code does not recover from while it runs: a false anchor voted in
\* (it is asked for once per run, proveFilterAnchor), and a false row stored
\* while the pinned peer was away, which it never links to once it is back.
EventuallySynced ==
  pinned # None =>
    (<>[](anchor # "false") /\ []~FalseFallback => <>AllTrue)
============================================================================
