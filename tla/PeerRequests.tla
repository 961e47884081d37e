---------------------------- MODULE PeerRequests ----------------------------
(***************************************************************************)
(* The requests of the sync loop to its peers (internal/sync/peers.go) and *)
(* the order syncOnce makes them in: parallel ones with fanOut, blocks and *)
(* rescanned filters peer after peer.  A connection has a read loop, which *)
(* delivers messages to a channel of their kind, and goroutines waiting on *)
(* these channels; requests time out, answers come late, connections end.  *)
(*                                                                         *)
(* A message is its kind and what it is about: a batch of filters by its   *)
(* number, a filter by its height, a block by a number.  A peer answers in *)
(* the order it was asked, so its answer is on the way as soon as it is    *)
(* asked, however late it is read.  Peers are honest here, only slow.      *)
(* The fallback from an away pinned peer is, while it lasts, the case      *)
(* without one.                                                            *)
(***************************************************************************)
EXTENDS Integers, Sequences, FiniteSets, SequencesExt, Keeping

CONSTANTS
  Conns,         \* connections, no more than TargetPeers
  None,          \* no pinned peer, no message
  Pins,          \* the connection that may be pinned, or None
  Bloom,         \* peers serving bloom filters
  Batches,       \* numbers of filter batches and of blocks
  FilterBatch,   \* filterBatch
  Room,          \* capacities of the channels
  MaxLine,       \* bound: messages of a peer on the way to us
  MaxTrouble     \* bound: slow answers, lost connections, missing transactions

Kinds == {"headers", "cfheaders", "cfilters", "blocks", "notFound"}

ASSUME ConnsAssumption ==
  /\ None \notin Conns
  /\ Pins \subseteq Conns \cup {None}
  /\ Bloom \subseteq Conns
ASSUME BoundsAssumption ==
  /\ Batches \in SUBSET (Nat \ {0})
  /\ FilterBatch \in Nat \ {0}
  /\ Room \in [Kinds -> Nat \ {0}]
  /\ Room["cfilters"] = FilterBatch
  /\ MaxLine \in Nat
  /\ MaxTrouble \in Nat

VARIABLES
  pinned,   \* the pinned connection
  pool,     \* live connections, oldest first
  line,     \* what each peer sent and the read loop has not read
  chan,     \* the channels of each connection
  stuck,    \* the message deliver waits to put into a full channel
  waits,    \* the requests whose goroutines wait, of each connection
  stage,    \* where syncOnce is
  busy,     \* the requests of this stage are made
  peers,    \* the peers asked, or still to be asked
  at,       \* which request of the stage
  about,    \* the batch or block it is about
  ans,      \* the answers that came in: fanOut's answers
  listed,   \* the peers filterHashes returned
  trouble   \* adverse events left

wire == <<line, chan, stuck>>
call == <<stage, busy, peers, at, about, listed>>
vars == <<pinned, pool, wire, waits, call, ans, trouble>>

(***************************************************************************)
(* Messages                                                                *)
(***************************************************************************)

\* The numbers of the messages that answer a request.
Asked(kind, k) ==
  IF kind = "headers" THEN {0}
  ELSE IF kind = "cfilters" THEN (FilterBatch * (k - 1) + 1)..(FilterBatch * k)
  ELSE {k}

\* The answer, filters in height order.
Answer(kind, k) ==
  IF kind = "cfilters"
    THEN [i \in 1..FilterBatch |-> [kind |-> kind, of |-> FilterBatch * (k - 1) + i]]
    ELSE << [kind |-> kind, of |-> CHOOSE n \in Asked(kind, k) : TRUE] >>

Messages ==
  {[kind |-> "headers", of |-> 0], [kind |-> "notFound", of |-> 0]} \cup
  UNION {ToSet(Answer(kind, k)) : kind \in {"cfheaders", "cfilters", "blocks"}, k \in Batches}

\* Mutant: a filter of any block is taken.
WantedAny(r) == (0..(FilterBatch * Cardinality(Batches))) \ r.got

\* What a request accepts next: a filter of the range arrives once.
Wanted(r) == Asked(r.kind, r.of) \ r.got

\* The channels a request empties before it is sent (drain).
Drained(kind) == IF kind = "blocks" THEN {"blocks", "notFound"} ELSE {kind}

(***************************************************************************)
(* Peers                                                                   *)
(***************************************************************************)

\* orderedPeers: the pinned peer first, then the oldest connection.
Ordered ==
  Keep(pool, {pinned}) \o Keep(pool, Conns \ {pinned})

\* primary, none while the pinned peer is not connected.
HasPrimary == pool # << >> /\ (pinned = None \/ Contains(pool, pinned))

\* relaySource: its announced transactions are fetched.
RelaySource(c) ==
  IF ToSet(pool) \cap Bloom # {} THEN c \in Bloom ELSE Ordered[1] = c

\* requirePrimary.
RequirePrimary(ps) == pinned = None \/ (ps # << >> /\ ps[1] = pinned)

\* conn.drop: the pinned peer stays connected.
Drop(S) == S \ {pinned}

\* The connections in S end; what they had sent and deliver holds is lost.
Close(S) ==
  /\ pool' = Keep(pool, Conns \ S)
  /\ line' = [c \in Conns |-> IF c \in S THEN << >> ELSE line[c]]
  /\ stuck' = [c \in Conns |-> IF c \in S THEN None ELSE stuck[c]]

(***************************************************************************)
(* Stages of syncOnce                                                      *)
(***************************************************************************)

\* The requests of each stage: syncHeaders, proveFilterAnchor, filterHashes,
\* syncFilterBatch, fetchBlock for a filter batch, refetchFilters below the
\* first stored header and above, fetchBlock for a rescan.
Plan ==
  [headers |-> <<"headers">>, anchor |-> <<"cfheaders">>, hashes |-> <<"cfheaders">>,
   filters |-> <<"cfilters">>, block |-> <<"blocks">>,
   refetchFirst |-> <<"cfheaders", "cfilters">>, refetch |-> <<"cfilters">>,
   rescanBlock |-> <<"blocks">>]

\* Stages that ask all peers at once, and drop those that fail.
Parallel == {"headers", "anchor", "hashes", "filters"}

Rescans == {"refetch", "rescanBlock", "idle"}

\* What may follow a stage that succeeded; the rest of the round is skipped
\* when there is nothing to do.
Following ==
  [headers |-> {"headers", "anchor", "hashes", "refetchFirst", "refetch", "idle"},
   anchor |-> {"hashes"},
   hashes |-> {"filters"},
   filters |-> {"filters", "block", "hashes", "refetchFirst", "refetch", "idle"},
   block |-> {"filters", "block", "hashes", "refetchFirst", "refetch", "idle"},
   refetchFirst |-> Rescans, refetch |-> Rescans, rescanBlock |-> Rescans]

Kind == Plan[stage][at]

Init ==
  /\ pinned \in Pins
  /\ pool = << >>
  /\ line = [c \in Conns |-> << >>]
  /\ chan = [c \in Conns |-> [kind \in Kinds |-> << >>]]
  /\ stuck = [c \in Conns |-> None]
  /\ waits = [c \in Conns |-> << >>]
  /\ stage = "idle" /\ busy = FALSE
  /\ peers = << >> /\ at = 1 /\ about = 0
  /\ ans = << >>
  /\ listed = << >>
  /\ trouble = MaxTrouble

Trouble == trouble > 0 /\ trouble' = trouble - 1

(***************************************************************************)
(* Connections                                                             *)
(***************************************************************************)

\* connect: a new connection has channels of its own.
Join(c) ==
  /\ ~Contains(pool, c)
  /\ waits[c] = << >>
  /\ pool' = Append(pool, c)
  /\ chan' = [chan EXCEPT ![c] = [kind \in Kinds |-> << >>]]
  /\ UNCHANGED <<pinned, line, stuck, waits, call, ans, trouble>>

\* The peer disconnects.
Leave(c) ==
  /\ Contains(pool, c)
  /\ Trouble
  /\ Close({c})
  /\ UNCHANGED <<pinned, chan, waits, call, ans>>

\* A transaction requested by its announcement (OnInv, requestTxs) is not
\* there any more.
MissTransaction(c) ==
  /\ Contains(pool, c) /\ RelaySource(c)
  /\ Trouble
  /\ Len(line[c]) < MaxLine
  /\ line' = [line EXCEPT ![c] = Append(@, [kind |-> "notFound", of |-> 0])]
  /\ UNCHANGED <<pinned, pool, chan, stuck, waits, call, ans>>

\* Mutant: off by one.
HasRoomForMore(c, kind) == Len(chan[c][kind]) <= Room[kind]

HasRoom(c, kind) == Len(chan[c][kind]) < Room[kind]

\* The read loop takes the next message; deliver puts it into its channel,
\* or waits while that is full.
Read(c) ==
  /\ Contains(pool, c)
  /\ stuck[c] = None
  /\ line[c] # << >>
  /\ LET m == Head(line[c]) IN
       IF HasRoom(c, m.kind)
         THEN /\ chan' = [chan EXCEPT ![c][m.kind] = Append(@, m.of)]
              /\ UNCHANGED stuck
         ELSE /\ stuck' = [stuck EXCEPT ![c] = m]
              /\ UNCHANGED chan
  /\ line' = [line EXCEPT ![c] = Tail(@)]
  /\ UNCHANGED <<pinned, pool, waits, call, ans, trouble>>

(***************************************************************************)
(* Requests                                                                *)
(***************************************************************************)

\* getHeaders, getCFHeaders, getCFilters and getBlock up to their await, on
\* every connection of S: empty the channels, which frees a deliver waiting
\* on one of them, and send the request.
Request(S, kind, k) ==
  LET freed(c) == stuck[c] # None /\ stuck[c].kind \in Drained(kind) IN
  /\ chan' = [c \in Conns |-> IF c \in S
                THEN [ch \in Kinds |-> IF ch \in Drained(kind) THEN << >> ELSE chan[c][ch]]
                ELSE chan[c]]
  /\ stuck' = [c \in Conns |-> IF c \in S /\ freed(c) THEN None ELSE stuck[c]]
  /\ line' = [c \in Conns |->
                IF c \in S /\ Contains(pool, c) /\ Len(line[c] \o Answer(kind, k)) <= MaxLine
                  THEN line[c] \o Answer(kind, k) ELSE line[c]]
  /\ waits' = [c \in Conns |-> IF c \in S
                THEN Append(waits[c], [kind |-> kind, of |-> k, got |-> {},
                                       left |-> Cardinality(Asked(kind, k)), fresh |-> TRUE])
                ELSE waits[c]]

\* The goroutine ends; the call takes its answer unless it is over.
Return(c, i, ok, got) ==
  /\ waits' = [waits EXCEPT ![c] = RemoveAt(@, i)]
  /\ ans' = IF waits[c][i].fresh
              THEN [d \in DOMAIN ans \cup {c} |-> IF d = c THEN [ok |-> ok, got |-> got] ELSE ans[d]]
              ELSE ans

Fail(c, i) == Return(c, i, FALSE, {})

\* A message leaves a channel; a deliver waiting on it goes on.
Receive(c, kind) ==
  LET freed == stuck[c] # None /\ stuck[c].kind = kind IN
  /\ chan[c][kind] # << >>
  /\ chan' = [chan EXCEPT ![c][kind] =
                IF freed THEN Append(Tail(@), stuck[c].of) ELSE Tail(@)]
  /\ stuck' = IF freed THEN [stuck EXCEPT ![c] = None] ELSE stuck

\* await and what the request checks: getBlock skips other blocks, the others
\* fail on an answer that is not theirs.
Await(c, i) ==
  LET r == waits[c][i]
      m == Head(chan[c][r.kind])
  IN
  /\ Receive(c, r.kind)
  /\ IF m \in Wanted(r)
       THEN IF r.left = 1
              THEN Return(c, i, TRUE, r.got \cup {m})
              ELSE /\ waits' = [waits EXCEPT ![c][i].got = @ \cup {m}, ![c][i].left = @ - 1]
                   /\ UNCHANGED ans
       ELSE IF r.kind = "blocks"
              THEN UNCHANGED <<waits, ans>>
              ELSE Fail(c, i)
  /\ UNCHANGED <<pinned, pool, line, call, trouble>>

\* getBlock fails on any notfound.
AwaitNotFound(c, i) ==
  /\ waits[c][i].kind = "blocks"
  /\ Receive(c, "notFound")
  /\ Fail(c, i)
  /\ UNCHANGED <<pinned, pool, line, call, trouble>>

\* Mutant: a blocked read loop stops the timer.
NoAnswerComesEver(c, r) == line[c] = << >> /\ stuck[c] = None

\* Nothing on the way to the connection can answer the request.
NoAnswerComes(c, r) ==
  /\ chan[c][r.kind] = << >>
  /\ stuck[c] # None \/ line[c] = << >>

\* requestTimeout passes: for lack of an answer, or before a slow one is
\* there.
TimeOut(c, i) ==
  /\ Contains(pool, c)
  /\ IF NoAnswerComes(c, waits[c][i]) THEN UNCHANGED trouble ELSE Trouble
  /\ Fail(c, i)
  /\ UNCHANGED <<pinned, pool, wire, call>>

\* quit is closed.
Quit(c, i) ==
  /\ ~Contains(pool, c)
  /\ Fail(c, i)
  /\ UNCHANGED <<pinned, pool, wire, call, trouble>>

Goroutine(c) ==
  \E i \in 1..Len(waits[c]) : Await(c, i) \/ AwaitNotFound(c, i) \/ TimeOut(c, i) \/ Quit(c, i)

(***************************************************************************)
(* The sync loop                                                           *)
(***************************************************************************)

\* syncLoop picks the primary and starts a round.
BeginRound ==
  /\ stage = "idle"
  /\ HasPrimary
  /\ stage' = "headers"
  /\ peers' = <<Ordered[1]>>
  /\ UNCHANGED <<pinned, pool, wire, waits, busy, at, about, ans, listed, trouble>>

\* Whom a stage asks: the primary of the round, filterPeers, the peers that
\* served the hashes, or orderedPeers.
ToAsk ==
  IF stage = "headers" THEN peers
  ELSE IF stage = "filters" THEN Keep(listed, ToSet(pool))
  ELSE IF stage \in Parallel /\ ~HasPrimary THEN << >>
  ELSE Ordered

\* list: the peers syncFilters goes on with.
EndStage(next, list) ==
  /\ stage' = next
  /\ listed' = IF next \in {"filters", "block"} THEN list ELSE << >>
  /\ busy' = FALSE
  /\ at' = 1 /\ about' = 0
  /\ peers' = IF next = "headers" THEN peers ELSE << >>
  /\ ans' = << >>

\* The stage makes its first requests, or fails for lack of peers; the proof
\* of the anchor goes on to ask others.
BeginStage ==
  /\ stage # "idle" /\ ~busy
  /\ IF ToAsk = << >>
       THEN /\ EndStage(IF stage = "anchor" THEN "hashes" ELSE "idle", << >>)
            /\ UNCHANGED <<wire, waits>>
       ELSE \E k \in Batches :
              /\ Request(IF stage \in Parallel THEN ToSet(ToAsk) ELSE {ToAsk[1]}, Kind, k)
              /\ busy' = TRUE /\ peers' = ToAsk /\ about' = k
              /\ UNCHANGED <<stage, at, ans, listed>>
  /\ UNCHANGED <<pinned, pool, trouble>>

Succeeded(c) == c \in DOMAIN ans /\ ans[c].ok

\* Mutant: the first answer sets the pace, whoever gave it.
PacedByAny == \E c \in ToSet(peers) : Succeeded(c)

\* fanOut stops waiting for stragglers once the primary answered, or, when
\* it failed, once another peer did.
Paced == peers[1] \in DOMAIN ans /\ \E c \in ToSet(peers) : Succeeded(c)

\* Goroutines nobody waits for any more.
Abandoned == [c \in Conns |-> [i \in 1..Len(waits[c]) |-> [waits[c][i] EXCEPT !.fresh = FALSE]]]

\* Mutant: only stragglers are dropped.
FailingToAnswer(S) == S \ DOMAIN ans

\* The peers a parallel request drops: those that failed and the stragglers.
Failing(S) == {c \in S : ~Succeeded(c)}

\* fanOut returns, and so does the stage: filterHashes and syncFilterBatch
\* need the pinned peer's answer, syncHeaders the primary's.
FanOut ==
  LET ok == Keep(peers, {c \in Conns : Succeeded(c)}) IN
  /\ busy /\ stage \in Parallel
  /\ IF DOMAIN ans = ToSet(peers) THEN UNCHANGED trouble ELSE Paced /\ Trouble
  /\ Close(Drop(Failing(ToSet(peers))))
  /\ waits' = Abandoned
  /\ \/ /\ stage = "anchor" \/ (ok # << >> /\ RequirePrimary(ok))
        /\ \E next \in Following[stage] :
             EndStage(next, IF stage = "hashes" THEN ok ELSE listed)
     \/ /\ stage = "anchor" \/ ~(ok # << >> /\ RequirePrimary(ok))
        /\ EndStage("idle", << >>)
  /\ UNCHANGED <<pinned, chan>>

\* fetchBlock and refetchFilters: the next request of the stage to the same
\* peer, the first one to the next peer, or the end of the stage.
NextPeer ==
  LET c == Head(peers) IN
  /\ busy /\ stage \notin Parallel
  /\ c \in DOMAIN ans
  /\ \/ /\ ans[c].ok /\ at < Len(Plan[stage])
        /\ at' = at + 1
        /\ Request({c}, Plan[stage][at + 1], about)
        /\ ans' = << >>
        /\ UNCHANGED <<stage, busy, peers, about, listed>>
     \/ /\ ans[c].ok /\ at = Len(Plan[stage])
        /\ \E next \in Following[stage] : EndStage(next, listed)
        /\ UNCHANGED <<wire, waits>>
     \/ /\ ~ans[c].ok /\ Len(peers) > 1
        /\ at' = 1
        /\ peers' = Tail(peers)
        /\ Request({peers[2]}, Plan[stage][1], about)
        /\ ans' = << >>
        /\ UNCHANGED <<stage, busy, about, listed>>
     \/ /\ ~ans[c].ok /\ Len(peers) = 1
        /\ EndStage("idle", << >>)
        /\ UNCHANGED <<wire, waits>>
  /\ UNCHANGED <<pinned, pool, trouble>>

SyncLoop == BeginRound \/ BeginStage \/ FanOut \/ NextPeer

Next ==
  \/ SyncLoop
  \/ \E c \in Conns : Join(c) \/ Leave(c) \/ MissTransaction(c)
                        \/ Read(c) \/ Goroutine(c)

Spec == Init /\ [][Next]_vars

\* The sync loop, the goroutines and the read loops run; timers fire; a round
\* that may end at infinitely many points does, as the chain has an end; and,
\* as an assumption on the environment, a peer that is away comes back.
FairSpec ==
  /\ Spec
  /\ WF_vars(SyncLoop) /\ SF_vars(SyncLoop /\ stage' = "idle")
  /\ \A c \in Conns : WF_vars(Goroutine(c)) /\ WF_vars(Read(c)) /\ WF_vars(Join(c))

(***************************************************************************)
(* Properties                                                              *)
(***************************************************************************)

Requests ==
  [kind : Kinds, of : Batches \cup {0}, got : SUBSET Nat, left : 1..FilterBatch, fresh : BOOLEAN]

\* Every variable keeps its type; the channels keep their capacities.
TypeOK ==
  /\ pinned \in Pins
  /\ pool \in Seq(Conns)
  /\ line \in [Conns -> Seq(Messages)] /\ \A c \in Conns : Len(line[c]) <= MaxLine
  /\ \A c \in Conns : \A kind \in Kinds : Len(chan[c][kind]) <= Room[kind]
  /\ stuck \in [Conns -> Messages \cup {None}]
  /\ waits \in [Conns -> Seq(Requests)]
  /\ stage \in DOMAIN Plan \cup {"idle"}
  /\ busy \in BOOLEAN
  /\ peers \in Seq(Conns)
  /\ at \in 1..2
  /\ about \in Batches \cup {0}
  /\ DOMAIN ans \subseteq Conns
  /\ listed \in Seq(Conns)
  /\ trouble \in 0..MaxTrouble

\* No two requests wait on one live connection: fanOut leaves a goroutine
\* behind only on a connection it closes, so "several peers can be queried at
\* once without mixing their answers" (conn).
OneRequestEach ==
  \A c \in Conns : Contains(pool, c) => Len(waits[c]) <= 1

\* A request that succeeds holds what was asked for, every filter of the range
\* and nothing else, although answers to earlier requests of the same peer
\* may still be on their way when it is sent (getCFilters, getCFHeaders,
\* getBlock).
AnswersWhatWasAsked ==
  \A c \in DOMAIN ans : ans[c].ok => ans[c].got = Asked(Kind, about)

\* Every call ends: whatever peers do or do not send, the sync loop gets an
\* answer or a failure (await, fanOut, getBlock).
CallsEnd == busy ~> ~busy

\* Without a pinned peer, a primary whose read loop is blocked on a full
\* channel does not stay the primary: the round fails and drops it, or drains
\* the channel (deliver, syncOnce).
BlockedPrimaryGoes ==
  \A c \in Conns :
    []<>(pinned # None \/ pool = << >> \/ Ordered[1] # c \/ stuck[c] = None)

=============================================================================
