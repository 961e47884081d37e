---------------------------- MODULE SyncStatus -----------------------------
(***************************************************************************)
(* The status the wallet shows (internal/sync/manager.go, the listeners of *)
(* peers.go and the callback in internal/gui/app.go): connected, syncing,  *)
(* or synced to the tip, kept by counters that the sync loop, the peers'   *)
(* read loops and the goroutines of connections change under mu, and shown *)
(* through emit under emitMu, while peers hear of new blocks.              *)
(*                                                                         *)
(* Data.  There is one chain, and a peer is at a height of it; what the    *)
(* rounds do to the chain is in ChainSync.  Peers are honest: one claiming *)
(* a height it does not have would keep the status at "Syncing".  The       *)
(* reports of filter batches change only the height shown during a round   *)
(* and are left out.                                                       *)
(***************************************************************************)
EXTENDS Integers, Sequences, FiniteSets

CONSTANTS
  Peers,    \* peers the pool may hold
  None,     \* no peer
  Tip,      \* height of the best chain in the end
  MaxMoves  \* bound: connections lost, rounds failed, poll timers fired

ASSUME BoundsAssumption == Tip \in Nat /\ MaxMoves \in Nat

VARIABLES
  top,            \* height of each peer
  claim,          \* LastBlock of each connection
  told,           \* announcements on their way from each peer
  pool,           \* the pool
  closed,         \* peers of the pool whose connection is gone
  announced,      \* announced
  syncedThrough,  \* syncedThrough
  seen,           \* seen in syncLoop
  roundOK,        \* roundOK
  activity,       \* activity: idle or not
  height,         \* height
  chain,          \* Chain.Height()
  wake,           \* the channel of capacity one is full
  pc,             \* where the sync loop, each read loop and each connection is
  primary,        \* the peer of the round
  emitting,       \* holders of emitMu
  snap,           \* the status each goroutine took under mu
  shown,          \* the status line
  news,           \* heights each peer announced that were not in the chain
  moves

world == <<top, claim, told>>
counters == <<announced, syncedThrough, seen, roundOK, news>>
report == <<activity, height>>
emits == <<emitting, snap, shown>>
links == <<pool, closed>>
vars == <<world, links, counters, report, chain, wake, pc, primary, emits, moves>>

\* The goroutines: the sync loop, the read loop and the connection of a peer.
Loop == <<"loop">>
Reader(p) == <<"reader", p>>
Conn(p) == <<"conn", p>>
Procs == {Loop} \cup {Reader(p) : p \in Peers} \cup {Conn(p) : p \in Peers}

Goto(g, place) == pc' = [pc EXCEPT ![g] = place]

\* syncedLocked.
Synced ==
  /\ activity = "idle"
  /\ roundOK
  /\ announced = syncedThrough
  /\ \A p \in pool : claim[p] <= height

\* Status.String, with the height in "Syncing (height)...".
Text(text, h) == [text |-> text, height |-> h]
NotConnected == Text("Not connected", 0)
Connected == Text("Connected", 0)
Status ==
  IF pool = {} THEN NotConnected ELSE IF Synced THEN Connected ELSE Text("Syncing", height)

Init ==
  /\ top = [p \in Peers |-> 0]
  /\ claim = [p \in Peers |-> 0]
  /\ told = [p \in Peers |-> << >>]
  /\ pool = {} /\ closed = {}
  /\ announced = 0 /\ syncedThrough = 0 /\ seen = 0
  /\ roundOK = FALSE
  /\ activity = "idle" /\ height = 0 /\ chain = 0
  /\ wake = FALSE
  /\ pc = [g \in Procs |-> IF g = Loop THEN "top" ELSE "none"]
  /\ primary = None
  /\ emitting = {}
  /\ snap = [g \in Procs |-> NotConnected]
  /\ shown = NotConnected
  /\ news = [p \in Peers |-> {}]
  /\ moves = MaxMoves

Move == moves > 0 /\ moves' = moves - 1

(***************************************************************************)
(* emit                                                                    *)
(***************************************************************************)

\* After its change a goroutine is at a place of this table; once the status
\* is shown it goes on at the next one.
After(place) ==
  CASE place = "joined" -> "up" [] place = "left" -> "none"
    [] place = "counted" -> "none"
    [] place = "begun" -> "headers" [] place = "extended" -> "end"
    [] place = "ended" -> "wait" [] place = "failed" -> "top"
EmitPlaces ==
  {"joined", "left", "counted", "begun", "extended", "ended", "failed"}

\* Mutant: callbacks are not serialised.
TakeStatusUnserialised(g) ==
  /\ pc[g] \in EmitPlaces /\ g \notin emitting
  /\ emitting' = emitting \cup {g}
  /\ snap' = [snap EXCEPT ![g] = Status]
  /\ UNCHANGED <<world, links, counters, report, chain, wake, pc, primary, shown, moves>>

\* emit takes the status under mu, in the turn emitMu gives it.
TakeStatus(g) ==
  /\ pc[g] \in EmitPlaces
  /\ emitting = {}
  /\ emitting' = {g}
  /\ snap' = [snap EXCEPT ![g] = Status]
  /\ UNCHANGED <<world, links, counters, report, chain, wake, pc, primary, shown, moves>>

\* Mutant: a new connection does not wake the loop.
WakeSyncAnnounced(place) == wake' = (wake \/ place = "counted")

\* wakeSync, after an announcement and a new connection: the channel is full.
WakeSync(place) == wake' = (wake \/ place \in {"counted", "joined"})

\* The callback queues the status for the window, which shows them in order,
\* and the goroutine goes on.
ShowStatus(g) ==
  /\ g \in emitting
  /\ shown' = snap[g]
  /\ emitting' = emitting \ {g}
  /\ snap' = [snap EXCEPT ![g] = NotConnected]
  /\ WakeSync(pc[g])
  /\ Goto(g, After(pc[g]))
  /\ UNCHANGED <<world, links, counters, report, chain, primary, moves>>

(***************************************************************************)
(* Peers                                                                   *)
(***************************************************************************)

\* A peer gets the next block, and announces it to the wallet.
Hear(p) ==
  /\ top[p] < Tip
  /\ top' = [top EXCEPT ![p] = @ + 1]
  /\ told' = [told EXCEPT ![p] = IF p \in pool \ closed THEN Append(@, top[p] + 1) ELSE @]
  /\ UNCHANGED <<claim, links, counters, report, chain, wake, pc, primary, emits, moves>>

\* The last step of connect, and the goroutine it starts.
Join(p) ==
  /\ pc[Conn(p)] = "none"
  /\ pool' = pool \cup {p}
  /\ claim' = [claim EXCEPT ![p] = top[p]]
  /\ Goto(Conn(p), "joined")
  /\ UNCHANGED <<top, told, closed, counters, report, chain, wake, primary, emits, moves>>

Disconnect(p) ==
  /\ closed' = closed \cup {p}
  /\ told' = [told EXCEPT ![p] = << >>]

\* The connection is lost.
Lose(p) ==
  /\ p \in pool \ closed
  /\ Move
  /\ Disconnect(p)
  /\ UNCHANGED <<top, claim, pool, counters, report, chain, wake, pc, primary, emits>>

\* The goroutine notices and takes the peer from the pool.  A round that began
\* with this connection does not get the peer's next one.
Leave(p) ==
  /\ pc[Conn(p)] = "up" /\ p \in closed
  /\ pool' = pool \ {p} /\ closed' = closed \ {p}
  /\ primary' = IF p = primary /\ pc[Loop] \in {"begun", "headers"} THEN None ELSE primary
  /\ Goto(Conn(p), "left")
  /\ UNCHANGED <<world, counters, report, chain, wake, emits, moves>>

\* OnInv: a block of the chain only wakes the sync loop.
ReceiveInv(p) ==
  /\ pc[Reader(p)] = "none"
  /\ told[p] # << >>
  /\ told' = [told EXCEPT ![p] = Tail(@)]
  /\ IF Head(told[p]) > chain
       THEN Goto(Reader(p), "unknown") /\ UNCHANGED wake
       ELSE wake' = TRUE /\ UNCHANGED pc
  /\ news' = [news EXCEPT ![p] = IF Head(told[p]) > chain THEN @ \cup {Head(told[p])} ELSE @]
  /\ UNCHANGED <<top, claim, links, announced, syncedThrough, seen, roundOK, report, chain,
                 primary, emits, moves>>

\* blockAnnounced, up to its emit.
BlockAnnounced(p) ==
  /\ pc[Reader(p)] = "unknown"
  /\ announced' = announced + 1
  /\ Goto(Reader(p), "counted")
  /\ UNCHANGED <<world, links, syncedThrough, seen, roundOK, news, report, chain, wake,
                 primary, emits, moves>>

(***************************************************************************)
(* The sync loop                                                           *)
(***************************************************************************)

\* syncLoop takes a peer and the count of announcements, and report begins the
\* round.
BeginRound(p) ==
  /\ pc[Loop] = "top"
  /\ p \in pool \ closed
  /\ primary' = p
  /\ seen' = announced
  /\ activity' = "busy" /\ height' = chain
  /\ Goto(Loop, "begun")
  /\ UNCHANGED <<world, links, announced, syncedThrough, roundOK, news, chain, wake, emits, moves>>

\* Without a peer it waits to be woken.
WaitForPeer ==
  /\ pc[Loop] = "top"
  /\ pool \ closed = {}
  /\ wake
  /\ wake' = FALSE
  /\ UNCHANGED <<world, links, counters, report, chain, pc, primary, emits, moves>>

\* syncHeaders: the peer's headers are appended, and report tells the height.
SyncHeaders ==
  /\ pc[Loop] = "headers"
  /\ primary \in pool \ closed
  /\ chain' = IF top[primary] > chain THEN top[primary] ELSE chain
  /\ height' = chain'
  /\ Goto(Loop, "extended")
  /\ UNCHANGED <<world, links, counters, activity, wake, primary, emits, moves>>

\* Mutant: the announcements made during the round are taken for synced.
SyncedThroughAll == announced

\* The announcements a successful round made up for.
SyncedThrough == seen

\* The end of the round: its outcome is stored, then reported.
EndRound(ok) ==
  /\ roundOK' = ok
  /\ syncedThrough' = IF ok THEN SyncedThrough ELSE syncedThrough
  /\ activity' = "idle" /\ height' = chain
  /\ Goto(Loop, IF ok THEN "ended" ELSE "failed")
  /\ UNCHANGED <<top, claim, pool, announced, seen, news, chain, wake, primary, emits>>

RoundDone ==
  /\ pc[Loop] = "end"
  /\ EndRound(TRUE)
  /\ UNCHANGED <<told, closed, moves>>

\* The peer went away before it answered.
PeerGone ==
  /\ pc[Loop] = "headers" /\ primary \notin pool \ closed
  /\ EndRound(FALSE)
  /\ UNCHANGED <<told, closed, moves>>

\* A request or a write fails: when it is one of syncHeaders the peer, unless
\* pinned, is dropped.
RoundFails ==
  /\ pc[Loop] \in {"headers", "end"}
  /\ Move
  /\ EndRound(FALSE)
  /\ \/ pc[Loop] = "headers" /\ primary \in pool \ closed /\ Disconnect(primary)
     \/ UNCHANGED <<told, closed>>

\* The loop waits to be woken, or for the poll timer.
Woken ==
  /\ pc[Loop] = "wait"
  /\ wake
  /\ wake' = FALSE
  /\ Goto(Loop, "top")
  /\ UNCHANGED <<world, links, counters, report, chain, primary, emits, moves>>

PollTimer ==
  /\ pc[Loop] = "wait"
  /\ Move
  /\ Goto(Loop, "top")
  /\ UNCHANGED <<world, links, counters, report, chain, wake, primary, emits>>

SyncLoop ==
  \/ \E p \in Peers : BeginRound(p)
  \/ WaitForPeer \/ SyncHeaders \/ RoundDone \/ PeerGone \/ Woken

Progress ==
  \/ SyncLoop
  \/ \E p \in Peers : Hear(p) \/ Join(p) \/ Leave(p) \/ ReceiveInv(p) \/ BlockAnnounced(p)
  \/ \E g \in Procs : TakeStatus(g) \/ ShowStatus(g)

Next == Progress \/ RoundFails \/ PollTimer \/ \E p \in Peers : Lose(p)

\* Goroutines go on, peers hear of every block and are dialed again.
\* Connections need not be lost, and the poll timer, ten minutes, is not relied
\* on.
Spec == Init /\ [][Next]_vars /\ WF_vars(Progress)

(***************************************************************************)
(* Properties                                                              *)
(***************************************************************************)

\* Every variable keeps its type; no announcement counts twice as synced, and
\* the height shown is one of the chain.
TypeOK ==
  /\ top \in [Peers -> 0..Tip] /\ claim \in [Peers -> 0..Tip]
  /\ told \in [Peers -> Seq(1..Tip)]
  /\ closed \subseteq pool /\ pool \subseteq Peers
  /\ announced \in Nat /\ syncedThrough \in 0..announced /\ seen \in 0..announced
  /\ roundOK \in BOOLEAN
  /\ activity \in {"idle", "busy"}
  /\ chain \in 0..Tip /\ height \in 0..chain
  /\ wake \in BOOLEAN
  /\ pc \in [Procs -> EmitPlaces \cup
                {"top", "headers", "end", "wait", "none", "up", "unknown"}]
  /\ primary \in Peers \cup {None}
  /\ emitting \subseteq Procs /\ Cardinality(emitting) <= 1
  /\ news \in [Peers -> SUBSET (1..Tip)]
  /\ moves \in 0..MaxMoves

\* The wallet calls itself synced only with every block that the peer of its
\* last round announced, before, during or after that round, and that a
\* connected peer claimed when it connected: an announcement that arrives
\* between the headers of a round and its end is not lost (syncLoop,
\* blockAnnounced, syncedLocked).
SyncedIsTrue ==
  Synced =>
    /\ \A p \in pool : claim[p] <= chain
    /\ pc[Reader(primary)] # "unknown" => \A h \in news[primary] : h <= chain

\* What is shown is the status of the last change: callbacks of goroutines that
\* report at once do not overtake each other ("Callbacks are serialised so they
\* arrive in the order the status changed", emit).
ShownIsCurrent == (\A g \in Procs : pc[g] \notin EmitPlaces) => shown = Status

\* When peers stay connected the status settles at "Connected" with the whole
\* chain, although an announcement may be counted after the round that brought
\* its block, wakes are merged, and peers hear of blocks at different times:
\* without the poll timer (wakeSync, syncLoop, connect).
StatusSettles ==
  <>[](shown = Connected /\ chain = Tip)
============================================================================
