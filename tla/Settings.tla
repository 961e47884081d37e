------------------------------ MODULE Settings ------------------------------
(***************************************************************************)
(* The Settings tab (internal/gui/settings.go, overlay.go) and the clients *)
(* of Tor and I2P (internal/tor, internal/i2p) it starts and closes.  The  *)
(* user types a peer, which is probed before the sync is pinned to it, and *)
(* flips the switches of the networks.  The user interface is one thread;  *)
(* probes, clients and their closing are goroutines, which hand it their   *)
(* results in a queue (fyne.Do), so that a result may come after the user  *)
(* did something else.  Of the sync only what SetPinned and SetOverlay set *)
(* is kept here.                                                           *)
(***************************************************************************)
EXTENDS Integers, Sequences, FiniteSets

CONSTANTS
  Peers,       \* addresses a user may type
  Reachable,   \* those that answer a probe; the others may or may not
  Bad,         \* a text that is no address
  None,        \* the empty text, no peer, no client
  Networks,    \* Tor and I2P
  Lossy,       \* networks whose session may be lost: I2P
  Flags,       \* peers of the -peer flag, None without it
  MaxMoves,    \* bound: what the user does
  MaxQueue     \* bound: results waiting for the user interface

ASSUME PeersAssumption ==
  /\ Reachable \subseteq Peers
  /\ {Bad, None} \cap Peers = {} /\ Bad # None /\ None \notin Nat
  /\ Flags \subseteq Peers \cup {None}
ASSUME NetworksAssumption == Lossy \subseteq Networks
ASSUME BoundsAssumption == MaxMoves \in Nat /\ MaxQueue \in Nat \ {0}

VARIABLES
  table,        \* the settings table: pinned peer, networks on
  disk,         \* "ok", "failing" or "again" ok: whether writes succeed
  flag,         \* the -peer flag
  field,        \* the text of the peer field
  inUse,        \* inUse
  peerStatus,   \* the status shown under the field
  edits,        \* edits
  checks,       \* the checks of peers under way, by edit
  on,           \* the networks whose switch is on
  status,       \* the status shown after each switch
  starts,       \* starts of each network's switch
  client,       \* its client, by its start, or None
  clients,      \* the clients started and not gone, by start
  queue,        \* results waiting for the user interface
  pinnedAddr,   \* the sync's pinnedAddr
  overlays,     \* the sync's overlays: the client that dials, None if not ready
  moves         \* what the user still does

peerVars == <<field, inUse, peerStatus, edits, checks>>
switchVars == <<on, status, starts, client>>
syncVars == <<pinnedAddr, overlays>>
vars == <<table, disk, flag, peerVars, switchVars, clients, queue, syncVars, moves>>

Move == moves > 0 /\ moves' = moves - 1

\* SetSetting: what the table holds afterwards.
SetSetting(new) == IF disk = "failing" THEN table ELSE new

\* The map f with the value v for x.
With(f, x, v) == [y \in DOMAIN f \cup {x} |-> IF y = x THEN v ELSE f[y]]

\* fyne.Do.
Post(m) == Len(queue) < MaxQueue /\ queue' = Append(queue, m)

(***************************************************************************)
(* Start and end of the program                                            *)
(***************************************************************************)

Fresh == [phase |-> "start", session |-> FALSE, closer |-> "none"]

\* pinnedPeer: the flag, or what is saved.
PinnedPeer(f) == IF f # None THEN f ELSE table.peer

\* The first start, with an empty settings table.
Init ==
  /\ table = [peer |-> None, on |-> {}]
  /\ disk = "ok"
  /\ moves = MaxMoves
  /\ flag \in Flags
  /\ field = flag /\ inUse = flag
  /\ peerStatus = "" /\ edits = 0 /\ checks = << >>
  /\ on = {}
  /\ status = [n \in Networks |-> "idle"]
  /\ starts = [n \in Networks |-> 0]
  /\ client = [n \in Networks |-> None]
  /\ clients = [n \in Networks |-> << >>]
  /\ queue = << >>
  /\ pinnedAddr = flag /\ overlays = << >>

\* startup: the clients of the networks on start.
Startup ==
  /\ starts' = [n \in Networks |-> IF n \in table.on THEN 1 ELSE 0]
  /\ client' = [n \in Networks |-> IF n \in table.on THEN 1 ELSE None]
  /\ clients' = [n \in Networks |-> IF n \in table.on THEN With(<< >>, 1, Fresh) ELSE << >>]
  /\ overlays' = [n \in table.on |-> None]
  /\ status' = [n \in Networks |-> IF n \in table.on THEN "starting" ELSE "idle"]

\* The program ends, or crashes, and is started again: the sync is pinned if
\* no network is on.
Restart(f) ==
  /\ Move
  /\ flag' = f
  /\ field' = PinnedPeer(f) /\ inUse' = PinnedPeer(f)
  /\ peerStatus' = "" /\ edits' = 0 /\ checks' = << >>
  /\ on' = table.on
  /\ Startup
  /\ queue' = << >>
  /\ pinnedAddr' = IF table.on = {} THEN PinnedPeer(f) ELSE None
  /\ UNCHANGED <<table, disk>>

\* Writes fail for a while.
DiskFails == disk = "ok" /\ disk' = "failing"
DiskAgain == disk = "failing" /\ disk' = "again"
Disk ==
  /\ moves > 0
  /\ DiskFails \/ DiskAgain
  /\ UNCHANGED <<table, flag, peerVars, switchVars, clients, queue, syncVars, moves>>

(***************************************************************************)
(* The pinned peer                                                         *)
(***************************************************************************)

\* stop: the checks are cancelled.
Cancelled == [e \in DOMAIN checks |-> [checks[e] EXCEPT !.cancelled = TRUE]]

\* Mutant: the peer is used although it could not be saved.
UseUnsaved(addr, t, pin) ==
  /\ table' = IF disk = "failing" THEN t ELSE [t EXCEPT !.peer = addr]
  /\ inUse' = IF disk = "failing" THEN inUse ELSE addr
  /\ pinnedAddr' = addr

\* use: the peer is saved, then the sync is pinned to it; t is the table and
\* pin the sync's peer before.
Use(addr, t, pin) ==
  IF addr = inUse \/ disk = "failing"
    THEN table' = t /\ inUse' = inUse /\ pinnedAddr' = pin
    ELSE table' = [t EXCEPT !.peer = addr] /\ inUse' = addr /\ pinnedAddr' = addr

\* edited.
Edited(text, t, pin) ==
  /\ edits' = edits + 1
  /\ checks' = IF text \in Peers
       THEN With(Cancelled, edits + 1, [addr |-> text, phase |-> "delay", cancelled |-> FALSE])
       ELSE Cancelled
  /\ peerStatus' = IF text \in Peers THEN "connecting"
                   ELSE IF text = Bad THEN "notConnected" ELSE ""
  /\ IF text = None
       THEN Use(None, t, pin)
       ELSE table' = t /\ inUse' = inUse /\ pinnedAddr' = pin

\* The user types; the field is disabled while a network is on.
Edit(text) ==
  /\ Move /\ on = {} /\ text # field
  /\ field' = text
  /\ Edited(text, table, pinnedAddr)
  /\ UNCHANGED <<disk, flag, switchVars, clients, queue, overlays>>

\* The Settings tab is opened.
Recheck ==
  /\ Move /\ on = {}
  /\ Edited(field, table, pinnedAddr)
  /\ UNCHANGED <<disk, flag, field, switchVars, clients, queue, overlays>>

\* The goroutine of a check: it waits, probes and reports.
Delay(e) ==
  /\ checks[e].phase = "delay"
  /\ \/ checks' = [checks EXCEPT ![e].phase = "probing"]
     \/ checks[e].cancelled /\ checks' = [x \in DOMAIN checks \ {e} |-> checks[x]]
  /\ UNCHANGED <<table, disk, flag, field, inUse, peerStatus, edits,
                 switchVars, clients, queue, syncVars, moves>>

Probe(e) ==
  /\ checks[e].phase = "probing"
  /\ \E ok \in BOOLEAN :
       /\ (~ok /\ checks[e].addr \in Reachable) => checks[e].cancelled
       /\ Post([kind |-> "probed", edit |-> e, addr |-> checks[e].addr, ok |-> ok])
  /\ checks' = [x \in DOMAIN checks \ {e} |-> checks[x]]
  /\ UNCHANGED <<table, disk, flag, field, inUse, peerStatus, edits,
                 switchVars, clients, syncVars, moves>>

\* Mutant: a result is taken whatever happened since.
ProbedAnyway(m) ==
  /\ IF m.ok
       THEN peerStatus' = "connected" /\ Use(m.addr, table, pinnedAddr)
       ELSE peerStatus' = "notConnected" /\ UNCHANGED <<table, inUse, pinnedAddr>>
  /\ UNCHANGED <<switchVars, overlays>>

\* probed: unless the field was edited since.
Probed(m) ==
  /\ IF m.edit # edits
       THEN UNCHANGED <<table, inUse, peerStatus, pinnedAddr>>
       ELSE IF m.ok
         THEN peerStatus' = "connected" /\ Use(m.addr, table, pinnedAddr)
         ELSE peerStatus' = "notConnected" /\ UNCHANGED <<table, inUse, pinnedAddr>>
  /\ UNCHANGED <<switchVars, overlays>>

(***************************************************************************)
(* The switches                                                            *)
(***************************************************************************)

\* begin: the sync uses the network, and its client starts.
Begin(n) ==
  /\ starts' = [starts EXCEPT ![n] = @ + 1]
  /\ client' = [client EXCEPT ![n] = starts[n] + 1]
  /\ clients' = [clients EXCEPT ![n] = With(@, starts[n] + 1, Fresh)]
  /\ overlays' = With(overlays, n, None)
  /\ status' = [status EXCEPT ![n] = "starting"]

\* Mutant: the client closed is kept.
EndKeeping(n) ==
  /\ starts' = [starts EXCEPT ![n] = @ + 1]
  /\ client' = client
  /\ clients' = [clients EXCEPT ![n][client[n]].closer = "spawned"]
  /\ overlays' = [x \in DOMAIN overlays \ {n} |-> overlays[x]]
  /\ status' = [status EXCEPT ![n] = "idle"]

\* end: the sync does without the network, and its client is closed in the
\* background.
End(n) ==
  /\ starts' = [starts EXCEPT ![n] = @ + 1]
  /\ client' = [client EXCEPT ![n] = None]
  /\ clients' = [clients EXCEPT ![n][client[n]].closer = "spawned"]
  /\ overlays' = [x \in DOMAIN overlays \ {n} |-> overlays[x]]
  /\ status' = [status EXCEPT ![n] = "idle"]

\* Mutant: a check goes on when a network is turned on.
TurnOnChecking(n) ==
  /\ Move /\ n \notin on
  /\ on' = on \cup {n}
  /\ table' = SetSetting([table EXCEPT !.on = @ \cup {n}])
  /\ pinnedAddr' = IF on = {} THEN None ELSE pinnedAddr
  /\ Begin(n)
  /\ peerStatus' = ""
  /\ UNCHANGED <<disk, flag, field, inUse, edits, checks, queue>>

\* overlaySwitched, on: the check under way is abandoned and the sync unpinned.
TurnOn(n) ==
  /\ Move /\ n \notin on
  /\ on' = on \cup {n}
  /\ table' = SetSetting([table EXCEPT !.on = @ \cup {n}])
  /\ edits' = edits + 1 /\ checks' = Cancelled
  /\ pinnedAddr' = IF on = {} THEN None ELSE pinnedAddr
  /\ Begin(n)
  /\ peerStatus' = ""
  /\ UNCHANGED <<disk, flag, field, inUse, queue>>

\* overlaySwitched, off: with the last network off the sync is pinned again
\* and the peer checked.
TurnOff(n) ==
  LET saved == SetSetting([table EXCEPT !.on = @ \ {n}]) IN
  /\ Move /\ n \in on
  /\ on' = on \ {n}
  /\ End(n)
  /\ IF on = {n}
       THEN Edited(field, saved, inUse)
       ELSE table' = saved /\ peerStatus' = "" /\ UNCHANGED <<edits, checks, inUse, pinnedAddr>>
  /\ UNCHANGED <<disk, flag, field, queue>>

\* Mutant: the state of any client of the network is taken.
ChangedAnyway(m) ==
  /\ status' = [status EXCEPT ![m.net] = IF m.net \in on THEN m.state ELSE "idle"]
  /\ overlays' = IF m.state = "ready" THEN With(overlays, m.net, m.start) ELSE overlays
  /\ UNCHANGED <<table, inUse, peerStatus, pinnedAddr, on, starts, client>>

\* changed: the client's state is shown, unless the switch was flipped since,
\* and the sync dials through it once it is ready.
Changed(m) ==
  /\ IF m.start # starts[m.net] \/ client[m.net] = None
       THEN UNCHANGED <<status, overlays>>
       ELSE /\ status' = [status EXCEPT ![m.net] = IF m.net \in on THEN m.state ELSE "idle"]
            /\ overlays' = IF m.state = "ready"
                             THEN With(overlays, m.net, client[m.net]) ELSE overlays
  /\ UNCHANGED <<table, inUse, peerStatus, pinnedAddr, on, starts, client>>

\* The user interface takes the next result.
Do ==
  /\ queue # << >>
  /\ queue' = Tail(queue)
  /\ IF Head(queue).kind = "probed" THEN Probed(Head(queue)) ELSE Changed(Head(queue))
  /\ UNCHANGED <<disk, flag, field, edits, checks, clients, moves>>

(***************************************************************************)
(* The clients: bootstrap of tor, keepSession of i2p, and Close            *)
(***************************************************************************)

Closing(c) == c.closer \in {"closing", "closed"}

Report(n, i, state) == Post([kind |-> "changed", net |-> n, start |-> i, state |-> state])

\* Another attempt begins.
Attempt(n, i) ==
  /\ clients[n][i].phase = "start"
  /\ Report(n, i, "starting")
  /\ clients' = [clients EXCEPT ![n][i].phase = "connecting"]

\* It succeeds, even if the client was closed meanwhile; bootstrap is done
\* with that, keepSession holds the session.
Connect(n, i) ==
  /\ clients[n][i].phase = "connecting"
  /\ Report(n, i, "ready")
  /\ clients' = [clients EXCEPT ![n][i].session = TRUE,
                                ![n][i].phase = IF n \in Lossy THEN "ready" ELSE "done"]

\* It fails: a closed client ends, another waits for the next attempt.
ConnectFails(n, i) ==
  /\ clients[n][i].phase = "connecting" /\ ~Closing(clients[n][i])
  /\ Report(n, i, "failed")
  /\ clients' = [clients EXCEPT ![n][i].phase = "pausing"]

\* Mutant: a failed attempt is the last.
GiveUp(n, i) ==
  /\ clients[n][i].phase = "pausing"
  /\ clients' = [clients EXCEPT ![n][i].phase = "done"]
  /\ UNCHANGED queue

Pause(n, i) ==
  /\ clients[n][i].phase = "pausing"
  /\ clients' = [clients EXCEPT ![n][i].phase = "start"]
  /\ UNCHANGED queue

\* A session is lost: after a while another one is made at once, earlier it
\* counts as a failure.
Lose(n, i) ==
  /\ n \in Lossy /\ clients[n][i].phase = "ready"
  /\ \/ /\ clients' = [clients EXCEPT ![n][i].session = FALSE, ![n][i].phase = "start"]
        /\ UNCHANGED queue
     \/ /\ ~Closing(clients[n][i])
        /\ Report(n, i, "failed")
        /\ clients' = [clients EXCEPT ![n][i].session = FALSE, ![n][i].phase = "pausing"]

\* The goroutine of a closed client returns, its session ended.
Return(n, i) ==
  /\ Closing(clients[n][i])
  /\ clients[n][i].phase \in {"connecting", "pausing", "ready"}
  /\ clients' = [clients EXCEPT ![n][i].session = FALSE, ![n][i].phase = "done"]
  /\ UNCHANGED queue

\* Close stops the attempts,
CloseBegins(n, i) ==
  /\ clients[n][i].closer = "spawned"
  /\ clients' = [clients EXCEPT ![n][i].closer = "closing"]
  /\ UNCHANGED queue

\* Mutant: it does not wait for the goroutine.
CloseAtOnce(n, i) ==
  /\ clients[n][i].closer = "closing"
  /\ clients' = [clients EXCEPT ![n][i].closer = "closed", ![n][i].session = FALSE]
  /\ UNCHANGED queue

\* waits for the goroutine, and closes what it made.
CloseEnds(n, i) ==
  /\ clients[n][i].closer = "closing" /\ clients[n][i].phase = "done"
  /\ clients' = [clients EXCEPT ![n][i].closer = "closed", ![n][i].session = FALSE]
  /\ UNCHANGED queue

Session(n, i) ==
  /\ i \in DOMAIN clients[n]
  /\ \/ Attempt(n, i) \/ Connect(n, i) \/ ConnectFails(n, i) \/ Pause(n, i)
     \/ Lose(n, i) \/ Return(n, i)
  /\ UNCHANGED <<table, disk, flag, peerVars, switchVars, syncVars, moves>>

Close(n, i) ==
  /\ i \in DOMAIN clients[n]
  /\ CloseBegins(n, i) \/ CloseEnds(n, i)
  /\ UNCHANGED <<table, disk, flag, peerVars, switchVars, syncVars, moves>>

Next ==
  \/ \E f \in Flags : Restart(f)
  \/ Disk \/ Recheck \/ Do
  \/ \E text \in Peers \cup {Bad, None} : Edit(text)
  \/ \E n \in Networks : TurnOn(n) \/ TurnOff(n)
  \/ \E e \in DOMAIN checks : Delay(e) \/ Probe(e)
  \/ \E n \in Networks : \E i \in DOMAIN clients[n] : Session(n, i) \/ Close(n, i)

Spec == Init /\ [][Next]_vars

\* The user interface, the checks and the clients run, the bound of the queue
\* holding none of them up for ever, and some attempt of a client to connect
\* succeeds.
FairSpec ==
  /\ Spec
  /\ WF_vars(Do)
  /\ SF_vars(\E e \in DOMAIN checks : Delay(e) \/ Probe(e))
  /\ \A n \in Networks :
       /\ SF_vars(client[n] # None /\ Session(n, client[n]))
       /\ SF_vars(client[n] # None /\ Session(n, client[n]) /\ Connect(n, client[n]))

(***************************************************************************)
(* Properties                                                              *)
(***************************************************************************)

States == {"starting", "ready", "failed"}

Clients ==
  [phase : {"start", "connecting", "pausing", "ready", "done"}, session : BOOLEAN,
   closer : {"none", "spawned", "closing", "closed"}]

\* Every variable keeps its type; a network has a client while it is on.
TypeOK ==
  /\ table \in [peer : Peers \cup {None}, on : SUBSET Networks]
  /\ disk \in {"ok", "failing", "again"}
  /\ flag \in Flags
  /\ field \in Peers \cup {Bad, None} /\ inUse \in Peers \cup {None}
  /\ peerStatus \in {"", "connecting", "connected", "notConnected"}
  /\ edits \in 0..MaxMoves
  /\ DOMAIN checks \subseteq 1..edits
  /\ \A e \in DOMAIN checks :
       checks[e] \in [addr : Peers, phase : {"delay", "probing"}, cancelled : BOOLEAN]
  /\ on \subseteq Networks
  /\ status \in [Networks -> States \cup {"idle"}]
  /\ starts \in [Networks -> 0..(MaxMoves + 1)]
  /\ \A n \in Networks :
       /\ DOMAIN clients[n] \subseteq 1..starts[n]
       /\ \A i \in DOMAIN clients[n] : clients[n][i] \in Clients
       /\ IF n \in on THEN client[n] \in DOMAIN clients[n] ELSE client[n] = None
  /\ Len(queue) <= MaxQueue
  /\ pinnedAddr \in Peers \cup {None}
  /\ DOMAIN overlays \subseteq Networks
  /\ moves \in 0..MaxMoves

\* The sync uses the networks on and no others, the peer in use while there
\* are none, and no pinned peer while a network is on ("the sync drop[s] its
\* peers, the pinned one included"); and the peer in use is the saved one or
\* the flag's (settingsView, use, overlaySwitched).
UsesWhatIsSet ==
  /\ DOMAIN overlays = on
  /\ pinnedAddr = IF on = {} THEN inUse ELSE None
  /\ inUse \in {flag, table.peer}

\* A peer typed is probed directly, so no check goes on once a network is on
\* (overlaySwitched, edited).
NoCheckWhileOverlay ==
  on # {} => \A e \in DOMAIN checks : checks[e].cancelled

\* What is shown is so: a network shown as ready has a client to dial with,
\* and a peer shown as connected is in the field and, if no write failed, in
\* use (show, probed, setStatus).
ShownIsSo ==
  /\ \A n \in Networks :
       /\ (status[n] = "idle") = (n \notin on)
       /\ status[n] = "ready" => overlays[n] # None
  /\ peerStatus = "connected" => on = {} /\ field \in Peers /\ (disk = "ok" => inUse = field)

\* However probes and clients end, the sync does what the tab says, the tab
\* shows what the sync does, and nothing is probed outside the networks on.
SyncFollowsSettings == UsesWhatIsSet /\ NoCheckWhileOverlay /\ ShownIsSo

\* A client closed is done with: the sync does not dial through it, although
\* its last states may arrive after it was closed or replaced, and no session
\* is left behind, although it may connect while it is being closed (changed,
\* end, Close).
ClosedClientsGone ==
  /\ \A n \in DOMAIN overlays : overlays[n] \in {None, client[n]}
  /\ \A n \in Networks : \A i \in DOMAIN clients[n] :
       clients[n][i].closer = "closed" => ~clients[n][i].session

\* Everything asked for gets done: a reachable peer left in the field is
\* pinned in the end, if no write fails; a network left on gets a client to
\* dial with, whatever clients of it were closed before (edited, begin, changed).
SettingsSettle ==
  /\ \A p \in Reachable :
       <>[](disk = "ok" /\ on = {} /\ field = p) => <>[](pinnedAddr = p)
  /\ \A n \in Networks : <>[](n \in on) => <>[](n \in on /\ overlays[n] # None)
=============================================================================
