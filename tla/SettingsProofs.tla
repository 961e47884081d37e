--------------------------- MODULE SettingsProofs ---------------------------
(***************************************************************************)
(* Proofs about Settings: type correctness, that the sync does what the    *)
(* tab says and the tab shows what the sync does, and that clients closed  *)
(* are done with, whatever the user does while probes and clients report,  *)
(* and for any peers, networks and number of moves.                        *)
(***************************************************************************)
EXTENDS Settings, SequenceTheorems, TLAPS

USE DEF vars, peerVars, switchVars, syncVars

(***************************************************************************)
(* The inductive invariant                                                 *)
(***************************************************************************)

Texts == Peers \cup {Bad, None}
Tables == [peer : Peers \cup {None}, on : SUBSET Networks]

\* Every edit and every start of a network is a move of the user, but for the
\* starts when the program starts.
MovesOK ==
  /\ moves \in 0..MaxMoves /\ edits \in Nat /\ edits + moves <= MaxMoves
  /\ starts \in [Networks -> Nat]
  /\ \A n \in Networks : starts[n] + moves <= MaxMoves + 1

\* What is stored, typed and shown has its type.
PeerOK ==
  /\ table \in Tables /\ disk \in {"ok", "failing", "again"} /\ flag \in Flags
  /\ field \in Texts /\ inUse \in Peers \cup {None}
  /\ peerStatus \in {"", "connecting", "connected", "notConnected"}
  /\ on \subseteq Networks

\* The check or the result of the latest edit is of the peer in the field, and
\* no network is on.
Current(e, addr) == e <= edits /\ (e = edits => on = {} /\ addr = field)

Checks == [addr : Peers, phase : {"delay", "probing"}, cancelled : BOOLEAN]
ChecksOK ==
  /\ DOMAIN checks \subseteq 1..edits
  /\ \A e \in DOMAIN checks :
       /\ checks[e] \in Checks /\ Current(e, checks[e].addr)
       /\ on # {} => checks[e].cancelled

Probes == [kind : {"probed"}, edit : Nat, addr : Peers, ok : BOOLEAN]
Changes == [kind : {"changed"}, net : Networks, start : Nat, state : States]
QueueOK ==
  /\ queue \in Seq(Probes \cup Changes) /\ Len(queue) <= MaxQueue
  /\ \A i \in 1..Len(queue) :
       queue[i].kind = "probed" => Current(queue[i].edit, queue[i].addr)

\* A client is closed once its goroutine returned, and has no session then.
DoneWith(c) == c.closer = "closed" => c.phase = "done" /\ ~c.session
ClientsOK ==
  /\ DOMAIN clients = Networks
  /\ \A n \in Networks :
       /\ DOMAIN clients[n] \subseteq 1..starts[n]
       /\ \A i \in DOMAIN clients[n] : clients[n][i] \in Clients /\ DoneWith(clients[n][i])

SwitchOK ==
  /\ DOMAIN client = Networks
  /\ \A n \in Networks : IF n \in on THEN client[n] \in DOMAIN clients[n] ELSE client[n] = None

OverlaysOK ==
  /\ DOMAIN overlays = on
  /\ \A n \in on : overlays[n] \in {None, client[n]}

StatusOK ==
  /\ status \in [Networks -> States \cup {"idle"}]
  /\ \A n \in Networks :
       /\ (status[n] = "idle") = (n \notin on)
       /\ status[n] = "ready" => overlays[n] # None

PinOK ==
  /\ pinnedAddr = IF on = {} THEN inUse ELSE None
  /\ inUse \in {flag, table.peer}
  /\ peerStatus = "connected" => on = {} /\ field \in Peers /\ (disk = "ok" => inUse = field)

SettingsInv ==
  /\ MovesOK /\ PeerOK /\ ChecksOK /\ QueueOK
  /\ ClientsOK /\ SwitchOK /\ OverlaysOK /\ StatusOK /\ PinOK

\* The invariant says what the properties do.
LEMMA InvImplies ==
  ASSUME SettingsInv
  PROVE  TypeOK /\ SyncFollowsSettings /\ ClosedClientsGone
  <1> USE DEF SettingsInv
  <1>1. TypeOK
    <2>1. edits \in 0..MaxMoves /\ starts \in [Networks -> 0..(MaxMoves + 1)]
      BY BoundsAssumption DEF MovesOK
    <2>2. pinnedAddr \in Peers \cup {None}
      BY DEF PinOK, PeerOK
    <2> QED
      BY <2>1, <2>2 DEF TypeOK, MovesOK, PeerOK, Texts, Tables, ChecksOK, Checks, QueueOK,
         ClientsOK, SwitchOK, OverlaysOK, StatusOK
  <1>2. SyncFollowsSettings
    BY DEF SyncFollowsSettings, UsesWhatIsSet, NoCheckWhileOverlay, ShownIsSo, ChecksOK,
       OverlaysOK, StatusOK, PinOK
  <1>3. ClosedClientsGone
    BY DEF ClosedClientsGone, ClientsOK, DoneWith, OverlaysOK
  <1> QED BY <1>1, <1>2, <1>3

(***************************************************************************)
(* The start of the program                                                *)
(***************************************************************************)

\* The map of nothing.
LEMMA NoMap == DOMAIN << >> = {}
  <1>1. << >> \in Seq({}) /\ Len(<< >>) = 0
    BY EmptySeq
  <1>2. DOMAIN << >> = 1..0
    BY <1>1, LenProperties
  <1> QED BY <1>2

\* Nothing waits in the empty queue.
LEMMA EmptyQueue ==
  /\ << >> \in Seq(Probes \cup Changes) /\ Len(<< >>) <= MaxQueue
  /\ \A i : i \notin 1..Len(<< >>)
  <1>1. << >> \in Seq(Probes \cup Changes) /\ Len(<< >>) = 0
    BY EmptySeq
  <1>2. 0 <= MaxQueue
    BY BoundsAssumption
  <1> QED BY <1>1, <1>2

\* A move leaves one fewer, so that what it counts keeps to the bound.
LEMMA MoveFacts ==
  ASSUME MovesOK, Move, NEW S \in SUBSET Networks, edits' \in {edits, edits + 1},
         starts' = [n \in Networks |-> IF n \in S THEN starts[n] + 1 ELSE starts[n]]
  PROVE  MovesOK'
  <1>1. moves \in Nat /\ moves \in 0..MaxMoves /\ moves > 0 /\ moves' = moves - 1
    BY BoundsAssumption DEF MovesOK, Move
  <1>2. moves' \in 0..MaxMoves
    BY <1>1, BoundsAssumption
  <1>4. edits' \in Nat /\ edits' + moves' <= MaxMoves
    <2>1. MaxMoves \in Nat /\ edits \in Nat /\ edits + moves <= MaxMoves
      BY BoundsAssumption DEF MovesOK
    <2>2. CASE edits' = edits
      BY <1>1, <2>1, <2>2
    <2>3. CASE edits' = edits + 1
      BY <1>1, <2>1, <2>3
    <2> QED BY <2>2, <2>3
  <1>3. ASSUME NEW n \in Networks
        PROVE  starts'[n] \in Nat /\ starts'[n] + moves' <= MaxMoves + 1
    BY <1>1, BoundsAssumption DEF MovesOK
  <1> QED BY <1>2, <1>3, <1>4 DEF MovesOK

\* A client begins without a session and is not closed.
LEMMA FreshIsClient == Fresh \in Clients /\ DoneWith(Fresh)
  BY DEF Fresh, Clients, DoneWith

\* Nothing is under way when the program starts.
LEMMA InitInv == Init => SettingsInv
  <1> SUFFICES ASSUME Init PROVE SettingsInv
    OBVIOUS
  <1>1. MovesOK
    <2>1. starts = [n \in Networks |-> 0] /\ moves = MaxMoves /\ edits = 0
      BY DEF Init
    <2>2. starts \in [Networks -> Nat] /\ \A n \in Networks : starts[n] = 0
      BY <2>1
    <2>3. 0..MaxMoves \subseteq Nat /\ MaxMoves \in 0..MaxMoves /\ 0 + MaxMoves <= MaxMoves
      BY BoundsAssumption
    <2>4. 0 + MaxMoves <= MaxMoves + 1
      BY BoundsAssumption
    <2> QED BY <2>1, <2>2, <2>3, <2>4 DEF MovesOK
  <1> USE DEF Init
  <1>2. PeerOK
    BY PeersAssumption DEF PeerOK, Texts, Tables
  <1>3. ChecksOK
    BY NoMap DEF ChecksOK
  <1>4. QueueOK
    BY EmptyQueue DEF QueueOK
  <1>5. ClientsOK
    BY NoMap DEF ClientsOK
  <1>6. SwitchOK /\ OverlaysOK
    BY NoMap DEF SwitchOK, OverlaysOK
  <1>7. StatusOK
    BY DEF StatusOK
  <1>8. PinOK
    BY DEF PinOK
  <1> QED BY <1>1, <1>2, <1>3, <1>4, <1>5, <1>6, <1>7, <1>8 DEF SettingsInv

\* The clients of a network that just started.
LEMMA StartedFacts ==
  DOMAIN With(<< >>, 1, Fresh) = {1} /\ With(<< >>, 1, Fresh)[1] = Fresh
  <1> DEFINE e == << >>
  <1>1. DOMAIN e = {}
    BY NoMap
  <1> HIDE DEF e
  <1>2. DOMAIN With(e, 1, Fresh) = {1} /\ With(e, 1, Fresh)[1] = Fresh
    BY <1>1 DEF With
  <1> QED BY <1>2 DEF e

\* A restart starts the clients of the networks saved as on.
LEMMA RestartInv ==
  ASSUME SettingsInv, NEW f \in Flags, Restart(f)
  PROVE  SettingsInv'
  <1>0. table.on \subseteq Networks /\ table' = table /\ on' = table.on
    BY DEF SettingsInv, Restart, PeerOK, Tables
  <1>1. MovesOK'
    <2>1. Move /\ edits' = 0 /\ starts' = [n \in Networks |-> IF n \in table.on THEN 1 ELSE 0]
      BY DEF Restart, Startup
    <2>2. moves' \in Nat /\ moves' \in 0..MaxMoves /\ moves' + 1 <= MaxMoves /\ MaxMoves \in Nat
      <3>1. moves \in 0..MaxMoves /\ moves > 0 /\ moves' = moves - 1 /\ MaxMoves \in Nat
        BY <2>1, BoundsAssumption DEF SettingsInv, MovesOK, Move
      <3> QED BY <3>1
    <2>3. starts' \in [Networks -> Nat] /\ \A n \in Networks : starts'[n] \in {0, 1}
      BY <2>1
    <2>4. \A m, b \in Nat : m + 1 <= b => 0 + m <= b /\ 0 + m <= b + 1 /\ 1 + m <= b + 1
      OBVIOUS
    <2>5. 0 + moves' <= MaxMoves /\ 0 + moves' <= MaxMoves + 1 /\ 1 + moves' <= MaxMoves + 1
      BY <2>2, <2>4
    <2>6. 0 \in Nat
      OBVIOUS
    <2> QED BY <2>1, <2>2, <2>3, <2>5, <2>6 DEF MovesOK
  <1>8. 1 \in 1..1
    OBVIOUS
  <1> USE DEF SettingsInv, Restart, Startup
  <1>2. PeerOK'
    BY <1>0, PeersAssumption DEF PeerOK, PinnedPeer, Texts, Tables
  <1>3. ChecksOK' /\ QueueOK'
    <2>1. ChecksOK'
      BY NoMap DEF ChecksOK
    <2>2. QueueOK'
      BY EmptyQueue DEF QueueOK
    <2> QED BY <2>1, <2>2
  <1>4. ClientsOK'
    <2>1. DOMAIN clients' = Networks
      OBVIOUS
    <2>2. ASSUME NEW n \in Networks
          PROVE  /\ DOMAIN clients'[n] \subseteq 1..starts'[n]
                 /\ \A i \in DOMAIN clients'[n] :
                      clients'[n][i] \in Clients /\ DoneWith(clients'[n][i])
      <3>1. CASE n \in table.on
        <4>1. clients'[n] = With(<< >>, 1, Fresh) /\ starts'[n] = 1
          BY <3>1
        <4>2. DOMAIN clients'[n] = {1} /\ clients'[n][1] = Fresh
          BY <4>1, StartedFacts
        <4> QED BY <1>8, <4>1, <4>2, FreshIsClient
      <3>2. CASE n \notin table.on
        <4>1. clients'[n] = << >>
          BY <3>2
        <4> QED BY <4>1, NoMap
      <3> QED BY <3>1, <3>2
    <2> QED BY <2>1, <2>2 DEF ClientsOK
  <1>5. SwitchOK' /\ OverlaysOK'
    <2>1. ASSUME NEW n \in table.on PROVE 1 \in DOMAIN clients'[n]
      <3>1. clients'[n] = With(<< >>, 1, Fresh)
        BY <1>0
      <3> QED BY <3>1, StartedFacts
    <2>2. SwitchOK'
      BY <1>0, <2>1 DEF SwitchOK
    <2>3. OverlaysOK'
      BY <1>0 DEF OverlaysOK
    <2> QED BY <2>2, <2>3
  <1>6. StatusOK'
    BY <1>0 DEF StatusOK, States
  <1>7. PinOK'
    BY <1>0 DEF PinOK, PinnedPeer
  <1> QED BY <1>1, <1>2, <1>3, <1>4, <1>5, <1>6, <1>7

(***************************************************************************)
(* The pinned peer                                                         *)
(***************************************************************************)

\* The disk fails once: what is in use is not said to be saved from then on.
LEMMA DiskInv ==
  ASSUME SettingsInv, Disk
  PROVE  SettingsInv'
  <1> USE DEF SettingsInv, Disk
  <1>1. disk' \in {"failing", "again"}
    BY DEF DiskFails, DiskAgain
  <1>2. MovesOK' /\ PeerOK'
    BY <1>1 DEF MovesOK, PeerOK
  <1>3. ChecksOK' /\ QueueOK'
    BY DEF ChecksOK, QueueOK, Current
  <1>4. ClientsOK' /\ SwitchOK' /\ OverlaysOK' /\ StatusOK'
    BY DEF ClientsOK, SwitchOK, OverlaysOK, StatusOK
  <1>5. PinOK'
    BY <1>1 DEF PinOK
  <1> QED BY <1>2, <1>3, <1>4, <1>5

\* A result waiting is out of date once there is another edit.
LEMMA OldResults ==
  ASSUME QueueOK, edits \in Nat, edits' = edits + 1, UNCHANGED queue
  PROVE  QueueOK'
  <1>1. ASSUME NEW i \in 1..Len(queue), queue[i].kind = "probed"
        PROVE  queue[i].edit <= edits' /\ queue[i].edit # edits'
    <2>1. queue[i] \in Probes \cup Changes
      BY DEF QueueOK
    <2>2. queue[i].edit \in Nat /\ queue[i].edit <= edits
      BY <1>1, <2>1 DEF QueueOK, Current, Probes, Changes
    <2> QED BY <2>2
  <1> QED BY <1>1 DEF QueueOK, Current

\* No check of an earlier edit goes on.
LEMMA OldChecks ==
  ASSUME ChecksOK, edits \in Nat, edits' = edits + 1, checks' = Cancelled
  PROVE  ChecksOK'
  <1>1. DOMAIN checks' = DOMAIN checks /\ DOMAIN checks \subseteq 1..edits
    BY DEF Cancelled, ChecksOK
  <1>2. ASSUME NEW e \in DOMAIN checks
        PROVE  /\ checks'[e] \in Checks /\ checks'[e].cancelled
               /\ e <= edits' /\ e # edits'
    <2>1. e \in 1..edits
      BY <1>1
    <2>2. checks[e] \in Checks /\ checks'[e] = [checks[e] EXCEPT !.cancelled = TRUE]
      BY DEF Cancelled, ChecksOK
    <2>3. e <= edits' /\ e # edits'
      BY <2>1
    <2>4. checks'[e] \in Checks /\ checks'[e].cancelled
      BY <2>2 DEF Checks
    <2> QED BY <2>3, <2>4
  <1>3. DOMAIN checks' \subseteq 1..edits'
    BY <1>1
  <1> QED BY <1>1, <1>2, <1>3 DEF ChecksOK, Current

\* What is used is saved, unless the write fails.
LEMMA UseFacts ==
  ASSUME NEW addr \in Peers \cup {None}, NEW t \in Tables, NEW pin, Use(addr, t, pin),
         inUse \in Peers \cup {None}
  PROVE  /\ table' \in Tables /\ inUse' \in Peers \cup {None}
         /\ inUse \in {flag, t.peer} => inUse' \in {flag, table'.peer}
         /\ pin = inUse => pinnedAddr' = inUse'
         /\ disk # "failing" => inUse' = addr
  BY DEF Use, Tables

\* The field was edited, no network being on: the text is checked if it is a
\* peer, and no peer is used if there is no text.
LEMMA EditedFacts ==
  ASSUME SettingsInv, NEW text \in Texts, NEW t \in Tables, Edited(text, t, inUse),
         t.peer = table.peer, on' = {}, field' = text, UNCHANGED <<disk, flag, queue>>
  PROVE  PeerOK' /\ ChecksOK' /\ QueueOK' /\ PinOK' /\ edits' = edits + 1
  <1>1. edits \in Nat /\ edits' = edits + 1
    BY DEF SettingsInv, Edited, MovesOK
  <1>2. QueueOK'
    BY <1>1, OldResults DEF SettingsInv
  <1>3. ChecksOK'
    <2>1. CASE text \in Peers
      <3> DEFINE c == [addr |-> text, phase |-> "delay", cancelled |-> FALSE]
      <3>1. c \in Checks
        BY <2>1 DEF Checks
      <3>2. checks' = With(Cancelled, edits + 1, c) /\ c.addr = text
        BY <2>1 DEF Edited
      <3> HIDE DEF c
      <3>3. DOMAIN Cancelled = DOMAIN checks /\ DOMAIN checks \subseteq 1..edits
        BY DEF SettingsInv, Cancelled, ChecksOK
      <3>4. DOMAIN checks' = DOMAIN checks \cup {edits + 1} /\ checks'[edits + 1] = c
        BY <3>2, <3>3 DEF With
      <3>5. ASSUME NEW e \in DOMAIN checks
            PROVE  /\ checks'[e] \in Checks
                   /\ e <= edits' /\ e # edits'
        <4>1. e \in 1..edits /\ e # edits + 1
          <5>1. e \in 1..edits
            BY <3>3
          <5> QED BY <1>1, <5>1
        <4>2. checks'[e] = Cancelled[e]
          BY <3>2, <3>3, <4>1 DEF With
        <4>3. Cancelled[e] \in Checks
          BY DEF SettingsInv, Cancelled, ChecksOK, Checks
        <4>4. e <= edits' /\ e # edits'
          BY <1>1, <4>1
        <4> QED BY <4>2, <4>3, <4>4
      <3>6. DOMAIN checks' \subseteq 1..edits'
        <4>1. 1..edits \subseteq 1..edits' /\ edits + 1 \in 1..edits'
          BY <1>1
        <4> QED BY <3>3, <3>4, <4>1
      <3> QED BY <1>1, <3>1, <3>2, <3>4, <3>5, <3>6 DEF ChecksOK, Current
    <2>2. CASE text \notin Peers
      BY <1>1, <2>2, OldChecks DEF SettingsInv, Edited
    <2> QED BY <2>1, <2>2
  <1> USE DEF SettingsInv, Edited
  <1>4. /\ table' \in Tables /\ inUse' \in Peers \cup {None}
        /\ inUse' \in {flag, table'.peer} /\ pinnedAddr' = inUse'
    <2>1. inUse \in Peers \cup {None} /\ inUse \in {flag, t.peer}
      BY DEF PeerOK, PinOK
    <2>2. CASE text = None
      BY <2>1, <2>2, UseFacts
    <2>3. CASE text # None
      BY <2>1, <2>3
    <2> QED BY <2>2, <2>3
  <1>5. peerStatus' \in {"", "connecting", "notConnected"}
    OBVIOUS
  <1>6. PeerOK' /\ PinOK'
    BY <1>4, <1>5 DEF PeerOK, PinOK
  <1> QED BY <1>1, <1>2, <1>3, <1>6

\* The user types, or opens the tab: no network is on.
LEMMA EditInv ==
  ASSUME SettingsInv, Recheck \/ \E text \in Texts : Edit(text)
  PROVE  SettingsInv'
  <1>0. PICK text \in Texts :
          /\ Move /\ on = {} /\ on' = {} /\ field' = text
          /\ Edited(text, table, pinnedAddr)
          /\ UNCHANGED <<disk, flag, switchVars, clients, queue, overlays>>
    BY DEF Recheck, Edit, SettingsInv, PeerOK
  <1>1. PeerOK' /\ ChecksOK' /\ QueueOK' /\ PinOK' /\ edits' = edits + 1
    <2>1. table \in Tables /\ pinnedAddr = inUse
      BY <1>0 DEF SettingsInv, PeerOK, PinOK
    <2> QED BY <1>0, <2>1, EditedFacts
  <1>2. MovesOK'
    <2>1. starts' = [n \in Networks |-> IF n \in {} THEN starts[n] + 1 ELSE starts[n]]
      BY <1>0 DEF SettingsInv, MovesOK
    <2> QED BY <1>0, <1>1, <2>1, MoveFacts DEF SettingsInv
  <1>3. ClientsOK' /\ SwitchOK' /\ OverlaysOK' /\ StatusOK'
    BY <1>0 DEF SettingsInv, ClientsOK, SwitchOK, OverlaysOK, StatusOK
  <1> QED BY <1>1, <1>2, <1>3 DEF SettingsInv

\* The goroutine of a check goes on, or returns if it was cancelled.
LEMMA DelayInv ==
  ASSUME SettingsInv, NEW e \in DOMAIN checks, Delay(e)
  PROVE  SettingsInv'
  <1> USE DEF SettingsInv, Delay
  <1>1. ChecksOK'
    <2>1. CASE checks' = [checks EXCEPT ![e].phase = "probing"]
      BY <2>1 DEF ChecksOK, Checks, Current
    <2>2. CASE checks' = [x \in DOMAIN checks \ {e} |-> checks[x]]
      BY <2>2 DEF ChecksOK, Current
    <2> QED BY <2>1, <2>2
  <1>2. MovesOK' /\ PeerOK' /\ PinOK'
    BY DEF MovesOK, PeerOK, PinOK
  <1>3. QueueOK'
    BY DEF QueueOK, Current
  <1>4. ClientsOK' /\ SwitchOK' /\ OverlaysOK' /\ StatusOK'
    BY DEF ClientsOK, SwitchOK, OverlaysOK, StatusOK
  <1> QED BY <1>1, <1>2, <1>3, <1>4

\* A result is queued for the user interface.
LEMMA PostFacts ==
  ASSUME QueueOK, NEW m \in Probes \cup Changes, Post(m), UNCHANGED <<edits, on, field>>,
         m.kind = "probed" => Current(m.edit, m.addr)
  PROVE  QueueOK'
  <1>1. /\ queue' \in Seq(Probes \cup Changes) /\ Len(queue') = Len(queue) + 1
        /\ \A i \in 1..Len(queue) : queue'[i] = queue[i]
        /\ queue'[Len(queue) + 1] = m
    BY AppendProperties DEF QueueOK, Post
  <1>2. Len(queue) \in Nat /\ Len(queue') <= MaxQueue
    BY <1>1, BoundsAssumption, LenProperties DEF QueueOK, Post
  <1>3. ASSUME NEW i \in 1..Len(queue'), queue'[i].kind = "probed"
        PROVE  Current(queue'[i].edit, queue'[i].addr)
    <2>1. Current(queue'[i].edit, queue'[i].addr)
      BY <1>1, <1>2, <1>3 DEF QueueOK
    <2> QED BY <2>1
  <1> QED BY <1>1, <1>2, <1>3 DEF QueueOK, Current

\* The result of a probe is that of its edit.
LEMMA ProbeInv ==
  ASSUME SettingsInv, NEW e \in DOMAIN checks, Probe(e)
  PROVE  SettingsInv'
  <1> USE DEF SettingsInv, Probe
  <1>1. QueueOK'
    <2>1. PICK ok \in BOOLEAN :
            Post([kind |-> "probed", edit |-> e, addr |-> checks[e].addr, ok |-> ok])
      OBVIOUS
    <2>2. e \in Nat /\ checks[e].addr \in Peers /\ Current(e, checks[e].addr)
      BY DEF ChecksOK, Checks, MovesOK
    <2>3. [kind |-> "probed", edit |-> e, addr |-> checks[e].addr, ok |-> ok] \in Probes
      BY <2>2 DEF Probes
    <2> QED BY <2>1, <2>2, <2>3, PostFacts
  <1>2. ChecksOK'
    BY DEF ChecksOK, Current
  <1>3. MovesOK' /\ PeerOK' /\ PinOK'
    BY DEF MovesOK, PeerOK, PinOK
  <1>4. ClientsOK' /\ SwitchOK' /\ OverlaysOK' /\ StatusOK'
    BY DEF ClientsOK, SwitchOK, OverlaysOK, StatusOK
  <1> QED BY <1>1, <1>2, <1>3, <1>4

(***************************************************************************)
(* The results                                                             *)
(***************************************************************************)

\* The first result leaves the queue.
LEMMA TailFacts ==
  ASSUME QueueOK, queue # << >>, queue' = Tail(queue), UNCHANGED <<edits, on, field>>
  PROVE  /\ QueueOK' /\ Head(queue) \in Probes \cup Changes
         /\ Head(queue).kind = "probed" => Current(Head(queue).edit, Head(queue).addr)
  <1>1. /\ queue \in Seq(Probes \cup Changes) /\ Len(queue) \in Nat \ {0}
        /\ Head(queue) = queue[1] /\ Head(queue) \in Probes \cup Changes
        /\ queue' \in Seq(Probes \cup Changes) /\ Len(queue') = Len(queue) - 1
        /\ \A i \in 1..Len(queue') : queue'[i] = queue[i + 1]
    BY HeadTailProperties, EmptySeq, LenProperties DEF QueueOK
  <1>2. ASSUME NEW i \in 1..Len(queue'), queue'[i].kind = "probed"
        PROVE  Current(queue'[i].edit, queue'[i].addr)
    <2>1. i + 1 \in 1..Len(queue) /\ queue'[i] = queue[i + 1]
      BY <1>1
    <2>2. Current(queue'[i].edit, queue'[i].addr)
      BY <1>2, <2>1 DEF QueueOK
    <2> QED BY <2>2
  <1>3. Len(queue') <= MaxQueue
    BY <1>1, BoundsAssumption DEF QueueOK
  <1>4. Head(queue).kind = "probed" => Current(Head(queue).edit, Head(queue).addr)
    BY <1>1 DEF QueueOK
  <1> QED BY <1>1, <1>2, <1>3, <1>4 DEF QueueOK, Current

\* A peer that answers is used if it is still the one in the field.
LEMMA ProbedInv ==
  ASSUME SettingsInv, NEW m \in Probes, Current(m.edit, m.addr), Probed(m),
         UNCHANGED <<disk, flag, field, edits>>
  PROVE  PeerOK' /\ PinOK'
  <1> USE DEF Probed, SettingsInv
  <1>1. CASE m.edit # edits
    BY <1>1 DEF PeerOK, PinOK
  <1>2. CASE m.edit = edits /\ ~m.ok
    BY <1>2 DEF PeerOK, PinOK
  <1>3. CASE m.edit = edits /\ m.ok
    <2>1. on = {} /\ m.addr = field /\ field \in Peers /\ on' = on
      BY <1>3 DEF Current, Probes
    <2>2. peerStatus' = "connected" /\ Use(field, table, pinnedAddr)
      BY <1>3, <2>1
    <2>3. /\ table' \in Tables /\ inUse' \in Peers \cup {None}
          /\ inUse' \in {flag, table'.peer} /\ pinnedAddr' = inUse'
          /\ disk # "failing" => inUse' = field
      <3>1. /\ inUse \in Peers \cup {None} /\ table \in Tables
            /\ inUse \in {flag, table.peer} /\ pinnedAddr = inUse
        BY <2>1 DEF PeerOK, PinOK
      <3> QED BY <2>1, <2>2, <3>1, UseFacts
    <2> QED BY <2>1, <2>2, <2>3 DEF PeerOK, PinOK
  <1> QED BY <1>1, <1>2, <1>3

\* The state of a client is shown only while the client is the network's.
LEMMA ChangedInv ==
  ASSUME SettingsInv, NEW m \in Changes, Changed(m)
  PROVE  OverlaysOK' /\ StatusOK'
  <1> USE DEF Changed, SettingsInv
  <1> DEFINE n == m.net
  <1>0. n \in Networks /\ m.state \in States
    BY DEF Changes
  <1> HIDE DEF n
  <1>1. CASE m.start # starts[n] \/ client[n] = None
    BY <1>1 DEF OverlaysOK, StatusOK, n
  <1>2. CASE m.start = starts[n] /\ client[n] # None
    <2>1. n \in on /\ n \in DOMAIN overlays
      BY <1>0, <1>2 DEF SwitchOK, OverlaysOK
    <2>2. /\ status' = [status EXCEPT ![n] = m.state]
          /\ overlays' = IF m.state = "ready" THEN With(overlays, n, client[n]) ELSE overlays
      BY <1>2, <2>1 DEF n
    <2>3. /\ DOMAIN overlays' = on
          /\ m.state = "ready" => overlays'[n] = client[n]
          /\ m.state # "ready" => overlays' = overlays
          /\ \A x \in on : x # n => overlays'[x] = overlays[x]
      <3>1. CASE m.state = "ready"
        BY <2>1, <2>2, <3>1 DEF OverlaysOK, With
      <3>2. CASE m.state # "ready"
        BY <2>1, <2>2, <3>2 DEF OverlaysOK
      <3> QED BY <3>1, <3>2
    <2>4. OverlaysOK'
      BY <2>1, <2>3 DEF OverlaysOK
    <2>5. status' \in [Networks -> States \cup {"idle"}]
      BY <1>0, <2>2 DEF StatusOK
    <2>6. ASSUME NEW x \in Networks
          PROVE  /\ (status'[x] = "idle") = (x \notin on)
                 /\ status'[x] = "ready" => overlays'[x] # None
      <3>1. CASE x = n
        <4>1. status'[x] = m.state /\ m.state # "idle"
          BY <1>0, <2>2, <3>1 DEF StatusOK, States
        <4> QED BY <1>2, <2>1, <2>3, <3>1, <4>1
      <3>2. CASE x # n
        <4>1. status'[x] = status[x]
          BY <2>2, <3>2 DEF StatusOK
        <4>2. status[x] = "ready" => x \in on
          BY DEF StatusOK
        <4> QED BY <2>3, <3>2, <4>1, <4>2 DEF StatusOK
      <3> QED BY <3>1, <3>2
    <2> QED BY <2>4, <2>5, <2>6 DEF StatusOK
  <1> QED BY <1>1, <1>2

\* The user interface takes a result.
LEMMA DoInv ==
  ASSUME SettingsInv, Do
  PROVE  SettingsInv'
  <1> USE DEF SettingsInv, Do
  <1> DEFINE m == Head(queue)
  <1>1. on' = on
    BY DEF Probed, Changed
  <1>2. /\ QueueOK' /\ m \in Probes \cup Changes
        /\ m.kind = "probed" => Current(m.edit, m.addr)
    BY <1>1, TailFacts
  <1> HIDE DEF m
  <1>3. MovesOK' /\ ChecksOK'
    <2>1. starts' = starts
      BY DEF Probed, Changed
    <2> QED BY <1>1, <2>1 DEF MovesOK, ChecksOK, Current
  <1>4. PeerOK' /\ PinOK'
    <2>1. CASE m.kind = "probed"
      <3>1. m \in Probes /\ Probed(m)
        BY <1>2, <2>1 DEF Probes, Changes, m
      <3> QED BY <1>2, <2>1, <3>1, ProbedInv
    <2>2. CASE m.kind # "probed"
      <3>1. Changed(m)
        BY <2>2 DEF m
      <3> QED BY <1>1, <3>1 DEF PeerOK, PinOK, Changed
    <2> QED BY <2>1, <2>2
  <1>5. OverlaysOK' /\ StatusOK'
    <2>1. CASE m.kind = "probed"
      <3>1. Probed(m)
        BY <2>1 DEF m
      <3> QED BY <3>1 DEF OverlaysOK, StatusOK, Probed
    <2>2. CASE m.kind # "probed"
      <3>1. m \in Changes /\ Changed(m)
        BY <1>2, <2>2 DEF Probes, m
      <3> QED BY <3>1, ChangedInv
    <2> QED BY <2>1, <2>2
  <1>6. ClientsOK' /\ SwitchOK'
    <2>1. starts' = starts /\ client' = client
      BY DEF Probed, Changed
    <2> QED BY <1>1, <2>1 DEF ClientsOK, SwitchOK
  <1> QED BY <1>2, <1>3, <1>4, <1>5, <1>6

(***************************************************************************)
(* The switches                                                            *)
(***************************************************************************)

\* A network starts with a client of its own that has no session yet.
LEMMA BeginInv ==
  ASSUME SettingsInv, NEW n \in Networks, n \notin on, Begin(n), on' = on \cup {n}
  PROVE  /\ ClientsOK' /\ SwitchOK' /\ OverlaysOK' /\ StatusOK'
         /\ starts' = [starts EXCEPT ![n] = @ + 1]
  <1> USE DEF SettingsInv, Begin
  <1>0. starts \in [Networks -> Nat] /\ starts[n] \in Nat
    BY DEF MovesOK
  <1>1. /\ starts' = [starts EXCEPT ![n] = @ + 1]
        /\ starts'[n] = starts[n] + 1
        /\ \A x \in Networks : x # n => starts'[x] = starts[x]
    BY <1>0
  <1>2. /\ DOMAIN clients' = Networks
        /\ clients'[n] = With(clients[n], starts[n] + 1, Fresh)
        /\ \A x \in Networks : x # n => clients'[x] = clients[x]
    BY DEF ClientsOK
  <1>3. /\ DOMAIN clients'[n] = DOMAIN clients[n] \cup {starts[n] + 1}
        /\ clients'[n][starts[n] + 1] = Fresh
        /\ \A i \in DOMAIN clients[n] : i # starts[n] + 1 => clients'[n][i] = clients[n][i]
    BY <1>2 DEF With
  <1>4. ClientsOK'
    <2>1. ASSUME NEW x \in Networks
          PROVE  /\ DOMAIN clients'[x] \subseteq 1..starts'[x]
                 /\ \A i \in DOMAIN clients'[x] :
                      clients'[x][i] \in Clients /\ DoneWith(clients'[x][i])
      <3>1. CASE x = n
        <4>1. DOMAIN clients'[n] \subseteq 1..starts'[n]
          <5>1. DOMAIN clients[n] \subseteq 1..starts[n]
            BY DEF ClientsOK
          <5> QED BY <1>0, <1>1, <1>3, <5>1
        <4>2. ASSUME NEW i \in DOMAIN clients'[n]
              PROVE  clients'[n][i] \in Clients /\ DoneWith(clients'[n][i])
          BY <1>3, FreshIsClient DEF ClientsOK
        <4> QED BY <3>1, <4>1, <4>2
      <3>2. CASE x # n
        BY <1>1, <1>2, <3>2 DEF ClientsOK
      <3> QED BY <3>1, <3>2
    <2> QED BY <1>2, <2>1 DEF ClientsOK
  <1>5. SwitchOK'
    <2>1. /\ DOMAIN client' = Networks /\ client'[n] = starts[n] + 1
          /\ \A x \in Networks : x # n => client'[x] = client[x]
      BY DEF SwitchOK
    <2> QED BY <1>2, <1>3, <2>1 DEF SwitchOK
  <1>6. /\ DOMAIN overlays' = on \cup {n} /\ overlays'[n] = None
        /\ \A x \in on : overlays'[x] = overlays[x]
    BY DEF OverlaysOK, With
  <1>7. OverlaysOK'
    <2>1. \A x \in on : client'[x] = client[x]
      BY DEF SwitchOK, PeerOK
    <2> QED BY <1>6, <2>1 DEF OverlaysOK
  <1>8. StatusOK'
    <2>1. /\ status' \in [Networks -> States \cup {"idle"}] /\ status'[n] = "starting"
          /\ \A x \in Networks : x # n => status'[x] = status[x]
      BY DEF StatusOK, States
    <2>2. ASSUME NEW x \in Networks, x # n
          PROVE  /\ (status'[x] = "idle") = (x \notin on')
                 /\ status'[x] = "ready" => overlays'[x] # None
      BY <1>6, <2>1, <2>2 DEF StatusOK
    <2> QED BY <2>1, <2>2 DEF StatusOK
  <1> QED BY <1>1, <1>4, <1>5, <1>7, <1>8

\* A switch is turned on: the sync is unpinned and nothing is checked.
LEMMA TurnOnInv ==
  ASSUME SettingsInv, NEW n \in Networks, TurnOn(n)
  PROVE  SettingsInv'
  <1> USE DEF SettingsInv
  <1>1. /\ ClientsOK' /\ SwitchOK' /\ OverlaysOK' /\ StatusOK'
        /\ starts' = [starts EXCEPT ![n] = @ + 1]
    BY BeginInv DEF TurnOn
  <1>2. MovesOK'
    <2>1. starts' = [x \in Networks |-> IF x \in {n} THEN starts[x] + 1 ELSE starts[x]]
      BY <1>1 DEF MovesOK
    <2> QED BY <2>1, MoveFacts DEF TurnOn
  <1>3. table' \in Tables /\ table'.peer = table.peer
    BY DEF TurnOn, SetSetting, PeerOK, Tables
  <1>4. PeerOK'
    BY <1>3 DEF TurnOn, PeerOK
  <1>5. edits \in Nat /\ edits' = edits + 1
    BY DEF MovesOK, TurnOn
  <1>6. ChecksOK' /\ QueueOK'
    BY <1>5, OldChecks, OldResults DEF TurnOn
  <1>7. PinOK'
    BY <1>3 DEF TurnOn, PinOK
  <1> QED BY <1>1, <1>2, <1>4, <1>6, <1>7

\* A network stops: its client is to be closed.
LEMMA EndInv ==
  ASSUME SettingsInv, NEW n \in on, End(n), on' = on \ {n}
  PROVE  /\ ClientsOK' /\ SwitchOK' /\ OverlaysOK' /\ StatusOK'
         /\ starts' = [starts EXCEPT ![n] = @ + 1]
  <1> USE DEF SettingsInv, End
  <1> DEFINE c == client[n]
  <1>0. n \in Networks /\ c \in DOMAIN clients[n] /\ starts \in [Networks -> Nat]
    BY DEF PeerOK, SwitchOK, MovesOK
  <1>1. /\ starts' = [starts EXCEPT ![n] = @ + 1]
        /\ \A x \in Networks : starts'[x] \in Nat /\ starts[x] \in Nat /\ starts[x] <= starts'[x]
    BY <1>0
  <1> HIDE DEF c
  <1>2. clients' = [clients EXCEPT ![n][c].closer = "spawned"]
    BY DEF c
  <1>3. DOMAIN clients' = Networks /\ \A x \in Networks : DOMAIN clients'[x] = DOMAIN clients[x]
    BY <1>2 DEF ClientsOK
  <1>4. ClientsOK'
    <2>1. ASSUME NEW x \in Networks, NEW i \in DOMAIN clients[x]
          PROVE  clients'[x][i] \in Clients /\ DoneWith(clients'[x][i])
      <3>1. clients[x][i] \in Clients /\ DoneWith(clients[x][i])
        BY DEF ClientsOK
      <3>2. CASE x = n /\ i = c
        <4>1. clients'[x][i] = [clients[x][i] EXCEPT !.closer = "spawned"]
          BY <1>2, <3>2 DEF ClientsOK
        <4> QED BY <3>1, <4>1 DEF Clients, DoneWith
      <3>3. CASE ~(x = n /\ i = c)
        <4>1. clients'[x][i] = clients[x][i]
          BY <1>2, <3>3 DEF ClientsOK
        <4> QED BY <3>1, <4>1
      <3> QED BY <3>2, <3>3
    <2>2. ASSUME NEW x \in Networks PROVE DOMAIN clients'[x] \subseteq 1..starts'[x]
      <3>1. DOMAIN clients[x] \subseteq 1..starts[x]
        BY DEF ClientsOK
      <3> QED BY <1>1, <1>3, <3>1
    <2> QED BY <1>3, <2>1, <2>2 DEF ClientsOK
  <1>5. SwitchOK'
    BY <1>0, <1>3 DEF SwitchOK
  <1>6. DOMAIN overlays' = on \ {n} /\ \A x \in on : x # n => overlays'[x] = overlays[x]
    BY DEF OverlaysOK
  <1>7. OverlaysOK'
    <2>1. \A x \in on : x # n => client'[x] = client[x]
      BY DEF SwitchOK, PeerOK
    <2> QED BY <1>6, <2>1 DEF OverlaysOK
  <1>8. StatusOK'
    <2>1. /\ status' \in [Networks -> States \cup {"idle"}] /\ status'[n] = "idle"
          /\ \A x \in Networks : x # n => status'[x] = status[x]
      BY <1>0 DEF StatusOK
    <2>2. ASSUME NEW x \in Networks, x # n
          PROVE  /\ (status'[x] = "idle") = (x \notin on')
                 /\ status'[x] = "ready" => overlays'[x] # None
      BY <1>6, <2>1, <2>2 DEF StatusOK
    <2> QED BY <2>1, <2>2 DEF StatusOK
  <1> QED BY <1>1, <1>4, <1>5, <1>7, <1>8

\* A switch is turned off: with the last one the peer is checked again.
LEMMA TurnOffInv ==
  ASSUME SettingsInv, NEW n \in Networks, TurnOff(n)
  PROVE  SettingsInv'
  <1> DEFINE saved == SetSetting([table EXCEPT !.on = @ \ {n}])
  <1>0. n \in on /\ on' = on \ {n} /\ Move /\ End(n) /\ UNCHANGED <<disk, flag, field, queue>>
    BY DEF TurnOff
  <1>1. /\ ClientsOK' /\ SwitchOK' /\ OverlaysOK' /\ StatusOK'
        /\ starts' = [starts EXCEPT ![n] = @ + 1]
    BY <1>0, EndInv
  <1>5. starts' = [x \in Networks |-> IF x \in {n} THEN starts[x] + 1 ELSE starts[x]]
    BY <1>1 DEF SettingsInv, MovesOK
  <1>2. saved \in Tables /\ saved.peer = table.peer
    BY DEF SetSetting, SettingsInv, PeerOK, Tables
  <1>3. CASE on = {n}
    <2>1. Edited(field, saved, inUse) /\ on' = {}
      BY <1>0, <1>3 DEF TurnOff
    <2> HIDE DEF saved
    <2>2. field \in Texts
      BY DEF SettingsInv, PeerOK
    <2>3. PeerOK' /\ ChecksOK' /\ QueueOK' /\ PinOK' /\ edits' = edits + 1
      BY <1>0, <1>2, <2>1, <2>2, EditedFacts
    <2>4. MovesOK'
      BY <1>0, <1>5, <2>3, MoveFacts DEF SettingsInv
    <2> QED BY <1>1, <2>3, <2>4 DEF SettingsInv
  <1>4. CASE on # {n}
    <2>1. /\ table' = saved /\ peerStatus' = "" /\ UNCHANGED <<edits, checks, inUse, pinnedAddr>>
      BY <1>0, <1>4 DEF TurnOff
    <2> HIDE DEF saved
    <2>2. on # {} /\ on' # {}
      BY <1>0, <1>4
    <2>3. MovesOK'
      BY <1>0, <1>5, <2>1, MoveFacts DEF SettingsInv
    <2>4. PeerOK' /\ PinOK'
      BY <1>0, <1>2, <2>1, <2>2 DEF SettingsInv, PeerOK, PinOK
    <2>5. ChecksOK'
      BY <1>0, <2>1, <2>2 DEF SettingsInv, ChecksOK, Current
    <2>6. QueueOK'
      BY <1>0, <2>1, <2>2 DEF SettingsInv, QueueOK, Current
    <2> QED BY <1>1, <2>3, <2>4, <2>5, <2>6 DEF SettingsInv
  <1> QED BY <1>3, <1>4

(***************************************************************************)
(* The clients                                                             *)
(***************************************************************************)

\* A client becomes c and nothing else of the clients changes.
Becomes(n, i, c) ==
  /\ DOMAIN clients' = DOMAIN clients
  /\ \A x \in DOMAIN clients :
       /\ DOMAIN clients'[x] = DOMAIN clients[x]
       /\ \A j \in DOMAIN clients[x] :
            clients'[x][j] = IF x = n /\ j = i THEN c ELSE clients[x][j]

\* One client changes: the others keep what they promise.
LEMMA BecomesInv ==
  ASSUME SettingsInv, NEW n \in Networks, NEW i \in DOMAIN clients[n],
         NEW c \in Clients, DoneWith(c), Becomes(n, i, c), QueueOK',
         UNCHANGED <<table, disk, flag, peerVars, switchVars, syncVars, moves>>
  PROVE  SettingsInv'
  <1> USE DEF SettingsInv
  <1>1. ClientsOK'
    <2>1. ASSUME NEW x \in Networks, NEW j \in DOMAIN clients[x]
          PROVE  clients'[x][j] \in Clients /\ DoneWith(clients'[x][j])
      <3>1. clients[x][j] \in Clients /\ DoneWith(clients[x][j])
        BY DEF ClientsOK
      <3>2. clients'[x][j] = IF x = n /\ j = i THEN c ELSE clients[x][j]
        BY DEF Becomes, ClientsOK
      <3>3. CASE x = n /\ j = i
        BY <3>2, <3>3
      <3>4. CASE ~(x = n /\ j = i)
        BY <3>1, <3>2, <3>4
      <3> QED BY <3>3, <3>4
    <2> QED BY <2>1 DEF ClientsOK, Becomes
  <1>2. SwitchOK'
    BY DEF SwitchOK, Becomes, ClientsOK
  <1>3. MovesOK' /\ PeerOK' /\ PinOK'
    BY DEF MovesOK, PeerOK, PinOK
  <1>4. ChecksOK' /\ OverlaysOK' /\ StatusOK'
    BY DEF ChecksOK, Current, OverlaysOK, StatusOK
  <1> QED BY <1>1, <1>2, <1>3, <1>4

\* A report of a client is queued.
LEMMA ReportFacts ==
  ASSUME SettingsInv, NEW n \in Networks, NEW i \in DOMAIN clients[n], NEW s \in States,
         Report(n, i, s), UNCHANGED <<edits, on, field>>
  PROVE  QueueOK'
  <1> DEFINE m == [kind |-> "changed", net |-> n, start |-> i, state |-> s]
  <1>1. m \in Changes /\ m.kind # "probed"
    <2>1. i \in Nat
      BY DEF SettingsInv, ClientsOK, MovesOK
    <2> QED BY <2>1 DEF Changes
  <1>2. Post(m)
    BY DEF Report
  <1> HIDE DEF m
  <1> QED BY <1>1, <1>2, PostFacts DEF SettingsInv

\* The queue as it was.
LEMMA SameQueue ==
  ASSUME SettingsInv, UNCHANGED <<queue, edits, on, field>>
  PROVE  QueueOK'
  BY DEF SettingsInv, QueueOK, Current

\* A client connects, fails, waits, loses its session or returns.
LEMMA SessionInv ==
  ASSUME SettingsInv, NEW n \in Networks, NEW i \in DOMAIN clients[n], Session(n, i)
  PROVE  SettingsInv'
  <1> DEFINE d == clients[n][i]
  <1>0. /\ d \in Clients /\ DoneWith(d) /\ n \in DOMAIN clients
        /\ UNCHANGED <<table, disk, flag, peerVars, switchVars, syncVars, moves>>
    BY DEF SettingsInv, ClientsOK, Session
  <1>1. CASE Attempt(n, i)
    <2>1. Becomes(n, i, [d EXCEPT !.phase = "connecting"]) /\ d.phase = "start"
      BY <1>0, <1>1 DEF Attempt, Becomes
    <2>2. QueueOK'
      BY <1>0, <1>1, ReportFacts DEF Attempt, States
    <2>3. [d EXCEPT !.phase = "connecting"] \in Clients /\ DoneWith([d EXCEPT !.phase = "connecting"])
      BY <1>0, <2>1 DEF Clients, DoneWith
    <2> QED BY <1>0, <2>1, <2>2, <2>3, BecomesInv
  <1>2. CASE Connect(n, i)
    <2> DEFINE p == IF n \in Lossy THEN "ready" ELSE "done"
               c == [d EXCEPT !.session = TRUE, !.phase = p]
    <2>1. Becomes(n, i, c) /\ d.phase = "connecting"
      BY <1>0, <1>2 DEF Connect, Becomes
    <2>2. QueueOK'
      BY <1>0, <1>2, ReportFacts DEF Connect, States
    <2>3. c \in Clients /\ DoneWith(c)
      BY <1>0, <2>1 DEF Clients, DoneWith
    <2> HIDE DEF c
    <2> QED BY <1>0, <2>1, <2>2, <2>3, BecomesInv
  <1>3. CASE ConnectFails(n, i)
    <2>1. Becomes(n, i, [d EXCEPT !.phase = "pausing"]) /\ d.phase = "connecting"
      BY <1>0, <1>3 DEF ConnectFails, Becomes
    <2>2. QueueOK'
      BY <1>0, <1>3, ReportFacts DEF ConnectFails, States
    <2>3. [d EXCEPT !.phase = "pausing"] \in Clients /\ DoneWith([d EXCEPT !.phase = "pausing"])
      BY <1>0, <2>1 DEF Clients, DoneWith
    <2> QED BY <1>0, <2>1, <2>2, <2>3, BecomesInv
  <1>4. CASE Pause(n, i)
    <2>1. Becomes(n, i, [d EXCEPT !.phase = "start"]) /\ d.phase = "pausing"
      BY <1>0, <1>4 DEF Pause, Becomes
    <2>2. QueueOK'
      BY <1>0, <1>4, SameQueue DEF Pause
    <2>3. [d EXCEPT !.phase = "start"] \in Clients /\ DoneWith([d EXCEPT !.phase = "start"])
      BY <1>0, <2>1 DEF Clients, DoneWith
    <2> QED BY <1>0, <2>1, <2>2, <2>3, BecomesInv
  <1>5. CASE Lose(n, i)
    <2>1. PICK p \in {"start", "pausing"} :
            clients' = [clients EXCEPT ![n][i].session = FALSE, ![n][i].phase = p]
      BY <1>5 DEF Lose
    <2> DEFINE c == [d EXCEPT !.session = FALSE, !.phase = p]
    <2>2. Becomes(n, i, c) /\ d.phase = "ready"
      BY <1>0, <1>5, <2>1 DEF Lose, Becomes
    <2>3. QueueOK'
      BY <1>0, <1>5, ReportFacts, SameQueue DEF Lose, States
    <2>4. c \in Clients /\ DoneWith(c)
      BY <1>0, <2>2 DEF Clients, DoneWith
    <2> HIDE DEF c
    <2> QED BY <1>0, <2>2, <2>3, <2>4, BecomesInv
  <1>6. CASE Return(n, i)
    <2> DEFINE c == [d EXCEPT !.session = FALSE, !.phase = "done"]
    <2>1. Becomes(n, i, c)
      BY <1>0, <1>6 DEF Return, Becomes
    <2>2. QueueOK'
      BY <1>0, <1>6, SameQueue DEF Return
    <2>3. c \in Clients /\ DoneWith(c)
      BY <1>0 DEF Clients, DoneWith
    <2> HIDE DEF c
    <2> QED BY <1>0, <2>1, <2>2, <2>3, BecomesInv
  <1> QED BY <1>1, <1>2, <1>3, <1>4, <1>5, <1>6 DEF Session

\* A client is closed once its goroutine returned, and its session with it.
LEMMA CloseInv ==
  ASSUME SettingsInv, NEW n \in Networks, NEW i \in DOMAIN clients[n], Close(n, i)
  PROVE  SettingsInv'
  <1> DEFINE d == clients[n][i]
  <1>0. /\ d \in Clients /\ DoneWith(d) /\ n \in DOMAIN clients
        /\ UNCHANGED <<table, disk, flag, peerVars, switchVars, syncVars, moves>>
        /\ UNCHANGED queue
    BY DEF SettingsInv, ClientsOK, Close, CloseBegins, CloseEnds
  <1>1. QueueOK'
    BY <1>0, SameQueue
  <1>2. CASE CloseBegins(n, i)
    <2>1. Becomes(n, i, [d EXCEPT !.closer = "closing"])
      BY <1>0, <1>2 DEF CloseBegins, Becomes
    <2>2. [d EXCEPT !.closer = "closing"] \in Clients /\ DoneWith([d EXCEPT !.closer = "closing"])
      BY <1>0 DEF Clients, DoneWith
    <2> QED BY <1>0, <1>1, <2>1, <2>2, BecomesInv
  <1>3. CASE CloseEnds(n, i)
    <2> DEFINE c == [d EXCEPT !.closer = "closed", !.session = FALSE]
    <2>1. Becomes(n, i, c) /\ d.phase = "done"
      BY <1>0, <1>3 DEF CloseEnds, Becomes
    <2>2. c \in Clients /\ DoneWith(c)
      BY <1>0, <2>1 DEF Clients, DoneWith
    <2> HIDE DEF c
    <2> QED BY <1>0, <1>1, <2>1, <2>2, BecomesInv
  <1> QED BY <1>2, <1>3 DEF Close

(***************************************************************************)
(* The theorems                                                            *)
(***************************************************************************)

\* No step, nor a stutter, breaks the invariant.
LEMMA NextInv == SettingsInv /\ [Next]_vars => SettingsInv'
  <1> SUFFICES ASSUME SettingsInv, [Next]_vars PROVE SettingsInv'
    OBVIOUS
  <1>1. CASE Next
    BY <1>1, RestartInv, DiskInv, EditInv, DoInv, TurnOnInv, TurnOffInv, DelayInv, ProbeInv,
       SessionInv, CloseInv DEF Next, Texts
  <1>2. CASE UNCHANGED vars
    <2>1. MovesOK' /\ PeerOK' /\ PinOK'
      BY <1>2 DEF SettingsInv, MovesOK, PeerOK, PinOK
    <2>2. ChecksOK' /\ QueueOK'
      BY <1>2 DEF SettingsInv, ChecksOK, QueueOK, Current
    <2>3. ClientsOK' /\ SwitchOK' /\ OverlaysOK' /\ StatusOK'
      BY <1>2 DEF SettingsInv, ClientsOK, SwitchOK, OverlaysOK, StatusOK
    <2> QED BY <2>1, <2>2, <2>3 DEF SettingsInv
  <1> QED BY <1>1, <1>2

\* The invariant holds of every state.
LEMMA InvHolds == Spec => []SettingsInv
  <1> QED BY InitInv, NextInv, PTL DEF Spec

\* Every variable keeps its type, and a network has a client while it is on
\* (Settings.TypeOK).
THEOREM SettingsTypes == Spec => []TypeOK
  <1>1. SettingsInv => TypeOK
    BY InvImplies
  <1> QED BY InvHolds, <1>1, PTL

\* However probes, clients and writes end, and in whatever order their results
\* reach the user interface, the sync uses what the tab says, the tab shows
\* what the sync uses, and no peer is probed directly while a network is on
\* (settings.go: edited, probed, use, overlaySwitched; overlay.go: changed).
THEOREM SyncDoesWhatIsSet == Spec => []SyncFollowsSettings
  <1>1. SettingsInv => SyncFollowsSettings
    BY InvImplies
  <1> QED BY InvHolds, <1>1, PTL

\* The sync never dials through a client that was closed or replaced, and a
\* client closed leaves no session, although it may connect while it is being
\* closed (overlay.go: changed, end; Close of tor and i2p).
THEOREM ClosedClientsAreGone == Spec => []ClosedClientsGone
  <1>1. SettingsInv => ClosedClientsGone
    BY InvImplies
  <1> QED BY InvHolds, <1>1, PTL
=============================================================================
