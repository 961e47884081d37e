------------------------------ MODULE PeerPool ------------------------------
(***************************************************************************)
(* The peer manager (internal/sync/manager.go): the pool of connections,   *)
(* the dials in flight, the pinned peer, the anonymity networks, Stop and  *)
(* Start, and the peer the sync is driven by.                              *)
(*                                                                         *)
(* One action is one section under mu, or what one goroutine does between  *)
(* two of them.  maintain and fillPool both take the next candidates while *)
(* slots are open and dial several at once, so they share TakeCandidate.   *)
(* Peers answer, refuse and disconnect as they like.                       *)
(***************************************************************************)
EXTENDS Integers, Sequences, FiniteSets, SequencesExt

CONSTANTS
  Addrs,        \* peer addresses in the store and the seeds
  None,         \* no address, ""
  Overlays,     \* anonymity networks
  Direct,       \* the network of direct connections
  NetworkOf,    \* network of an address
  Reliable,     \* addresses that do not refuse every dial
  TargetPeers,  \* TargetPeers
  Workers,      \* connectWorkers: ordinary dials at once
  Pins,         \* what the settings may pin, None to unpin
  MaxChanges    \* bound: SetPinned, SetOverlay, Stop

ASSUME PoolAssumption ==
  /\ None \notin Addrs
  /\ Direct \notin Overlays
  /\ NetworkOf \in [Addrs -> Overlays \cup {Direct}]
  /\ Reliable \subseteq Addrs
  /\ TargetPeers \in Nat \ {0, 1}
  /\ Workers \in Nat \ {0}
  /\ Pins \subseteq Addrs \cup {None}
  /\ MaxChanges \in Nat

VARIABLES
  pool,        \* connections, oldest first
  dials,       \* dials in flight
  candidates,  \* candidates not dialed yet
  pinnedAddr,  \* pinnedAddr
  pinnedOld,   \* pinnedSeen is pinnedFallbackAfter ago, or longer
  overlays,    \* "off", "on" with no dialer yet, "ready"
  stopped,     \* stopped
  changes      \* changes made so far

manager == <<candidates, pinnedAddr, pinnedOld, overlays, stopped, changes>>
vars == <<pool, dials, manager>>

Conns == [addr : Addrs, pinned : BOOLEAN, state : {"live", "closing", "gone"}]

(***************************************************************************)
(* Helpers                                                                 *)
(***************************************************************************)

\* c.live(): a connection about to be closed still is.
Live(c) == c.state # "gone"

Connected(a) == \E i \in DOMAIN pool : pool[i].addr = a

\* allowedLocked, under the settings of the networks.
AllowedUnder(settings, n) ==
  IF \A o \in Overlays : settings[o] = "off" THEN n = Direct
  ELSE n \in Overlays /\ settings[n] # "off"

Allowed(n) == AllowedUnder(overlays, n)

\* dialerFor.
HasDialer(a) ==
  /\ Allowed(NetworkOf[a])
  /\ NetworkOf[a] \in Overlays => overlays[NetworkOf[a]] = "ready"

\* openSlotsLocked.
OpenSlots ==
  LET ready == \A o \in Overlays : overlays[o] = "off"
      kept == pinnedAddr # None /\ ~\E i \in DOMAIN pool : pool[i].pinned
  IN IF ready \/ \E o \in Overlays : overlays[o] = "ready"
       THEN TargetPeers - Len(pool) - (IF kept THEN 1 ELSE 0)
       ELSE 0

\* Mutant: the pinned address, "" without one, is listed too.
FreshWithPinned == {a \in Addrs : Allowed(NetworkOf[a])} \cup {pinnedAddr}

\* peerCandidates: the known addresses of the networks in use, without the
\* pinned one.
Fresh == {a \in Addrs : Allowed(NetworkOf[a])} \ {pinnedAddr}

PinnedConns == {i \in DOMAIN pool : pool[i].pinned /\ Live(pool[i])}
LiveConns == {i \in DOMAIN pool : Live(pool[i])}

\* Mutant: the sync never falls back.
PinnedNeverAway == FALSE

\* pinnedAway.
PinnedAway == pinnedAddr # None /\ PinnedConns = {} /\ pinnedOld

\* orderedPeers: pinned connections first, then the oldest.
Before(i, j) ==
  IF pool[i].pinned = pool[j].pinned THEN i < j ELSE pool[i].pinned

\* primary: the connection that drives the sync.
IsPrimary(i) ==
  /\ i \in LiveConns
  /\ \A j \in LiveConns \ {i} : Before(i, j)
  /\ pinnedAddr = None \/ pool[i].pinned \/ PinnedAway

\* The pool once Disconnect is due for the connections not wanted any more.
Closing(unwanted) ==
  [i \in DOMAIN pool |->
     IF i \in unwanted /\ pool[i].state = "live"
       THEN [pool[i] EXCEPT !.state = "closing"] ELSE pool[i]]

(***************************************************************************)
(* Start and stop                                                          *)
(***************************************************************************)

Init ==
  /\ pool = << >>
  /\ dials = {}
  /\ candidates = {}
  /\ pinnedAddr \in Pins
  /\ pinnedOld = FALSE
  /\ overlays = [o \in Overlays |-> "off"]
  /\ stopped = FALSE
  /\ changes = 0

Change == changes < MaxChanges /\ changes' = changes + 1

\* Stop: no connection joins any more, those open are disconnected.
Stop ==
  /\ ~stopped
  /\ Change
  /\ stopped' = TRUE
  /\ pool' = Closing(DOMAIN pool)
  /\ UNCHANGED <<dials, candidates, pinnedAddr, pinnedOld, overlays>>

\* Start, after the Stop before has waited for every goroutine.
Start ==
  /\ stopped
  /\ pool = << >> /\ dials = {}
  /\ stopped' = FALSE
  /\ candidates' = {}
  /\ pinnedAddr' \in Pins
  /\ pinnedOld' = FALSE
  /\ UNCHANGED <<pool, dials, overlays, changes>>

(***************************************************************************)
(* Dials                                                                   *)
(***************************************************************************)

Dial(a, pinned) == [addr |-> a, pinned |-> pinned]

\* takeCandidates and fillPool rebuild the list when it runs out.
Rebuild ==
  /\ ~stopped
  /\ OpenSlots > 0
  /\ candidates = {}
  /\ candidates' = Fresh
  /\ candidates' # {}
  /\ UNCHANGED <<pool, dials, pinnedAddr, pinnedOld, overlays, stopped, changes>>

\* maintain and fillPool take the next candidate and, unless it is connected
\* or has no dialer now, dial it.
TakeCandidate(a) ==
  /\ ~stopped
  /\ OpenSlots > 0
  /\ Cardinality({d \in dials : ~d.pinned}) < Workers
  /\ a \in candidates
  /\ Dial(a, FALSE) \notin dials
  /\ candidates' = candidates \ {a}
  /\ dials' = IF Connected(a) \/ ~HasDialer(a) THEN dials ELSE dials \cup {Dial(a, FALSE)}
  /\ UNCHANGED <<pool, pinnedAddr, pinnedOld, overlays, stopped, changes>>

\* keepPinned dials the pinned peer while it is not connected.
DialPinned ==
  /\ ~stopped
  /\ pinnedAddr # None
  /\ \A i \in PinnedConns : pool[i].addr # pinnedAddr
  /\ HasDialer(pinnedAddr)
  /\ Dial(pinnedAddr, TRUE) \notin dials
  /\ dials' = dials \cup {Dial(pinnedAddr, TRUE)}
  /\ UNCHANGED <<pool, manager>>

\* connect gets no handshake, no compact filter service, or is abandoned.
DialFails(d) ==
  /\ d \in dials
  /\ dials' = dials \ {d}
  /\ UNCHANGED <<pool, manager>>

\* Mutant: a pool filled by others in the meantime does not matter.
JoinsFull(d) ==
  /\ ~stopped
  /\ d.pinned => d.addr = pinnedAddr
  /\ Allowed(NetworkOf[d.addr])
  /\ ~Connected(d.addr)

\* Mutant: a connection to the same address does not matter.
JoinsTwice(d) ==
  /\ ~stopped
  /\ d.pinned => d.addr = pinnedAddr
  /\ Allowed(NetworkOf[d.addr])
  /\ d.pinned \/ OpenSlots > 0

\* Mutant: nothing is checked again after the handshake.
JoinsUnchecked(d) == ~Connected(d.addr) /\ (d.pinned \/ OpenSlots > 0)

\* The checks of connect under mu after the handshake.
Joins(d) ==
  /\ ~stopped
  /\ d.pinned => d.addr = pinnedAddr
  /\ Allowed(NetworkOf[d.addr])
  /\ ~Connected(d.addr)
  /\ d.pinned \/ OpenSlots > 0

\* connect after the handshake: the connection joins the pool or is closed.
Connect(d) ==
  /\ d \in dials
  /\ dials' = dials \ {d}
  /\ IF Joins(d)
       THEN pool' = Append(pool, [addr |-> d.addr, pinned |-> d.pinned, state |-> "live"])
       ELSE UNCHANGED pool
  /\ UNCHANGED manager

(***************************************************************************)
(* Connections                                                             *)
(***************************************************************************)

\* The peer, a failed request or the manager closes the connection.
Disconnect(i) ==
  /\ i \in LiveConns
  /\ pool' = [pool EXCEPT ![i].state = "gone"]
  /\ UNCHANGED <<dials, manager>>

\* The goroutine connect left waiting takes the connection out of the pool.
Forget(i) ==
  /\ i \in DOMAIN pool
  /\ ~Live(pool[i])
  /\ pool' = RemoveAt(pool, i)
  /\ pinnedOld' = (pinnedOld /\ ~pool[i].pinned)
  /\ UNCHANGED <<dials, candidates, pinnedAddr, overlays, stopped, changes>>

\* pinnedFallbackAfter passes.
TimePasses ==
  /\ pinnedAddr # None
  /\ ~pinnedOld
  /\ pinnedOld' = TRUE
  /\ UNCHANGED <<pool, dials, candidates, pinnedAddr, overlays, stopped, changes>>

(***************************************************************************)
(* Settings                                                                *)
(***************************************************************************)

\* SetPinned: the connection to the peer pinned before and one to the new
\* peer are closed; the candidates stay.
SetPinned(a) ==
  /\ ~stopped
  /\ a # pinnedAddr
  /\ Change
  /\ pinnedAddr' = a
  /\ pinnedOld' = FALSE
  /\ pool' = Closing({i \in DOMAIN pool : pool[i].pinned \/ pool[i].addr = a})
  /\ UNCHANGED <<dials, candidates, overlays, stopped>>

\* SetOverlay: connections of networks no longer allowed are closed and the
\* candidates dropped, except those a running fillPool holds.
SetOverlay(o, to) ==
  LET settings == [overlays EXCEPT ![o] = to] IN
  /\ overlays[o] # to
  /\ Change
  /\ overlays' = settings
  /\ IF (to = "off") = (overlays[o] = "off")
       THEN UNCHANGED <<pool, candidates>>
       ELSE /\ pool' = Closing({i \in DOMAIN pool : ~AllowedUnder(settings, NetworkOf[pool[i].addr])})
            /\ candidates' \in {{}, candidates}
  /\ UNCHANGED <<dials, pinnedAddr, pinnedOld, stopped>>

Next ==
  \/ Stop \/ Start \/ Rebuild \/ DialPinned \/ TimePasses
  \/ \E a \in Addrs : TakeCandidate(a)
  \/ \E d \in dials : DialFails(d) \/ Connect(d)
  \/ \E i \in DOMAIN pool : Disconnect(i) \/ Forget(i)
  \/ \E a \in Pins : SetPinned(a)
  \/ \E o \in Overlays : \E to \in {"off", "on", "ready"} : SetOverlay(o, to)

Spec == Init /\ [][Next]_vars

\* maintain and keepPinned go on; a dial ends, a closed connection is taken
\* out, time passes, and a peer that is Reliable accepts some dial.
FairSpec ==
  /\ Spec
  /\ WF_vars(Rebuild) /\ WF_vars(TimePasses)
  /\ \A a \in Addrs :
       /\ WF_vars(TakeCandidate(a))
       /\ \A pinned \in BOOLEAN : WF_vars(DialFails(Dial(a, pinned)) \/ Connect(Dial(a, pinned)))
  /\ \A a \in Reliable : SF_vars(Connect(Dial(a, FALSE)))
  /\ \A i \in 1..(TargetPeers + MaxChanges + 1) :
       WF_vars(Forget(i) \/ (i \in DOMAIN pool /\ pool[i].state = "closing" /\ Disconnect(i)))

(***************************************************************************)
(* Properties                                                              *)
(***************************************************************************)

\* Every variable keeps its type.
TypeOK ==
  /\ pool \in Seq(Conns)
  /\ dials \subseteq [addr : Addrs, pinned : BOOLEAN]
  /\ candidates \subseteq Addrs
  /\ pinnedAddr \in Pins
  /\ pinnedOld \in BOOLEAN
  /\ overlays \in [Overlays -> {"off", "on", "ready"}]
  /\ stopped \in BOOLEAN
  /\ changes \in 0..MaxChanges

\* A connection that no setting allows any more, of a network switched off,
\* of the peer pinned before, or of a stopped sync, is on its way out: dials
\* in flight while the setting changed included (SetOverlay, SetPinned, Stop,
\* connect).
UnwantedConnsClose ==
  \A i \in DOMAIN pool : pool[i].state = "live" =>
    /\ ~stopped
    /\ Allowed(NetworkOf[pool[i].addr])
    /\ pool[i].pinned => pool[i].addr = pinnedAddr

\* However many dials succeed at once, no more than TargetPeers ordinary
\* peers join, and one pinned peer on top of them ("one completing its
\* handshake after the pool was filled by others" is dropped, connect); and no
\* peer is in twice, although the pinned one is dialed by another goroutine
\* ("connected already"), so none counts as two that cross-check each other.
PoolBounded ==
  /\ Cardinality({i \in DOMAIN pool : ~pool[i].pinned}) <= TargetPeers
  /\ Cardinality({i \in DOMAIN pool : pool[i].pinned /\ pool[i].state = "live"}) <= 1
  /\ \A i, j \in DOMAIN pool : pool[i].addr = pool[j].addr => i = j

\* While a peer other than the pinned one can be reached the sync is not left
\* without a primary for ever, whether or not the pinned peer ever answers
\* (primary, pinnedAway, openSlots, takeCandidates).
PrimaryFound ==
  <>[](~stopped /\ \E a \in Reliable \ {pinnedAddr} : HasDialer(a))
    => []<>(\E i \in DOMAIN pool : IsPrimary(i))
=============================================================================
