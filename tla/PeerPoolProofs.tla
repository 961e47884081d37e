-------------------------- MODULE PeerPoolProofs --------------------------
(***************************************************************************)
(* Proofs about PeerPool: type correctness, that a connection no setting   *)
(* allows is on its way out, and that the pool holds no more peers than it *)
(* should, each once, whatever dials, settings and closes interleave.      *)
(***************************************************************************)
EXTENDS PeerPool, FiniteSetTheorems, SequenceTheorems, TLAPS

(***************************************************************************)
(* Pools                                                                   *)
(***************************************************************************)

\* A pool is a sequence of connections, read by index.
LEMMA PoolFacts ==
  ASSUME NEW s \in Seq(Conns)
  PROVE  /\ Len(s) \in Nat
         /\ DOMAIN s = 1..Len(s)
         /\ \A i \in 1..Len(s) : s[i] \in Conns
  OBVIOUS

\* Taking one connection out moves the later ones down by one.
LEMMA RemoveAtFacts ==
  ASSUME NEW s \in Seq(Conns), NEW i \in 1..Len(s)
  PROVE  /\ RemoveAt(s, i) \in Seq(Conns)
         /\ Len(RemoveAt(s, i)) = Len(s) - 1
         /\ \A j \in 1..(Len(s) - 1) : RemoveAt(s, i)[j] = IF j < i THEN s[j] ELSE s[j + 1]
  <1> DEFINE low == SubSeq(s, 1, i - 1)
             high == SubSeq(s, i + 1, Len(s))
  <1>1. /\ low \in Seq(Conns) /\ Len(low) = i - 1
        /\ \A j \in 1..(i - 1) : low[j] = s[j]
    OBVIOUS
  <1>2. /\ high \in Seq(Conns) /\ Len(high) = Len(s) - i
        /\ \A j \in 1..(Len(s) - i) : high[j] = s[i + j]
    OBVIOUS
  <1>3. RemoveAt(s, i) = low \o high
    BY DEF RemoveAt
  <1> HIDE DEF low, high
  <1>4. /\ low \o high \in Seq(Conns) /\ Len(low \o high) = Len(s) - 1
        /\ \A j \in 1..(Len(s) - 1) : (low \o high)[j] = IF j < i THEN low[j] ELSE high[j - (i - 1)]
    <2>1. /\ low \o high \in Seq(Conns) /\ Len(low \o high) = Len(low) + Len(high)
          /\ \A j \in 1..(Len(low) + Len(high)) :
               (low \o high)[j] = IF j <= Len(low) THEN low[j] ELSE high[j - Len(low)]
      BY <1>1, <1>2, ConcatProperties
    <2>2. Len(s) \in Nat /\ Len(low) + Len(high) = Len(s) - 1 /\ \A j \in Int : j <= Len(low) <=> j < i
      BY <1>1, <1>2
    <2> QED BY <1>1, <2>1, <2>2
  <1>5. \A j \in 1..(Len(s) - 1) : (low \o high)[j] = IF j < i THEN s[j] ELSE s[j + 1]
    <2>1. ASSUME NEW j \in 1..(Len(s) - 1) PROVE (low \o high)[j] = IF j < i THEN s[j] ELSE s[j + 1]
      <3>1. CASE j < i
        BY <1>1, <1>4, <3>1
      <3>2. CASE ~(j < i)
        <4>1. j - (i - 1) \in 1..(Len(s) - i) /\ i + (j - (i - 1)) = j + 1
          BY <3>2
        <4> QED BY <1>2, <1>4, <3>2, <4>1
      <3> QED BY <3>1, <3>2
    <2> QED BY <2>1
  <1> QED BY <1>3, <1>4, <1>5

\* Closing connections changes nothing but the state of live ones.
LEMMA ClosingFacts ==
  ASSUME pool \in Seq(Conns), NEW unwanted
  PROVE  /\ Closing(unwanted) \in Seq(Conns)
         /\ Len(Closing(unwanted)) = Len(pool)
         /\ \A i \in 1..Len(pool) :
              /\ Closing(unwanted)[i].addr = pool[i].addr
              /\ Closing(unwanted)[i].pinned = pool[i].pinned
              /\ Closing(unwanted)[i].state = "live" => pool[i].state = "live" /\ i \notin unwanted
  <1>1. ASSUME NEW i \in 1..Len(pool) PROVE pool[i] \in Conns /\ [pool[i] EXCEPT !.state = "closing"] \in Conns
    <2>1. \A c \in Conns : [c EXCEPT !.state = "closing"] \in Conns
      BY DEF Conns
    <2> QED BY <2>1, PoolFacts
  <1>2. DOMAIN pool = 1..Len(pool) /\ Len(pool) \in Nat
    BY PoolFacts
  <1>3. Closing(unwanted) \in [1..Len(pool) -> Conns]
    BY <1>1, <1>2 DEF Closing
  <1>4. Closing(unwanted) \in Seq(Conns) /\ Len(Closing(unwanted)) = Len(pool)
    <2> DEFINE e(i) == Closing(unwanted)[i]
    <2>1. Closing(unwanted) = [i \in 1..Len(pool) |-> e(i)]
      BY <1>3
    <2>2. \A i \in 1..Len(pool) : e(i) \in Conns
      BY <1>3
    <2> HIDE DEF e
    <2>3. [i \in 1..Len(pool) |-> e(i)] \in Seq(Conns)
      BY <1>2, <2>2, IsASeq
    <2> QED BY <1>2, <2>1, <2>3
  <1>5. ASSUME NEW i \in 1..Len(pool)
        PROVE  /\ Closing(unwanted)[i].addr = pool[i].addr
               /\ Closing(unwanted)[i].pinned = pool[i].pinned
               /\ Closing(unwanted)[i].state = "live" => pool[i].state = "live" /\ i \notin unwanted
    <2>1. Closing(unwanted)[i] = IF i \in unwanted /\ pool[i].state = "live"
                                   THEN [pool[i] EXCEPT !.state = "closing"] ELSE pool[i]
      BY <1>2 DEF Closing
    <2> QED BY <1>1, <2>1 DEF Conns
  <1> QED BY <1>4, <1>5

(***************************************************************************)
(* The inductive invariant                                                 *)
(***************************************************************************)

\* Indices of the connections that count against TargetPeers.
Ordinary(s) == {i \in DOMAIN s : ~s[i].pinned}

OnceEach == \A i, j \in DOMAIN pool : pool[i].addr = pool[j].addr => i = j
OrdinaryBounded == Cardinality(Ordinary(pool)) <= TargetPeers

PoolInv == TypeOK /\ UnwantedConnsClose /\ OnceEach /\ OrdinaryBounded

\* Steps that change at most the state of connections.
SamePeers ==
  /\ pool' \in Seq(Conns)
  /\ Len(pool') = Len(pool)
  /\ \A i \in 1..Len(pool) : pool'[i].addr = pool[i].addr /\ pool'[i].pinned = pool[i].pinned

\* They keep the peers apart and their number.
LEMMA SamePeersBounded ==
  ASSUME PoolInv, SamePeers
  PROVE  OnceEach' /\ OrdinaryBounded'
  <1>1. /\ DOMAIN pool = 1..Len(pool) /\ DOMAIN pool' = 1..Len(pool)
    BY PoolFacts DEF PoolInv, TypeOK, SamePeers
  <1>2. OnceEach'
    BY <1>1 DEF PoolInv, OnceEach, SamePeers
  <1>3. Ordinary(pool') = Ordinary(pool)
    BY <1>1 DEF Ordinary, SamePeers
  <1> QED BY <1>2, <1>3 DEF PoolInv, OrdinaryBounded

\* The pinned connections that are live are all to the pinned peer, and no peer
\* is connected twice, so there is at most one.
LEMMA OnePinned ==
  ASSUME PoolInv
  PROVE  PoolBounded
  <1> DEFINE P == {i \in DOMAIN pool : pool[i].pinned /\ pool[i].state = "live"}
  <1>1. \A i, j \in P : i = j
    BY DEF PoolInv, UnwantedConnsClose, OnceEach
  <1>2. Cardinality(P) <= 1
    <2> HIDE DEF P
    <2>1. CASE P = {}
      <3>1. Cardinality(P) = 0
        BY <2>1, FS_EmptySet
      <3> QED BY <3>1
    <2>2. CASE P # {}
      <3>1. PICK i : P = {i}
        BY <1>1, <2>2
      <3>2. Cardinality(P) = 1
        BY <3>1, FS_Singleton
      <3> QED BY <3>2
    <2> QED BY <2>1, <2>2
  <1> QED BY <1>2 DEF PoolInv, PoolBounded, OnceEach, OrdinaryBounded, Ordinary

\* The pool starts empty.
LEMMA InitPoolInv == ASSUME Init PROVE PoolInv
  <1>1. pool = << >> /\ DOMAIN pool = {} /\ Ordinary(pool) = {}
    BY DEF Init, Ordinary
  <1>2. TypeOK
    <2>1. << >> \in Seq(Conns) /\ 0 \in 0..MaxChanges
      BY EmptySeq, PoolAssumption
    <2> QED BY <2>1 DEF Init, TypeOK
  <1>3. OrdinaryBounded
    <2>1. Cardinality(Ordinary(pool)) = 0
      BY <1>1, FS_EmptySet
    <2> QED BY <2>1, PoolAssumption DEF OrdinaryBounded
  <1> QED BY <1>1, <1>2, <1>3 DEF PoolInv, UnwantedConnsClose, OnceEach

(***************************************************************************)
(* Every action keeps it                                                   *)
(***************************************************************************)

\* Steps that leave the pool and what decides who is wanted alone.
LEMMA SamePoolInv ==
  ASSUME PoolInv, TypeOK',
         UNCHANGED <<pool, pinnedAddr, overlays, stopped>>
  PROVE  PoolInv'
  BY DEF PoolInv, UnwantedConnsClose, OnceEach, OrdinaryBounded, Ordinary, Allowed, AllowedUnder

\* Dials come and go.
LEMMA DialsInv ==
  ASSUME PoolInv,
         \/ Rebuild \/ DialPinned \/ TimePasses
         \/ \E a \in Addrs : TakeCandidate(a)
         \/ \E d \in dials : DialFails(d)
  PROVE  PoolInv'
  <1> USE PoolAssumption DEF PoolInv, TypeOK
  <1>1. CASE Rebuild
    BY <1>1, SamePoolInv DEF Rebuild, Fresh
  <1>2. CASE DialPinned
    <2>1. pinnedAddr \in Addrs
      BY <1>2 DEF DialPinned
    <2>2. dials' \subseteq [addr : Addrs, pinned : BOOLEAN]
      <3>1. Dial(pinnedAddr, TRUE) \in [addr : Addrs, pinned : BOOLEAN]
        BY <2>1 DEF Dial
      <3>2. dials' = dials \cup {Dial(pinnedAddr, TRUE)}
        BY <1>2 DEF DialPinned
      <3> QED BY <3>1, <3>2
    <2> QED BY <1>2, <2>2, SamePoolInv DEF DialPinned, manager
  <1>3. CASE TimePasses
    BY <1>3, SamePoolInv DEF TimePasses
  <1>4. CASE \E a \in Addrs : TakeCandidate(a)
    <2>1. PICK a \in Addrs : TakeCandidate(a)
      BY <1>4
    <2>2. /\ dials' = dials \/ dials' = dials \cup {Dial(a, FALSE)}
          /\ candidates' \subseteq candidates
          /\ UNCHANGED <<pool, pinnedAddr, pinnedOld, overlays, stopped, changes>>
      BY <2>1 DEF TakeCandidate
    <2>3. dials' \subseteq [addr : Addrs, pinned : BOOLEAN]
      <3>1. Dial(a, FALSE) \in [addr : Addrs, pinned : BOOLEAN]
        BY DEF Dial
      <3> QED BY <2>2, <3>1
    <2> QED BY <2>2, <2>3, SamePoolInv
  <1>5. CASE \E d \in dials : DialFails(d)
    BY <1>5, SamePoolInv DEF DialFails, manager
  <1> QED BY <1>1, <1>2, <1>3, <1>4, <1>5

\* A connection that joins is wanted, new, and has a slot: the checks of
\* connect are those of the moment it joins.
LEMMA ConnectInv ==
  ASSUME PoolInv, NEW d \in dials, Connect(d)
  PROVE  PoolInv'
  <1> USE DEF PoolInv
  <1>0. /\ pool \in Seq(Conns) /\ Len(pool) \in Nat /\ DOMAIN pool = 1..Len(pool)
        /\ d.addr \in Addrs /\ d.pinned \in BOOLEAN
        /\ dials' \subseteq [addr : Addrs, pinned : BOOLEAN]
        /\ UNCHANGED <<candidates, pinnedAddr, pinnedOld, overlays, stopped, changes>>
    BY PoolFacts DEF TypeOK, Connect, manager
  <1>1. CASE ~Joins(d)
    BY <1>0, <1>1, SamePoolInv DEF Connect, TypeOK
  <1>2. CASE Joins(d)
    <2> DEFINE c == [addr |-> d.addr, pinned |-> d.pinned, state |-> "live"]
    <2>1. c \in Conns
      BY <1>0 DEF Conns
    <2>2. /\ pool' = Append(pool, c) /\ pool' \in Seq(Conns) /\ Len(pool') = Len(pool) + 1
          /\ \A i \in 1..Len(pool) : pool'[i] = pool[i]
          /\ pool'[Len(pool) + 1] = c
      BY <1>0, <1>2, <2>1, AppendProperties DEF Connect
    <2>3. DOMAIN pool' = 1..Len(pool) \cup {Len(pool) + 1}
      BY <1>0, <2>2, PoolFacts
    <2>4. TypeOK'
      BY <1>0, <2>2 DEF TypeOK
    <2>5. UnwantedConnsClose'
      <3>1. /\ ~stopped /\ Allowed(NetworkOf[d.addr])
            /\ d.pinned => d.addr = pinnedAddr
        BY <1>2 DEF Joins
      <3> QED BY <1>0, <2>2, <2>3, <3>1 DEF UnwantedConnsClose, Allowed, AllowedUnder
    <2>6. OnceEach'
      <3>1. \A i \in 1..Len(pool) : pool[i].addr # d.addr
        BY <1>0, <1>2 DEF Joins, Connected
      <3> QED BY <1>0, <2>2, <2>3, <3>1 DEF OnceEach
    <2>7. OrdinaryBounded'
      <3>1. CASE d.pinned
        <4>1. Ordinary(pool') = Ordinary(pool)
          BY <1>0, <2>2, <2>3, <3>1 DEF Ordinary
        <4> QED BY <4>1 DEF OrdinaryBounded
      <3>2. CASE ~d.pinned
        <4>1. Len(pool) + 1 <= TargetPeers
          BY <1>0, <1>2, <3>2, PoolAssumption DEF Joins, OpenSlots
        <4>2. Ordinary(pool') \in SUBSET (1..(Len(pool) + 1))
          BY <1>0, <2>3 DEF Ordinary
        <4>3. /\ IsFiniteSet(1..(Len(pool) + 1))
              /\ Cardinality(1..(Len(pool) + 1)) = Len(pool) + 1
          BY <1>0, FS_Interval
        <4>4. Cardinality(Ordinary(pool')) <= Len(pool) + 1 /\ IsFiniteSet(Ordinary(pool'))
          BY <4>2, <4>3, FS_Subset
        <4>5. Cardinality(Ordinary(pool')) \in Nat
          BY <4>4, FS_CardinalityType
        <4> QED BY <1>0, <4>1, <4>4, <4>5, PoolAssumption DEF OrdinaryBounded
      <3> QED BY <3>1, <3>2
    <2> QED BY <2>4, <2>5, <2>6, <2>7
  <1> QED BY <1>1, <1>2

\* A connection that ends is taken out by the goroutine that waited for it.
LEMMA ForgetInv ==
  ASSUME PoolInv, NEW i \in DOMAIN pool, Forget(i)
  PROVE  PoolInv'
  <1> USE DEF PoolInv
  <1>0. /\ pool \in Seq(Conns) /\ Len(pool) \in Nat /\ DOMAIN pool = 1..Len(pool)
        /\ pool' = RemoveAt(pool, i) /\ pinnedOld' \in BOOLEAN
        /\ UNCHANGED <<dials, candidates, pinnedAddr, overlays, stopped, changes>>
    BY PoolFacts DEF TypeOK, Forget
  <1> DEFINE was(j) == IF j < i THEN j ELSE j + 1
  <1>1. /\ pool' \in Seq(Conns) /\ Len(pool') = Len(pool) - 1
        /\ \A j \in 1..(Len(pool) - 1) : pool'[j] = pool[was(j)]
    BY <1>0, RemoveAtFacts
  <1>2. DOMAIN pool' = 1..(Len(pool) - 1)
    BY <1>0, <1>1, PoolFacts
  <1>3. /\ \A j \in DOMAIN pool' : was(j) \in DOMAIN pool /\ pool'[j] = pool[was(j)]
        /\ \A j, k \in DOMAIN pool' : was(j) = was(k) => j = k
    BY <1>0, <1>1, <1>2
  <1>4. TypeOK'
    BY <1>0, <1>1 DEF TypeOK
  <1>5. UnwantedConnsClose'
    <2> HIDE DEF was
    <2> QED BY <1>0, <1>3 DEF UnwantedConnsClose, Allowed, AllowedUnder
  <1>6. OnceEach'
    <2> HIDE DEF was
    <2> QED BY <1>3 DEF OnceEach
  <1>7. OrdinaryBounded'
    <2> DEFINE f == [j \in Ordinary(pool') |-> was(j)]
    <2> HIDE DEF was
    <2>1. f \in Injection(Ordinary(pool'), Ordinary(pool))
      BY <1>3 DEF Ordinary, Injection, IsInjective
    <2>2. IsFiniteSet(Ordinary(pool))
      <3>1. IsFiniteSet(1..Len(pool)) /\ Ordinary(pool) \in SUBSET (1..Len(pool))
        BY <1>0, FS_Interval DEF Ordinary
      <3> QED BY <3>1, FS_Subset
    <2>3. IsFiniteSet(Ordinary(pool')) /\ Cardinality(Ordinary(pool')) <= Cardinality(Ordinary(pool))
      BY <2>1, <2>2, FS_Injection
    <2>4. Cardinality(Ordinary(pool)) \in Nat /\ Cardinality(Ordinary(pool')) \in Nat
      BY <2>2, <2>3, FS_CardinalityType
    <2> QED BY <2>3, <2>4, PoolAssumption DEF OrdinaryBounded
  <1> QED BY <1>4, <1>5, <1>6, <1>7

\* A connection closes.
LEMMA DisconnectInv ==
  ASSUME PoolInv, NEW i \in DOMAIN pool, Disconnect(i)
  PROVE  PoolInv'
  <1> USE DEF PoolInv
  <1>0. /\ pool \in Seq(Conns) /\ Len(pool) \in Nat /\ i \in 1..Len(pool)
        /\ UNCHANGED <<dials, candidates, pinnedAddr, pinnedOld, overlays, stopped, changes>>
    BY PoolFacts DEF TypeOK, Disconnect, manager
  <1> DEFINE c == [pool[i] EXCEPT !.state = "gone"]
  <1>1. c \in Conns /\ c.addr = pool[i].addr /\ c.pinned = pool[i].pinned /\ c.state # "live"
    <2>1. \A x \in Conns : LET y == [x EXCEPT !.state = "gone"] IN
            y \in Conns /\ y.addr = x.addr /\ y.pinned = x.pinned /\ y.state # "live"
      BY DEF Conns
    <2> QED BY <1>0, <2>1, PoolFacts
  <1>2. pool' = [pool EXCEPT ![i] = c]
    BY DEF Disconnect
  <1> HIDE DEF c
  <1>3. /\ pool' \in Seq(Conns) /\ Len(pool') = Len(pool)
        /\ \A j \in 1..Len(pool) : pool'[j] = IF j = i THEN c ELSE pool[j]
    BY <1>0, <1>1, <1>2, ExceptSeq
  <1>4. SamePeers
    BY <1>1, <1>3 DEF SamePeers
  <1>5. TypeOK'
    BY <1>0, <1>3 DEF TypeOK
  <1>6. UnwantedConnsClose'
    <2>1. DOMAIN pool' = 1..Len(pool) /\ DOMAIN pool = 1..Len(pool)
      BY <1>0, <1>3, PoolFacts
    <2> QED BY <1>0, <1>1, <1>3, <2>1 DEF UnwantedConnsClose, Allowed, AllowedUnder
  <1> QED BY <1>4, <1>5, <1>6, SamePeersBounded

\* What the connections kept after a change of the settings or a stop need.
LEMMA ClosingInv ==
  ASSUME PoolInv, TypeOK', NEW unwanted, pool' = Closing(unwanted),
         \A i \in (1..Len(pool)) \ unwanted : pool[i].state = "live" =>
           /\ ~stopped'
           /\ AllowedUnder(overlays', NetworkOf[pool[i].addr])
           /\ pool[i].pinned => pool[i].addr = pinnedAddr'
  PROVE  PoolInv'
  <1> USE DEF PoolInv
  <1>1. pool \in Seq(Conns)
    BY DEF TypeOK
  <1>2. SamePeers
    BY <1>1, ClosingFacts DEF SamePeers
  <1>3. UnwantedConnsClose'
    <2>1. DOMAIN pool' = 1..Len(pool)
      BY <1>1, ClosingFacts, PoolFacts
    <2>2. \A i \in 1..Len(pool) :
            /\ pool'[i].addr = pool[i].addr
            /\ pool'[i].pinned = pool[i].pinned
            /\ pool'[i].state = "live" => pool[i].state = "live" /\ i \notin unwanted
      BY <1>1, ClosingFacts
    <2>3. \A n : Allowed(n)' = AllowedUnder(overlays', n)
      BY DEF Allowed, AllowedUnder
    <2> QED BY <2>1, <2>2, <2>3 DEF UnwantedConnsClose
  <1> QED BY <1>2, <1>3, SamePeersBounded

\* Stop and Start.
LEMMA StopInv ==
  ASSUME PoolInv, Stop \/ Start
  PROVE  PoolInv'
  <1>0. TypeOK
    BY DEF PoolInv
  <1>1. CASE Stop
    <2>1. /\ pool' = Closing(DOMAIN pool) /\ stopped' = TRUE
          /\ changes < MaxChanges /\ changes' = changes + 1
          /\ UNCHANGED <<dials, candidates, pinnedAddr, pinnedOld, overlays>>
      BY <1>1 DEF Stop, Change
    <2>2. pool' \in Seq(Conns)
      BY <1>0, <2>1, ClosingFacts DEF TypeOK
    <2>3. changes' \in 0..MaxChanges
      BY <1>0, <2>1, PoolAssumption DEF TypeOK
    <2>4. TypeOK'
      BY <1>0, <2>1, <2>2, <2>3 DEF TypeOK
    <2>5. DOMAIN pool = 1..Len(pool)
      BY <1>0, PoolFacts DEF TypeOK
    <2> QED BY <2>1, <2>4, <2>5, ClosingInv
  <1>2. CASE Start
    <2>1. TypeOK'
      BY <1>0, <1>2 DEF Start, TypeOK
    <2>2. pool' = << >> /\ DOMAIN pool' = {} /\ pool' = pool
      BY <1>2 DEF Start
    <2>3. UnwantedConnsClose' /\ OnceEach' /\ OrdinaryBounded'
      BY <2>2 DEF PoolInv, UnwantedConnsClose, OnceEach, OrdinaryBounded
    <2> QED BY <2>1, <2>3 DEF PoolInv
  <1> QED BY <1>1, <1>2

\* The settings change: connections no longer wanted close in the same
\* section.
LEMMA SettingsInv ==
  ASSUME PoolInv,
         \/ \E a \in Pins : SetPinned(a)
         \/ \E o \in Overlays : \E to \in {"off", "on", "ready"} : SetOverlay(o, to)
  PROVE  PoolInv'
  <1>0. /\ TypeOK /\ pool \in Seq(Conns) /\ DOMAIN pool = 1..Len(pool)
        /\ \A unwanted : Closing(unwanted) \in Seq(Conns)
    BY PoolFacts, ClosingFacts DEF PoolInv, TypeOK
  <1>1. \A i \in 1..Len(pool) : pool[i].state = "live" =>
          /\ ~stopped
          /\ AllowedUnder(overlays, NetworkOf[pool[i].addr])
          /\ pool[i].pinned => pool[i].addr = pinnedAddr
    BY <1>0 DEF PoolInv, UnwantedConnsClose, Allowed
  <1>2. Change => changes' \in 0..MaxChanges
    BY <1>0, PoolAssumption DEF Change, TypeOK
  <1>3. CASE \E a \in Pins : SetPinned(a)
    <2>1. PICK a \in Pins : SetPinned(a)
      BY <1>3
    <2> DEFINE unwanted == {i \in DOMAIN pool : pool[i].pinned \/ pool[i].addr = a}
    <2>2. /\ pool' = Closing(unwanted) /\ pinnedAddr' = a /\ pinnedOld' = FALSE /\ Change
          /\ UNCHANGED <<dials, candidates, overlays, stopped>>
      BY <2>1 DEF SetPinned
    <2>3. TypeOK'
      BY <1>0, <1>2, <2>2 DEF TypeOK
    <2>4. \A i \in (1..Len(pool)) \ unwanted : ~pool[i].pinned
      BY <1>0
    <2> HIDE DEF unwanted
    <2> QED BY <1>1, <2>2, <2>3, <2>4, ClosingInv
  <1>4. CASE \E o \in Overlays : \E to \in {"off", "on", "ready"} : SetOverlay(o, to)
    <2>1. PICK o \in Overlays, to \in {"off", "on", "ready"} : SetOverlay(o, to)
      BY <1>4
    <2> DEFINE settings == [overlays EXCEPT ![o] = to]
               unwanted == {i \in DOMAIN pool : ~AllowedUnder(settings, NetworkOf[pool[i].addr])}
    <2>2. overlays' = settings /\ Change /\ UNCHANGED <<dials, pinnedAddr, pinnedOld, stopped>>
      BY <2>1 DEF SetOverlay
    <2>3. overlays' \in [Overlays -> {"off", "on", "ready"}]
      BY <1>0, <2>2 DEF TypeOK
    <2>4. CASE (to = "off") = (overlays[o] = "off")
      <3>1. UNCHANGED <<pool, candidates>>
        BY <2>1, <2>4 DEF SetOverlay
      <3>2. TypeOK'
        BY <1>0, <1>2, <2>2, <2>3, <3>1 DEF TypeOK
      <3>3. \A x \in Overlays : (overlays'[x] = "off") <=> (overlays[x] = "off")
        BY <1>0, <2>2, <2>4 DEF TypeOK
      <3>4. \A n : AllowedUnder(overlays', n) <=> AllowedUnder(overlays, n)
        BY <3>3 DEF AllowedUnder
      <3>5. UnwantedConnsClose'
        BY <1>0, <1>1, <2>2, <3>1, <3>4 DEF UnwantedConnsClose, Allowed
      <3> QED BY <3>1, <3>2, <3>5 DEF PoolInv, OnceEach, OrdinaryBounded, Ordinary
    <2>5. CASE (to = "off") # (overlays[o] = "off")
      <3>1. pool' = Closing(unwanted) /\ candidates' \in {{}, candidates}
        BY <2>1, <2>5 DEF SetOverlay
      <3>2. TypeOK'
        BY <1>0, <1>2, <2>2, <2>3, <3>1 DEF TypeOK
      <3>3. \A i \in (1..Len(pool)) \ unwanted : AllowedUnder(overlays', NetworkOf[pool[i].addr])
        BY <1>0, <2>2
      <3> HIDE DEF unwanted
      <3> QED BY <1>1, <2>2, <3>1, <3>2, <3>3, ClosingInv
    <2> QED BY <2>4, <2>5
  <1> QED BY <1>3, <1>4

\* Every step keeps the invariant.
LEMMA NextPoolInv ==
  ASSUME PoolInv, [Next]_vars
  PROVE  PoolInv'
  <1>1. CASE UNCHANGED vars
    <2>1. TypeOK'
      BY <1>1 DEF PoolInv, TypeOK, vars, manager
    <2> QED BY <1>1, <2>1, SamePoolInv DEF vars, manager
  <1> QED BY <1>1, DialsInv, ConnectInv, DisconnectInv, ForgetInv, StopInv, SettingsInv DEF Next

(***************************************************************************)
(* The theorems                                                            *)
(***************************************************************************)

\* The pool, the dials in flight and the settings keep their types.
THEOREM PoolTypes == Spec => []TypeOK
  <1>1. PoolInv => TypeOK
    BY DEF PoolInv
  <1> QED BY <1>1, InitPoolInv, NextPoolInv, PTL DEF Spec

\* However dials, changes of the settings, stops and closes interleave, no
\* connection stays that the settings do not allow: a dial started under the
\* old ones does not get through (connect checks again under mu, SetOverlay,
\* SetPinned, Stop).
THEOREM UnwantedConnsAlwaysClose == Spec => []UnwantedConnsClose
  <1>1. PoolInv => UnwantedConnsClose
    BY DEF PoolInv
  <1> QED BY <1>1, InitPoolInv, NextPoolInv, PTL DEF Spec

\* For any number of addresses, workers and slots: at most TargetPeers ordinary
\* connections and one live pinned one, no peer twice, although any number of
\* dials finish their handshakes at once (connect).
THEOREM PoolStaysBounded == Spec => []PoolBounded
  <1>1. PoolInv => PoolBounded
    BY OnePinned
  <1> QED BY <1>1, InitPoolInv, NextPoolInv, PTL DEF Spec
============================================================================
