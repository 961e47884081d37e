------------------------- MODULE SyncStatusProofs -------------------------
(***************************************************************************)
(* Proofs about SyncStatus: type correctness, that the wallet calls itself *)
(* synced only with every block announced to it, and that the status shown *)
(* is the current one, however the sync loop, the peers' read loops and    *)
(* the goroutines of connections interleave.                               *)
(***************************************************************************)
EXTENDS SyncStatus, FiniteSetTheorems, SequenceTheorems, TLAPS

(***************************************************************************)
(* The goroutines                                                          *)
(***************************************************************************)

\* No goroutine is two: the sync loop, the read loops and the connections.
LEMMA Goroutines ==
  /\ Loop \in Procs
  /\ \A p \in Peers : Reader(p) \in Procs /\ Conn(p) \in Procs
  /\ \A p : Reader(p) # Loop /\ Conn(p) # Loop
  /\ \A p, q : Reader(p) # Conn(q)
  /\ \A p, q : Reader(p) = Reader(q) => p = q
  /\ \A p, q : Conn(p) = Conn(q) => p = q
  <1>1. \A p : Reader(p) # Loop /\ Conn(p) # Loop
    <2>1. Len(Loop) = 1 /\ \A p : Len(Reader(p)) = 2 /\ Len(Conn(p)) = 2
      BY DEF Loop, Reader, Conn
    <2> QED BY <2>1
  <1>2. \A p, q : Reader(p) # Conn(q)
    <2>1. \A p : Reader(p)[1] = "reader" /\ Conn(p)[1] = "conn"
      BY DEF Reader, Conn
    <2> QED BY <2>1
  <1>3. /\ \A p, q : Reader(p) = Reader(q) => p = q
        /\ \A p, q : Conn(p) = Conn(q) => p = q
    <2>1. \A p : Reader(p)[2] = p /\ Conn(p)[2] = p
      BY DEF Reader, Conn
    <2> QED BY <2>1
  <1> QED BY <1>1, <1>2, <1>3 DEF Procs

\* Every goroutine is one of them.
LEMMA EachGoroutine ==
  ASSUME NEW g \in Procs
  PROVE  g = Loop \/ \E p \in Peers : g = Reader(p) \/ g = Conn(p)
  BY DEF Procs

(***************************************************************************)
(* The inductive invariant                                                 *)
(***************************************************************************)

\* A peer tells of, and claims, only blocks it has.
BlocksHeard ==
  \A p \in Peers :
    /\ claim[p] <= top[p]
    /\ \A i \in 1..Len(told[p]) : told[p][i] <= top[p]
    /\ \A h \in news[p] : h <= top[p]

InRound == pc[Loop] \in {"begun", "headers", "extended", "end"}

\* Each goroutine is at a place of its own, and the activity is that of the
\* sync loop.
Places ==
  /\ pc[Loop] \in {"top", "begun", "headers", "extended", "end", "ended", "failed", "wait"}
  /\ activity = "busy" <=> InRound
  /\ \A p \in Peers : pc[Reader(p)] \in {"none", "unknown", "counted"}
  /\ \A p \in Peers : pc[Conn(p)] \in {"none", "joined", "up", "left"}

\* The headers of the round, or of the last one, were stored.
Covers == pc[Loop] \in {"extended", "end"} \/ (~InRound /\ roundOK)

\* What the peer of that round announced is in the chain, or counted since the
\* round began, or about to be.
NewsCounted ==
  Covers =>
    /\ primary \in Peers
    /\ \A h \in news[primary] :
         h <= chain \/ announced > seen \/ pc[Reader(primary)] = "unknown"

\* A round that succeeded made up for the announcements before it, no others.
RoundsCount == ~InRound /\ roundOK => syncedThrough = seen

\* One goroutine at a time has a status to show.
Turns ==
  /\ emitting = {} \/ \E g \in Procs : emitting = {g}
  /\ \A g \in emitting : pc[g] \in EmitPlaces
  /\ DOMAIN snap = Procs

\* The status of the last change is shown, or held by the goroutine whose turn
\* it is, or a goroutine is still to take one.
StatusOnItsWay ==
  \/ \E g \in Procs \ emitting : pc[g] \in EmitPlaces
  \/ \E g \in emitting : snap[g] = Status
  \/ emitting = {} /\ shown = Status

StatusInv ==
  TypeOK /\ BlocksHeard /\ Places /\ NewsCounted /\ RoundsCount /\ Turns /\ StatusOnItsWay

\* The invariant holds at the start.
LEMMA StatusInit == Init => StatusInv
  <1> SUFFICES ASSUME Init PROVE StatusInv
    OBVIOUS
  <1> USE BoundsAssumption DEF Init
  <1>1. Cardinality(emitting) <= 1
    BY FS_EmptySet
  <1>2. \A p \in Peers : pc[Reader(p)] = "none" /\ pc[Conn(p)] = "none" /\ Reader(p) \in Procs
    BY Goroutines
  <1>3. pc[Loop] = "top"
    BY Goroutines
  <1>4. TypeOK
    <2>1. top \in [Peers -> 0..Tip] /\ claim \in [Peers -> 0..Tip]
      OBVIOUS
    <2>2. << >> \in Seq(1..Tip)
      OBVIOUS
    <2>3. told \in [Peers -> Seq(1..Tip)]
      BY <2>2
    <2>4. news \in [Peers -> SUBSET (1..Tip)]
      OBVIOUS
    <2>5. pc \in [Procs -> EmitPlaces \cup {"top", "headers", "end", "wait", "none", "up", "unknown"}]
      OBVIOUS
    <2>6. moves \in 0..MaxMoves
      OBVIOUS
    <2>7. /\ closed \subseteq pool /\ pool \subseteq Peers /\ emitting \subseteq Procs
          /\ announced \in Nat /\ syncedThrough \in 0..announced /\ seen \in 0..announced
          /\ activity \in {"idle", "busy"}
          /\ chain \in 0..Tip /\ height \in 0..chain
          /\ primary \in Peers \cup {None}
      OBVIOUS
    <2>8. roundOK \in BOOLEAN /\ wake \in BOOLEAN
      OBVIOUS
    <2> HIDE DEF Init
    <2> QED BY <1>1, <2>1, <2>3, <2>4, <2>5, <2>6, <2>7, <2>8 DEF TypeOK
  <1>5. BlocksHeard
    BY DEF BlocksHeard
  <1>6. Places
    BY <1>2, <1>3 DEF Places, InRound
  <1>7. NewsCounted /\ RoundsCount
    BY <1>3 DEF NewsCounted, RoundsCount, Covers, InRound
  <1>8. Turns
    BY DEF Turns
  <1>9. StatusOnItsWay
    BY DEF StatusOnItsWay, Status
  <1> QED BY <1>4, <1>5, <1>6, <1>7, <1>8, <1>9 DEF StatusInv

(***************************************************************************)
(* One step                                                                *)
(***************************************************************************)

\* One goroutine has a turn, or none.
LEMMA TurnsBound ==
  ASSUME NEW E, E = {} \/ \E g \in Procs : E = {g}
  PROVE  Cardinality(E) <= 1
  <1>1. CASE E = {}
    BY <1>1, FS_EmptySet
  <1>2. ASSUME NEW g \in Procs, E = {g} PROVE Cardinality(E) <= 1
    BY <1>2, FS_Singleton
  <1> QED BY <1>1, <1>2

\* The turns are taken and given back.
LEMMA TurnsStep ==
  ASSUME TypeOK, Turns, [Next]_vars
  PROVE  Turns'
  <1> USE DEF world, counters, report, emits, links, vars
  <1>1. ASSUME NEW g \in Procs, TakeStatus(g) PROVE Turns'
    BY <1>1 DEF TakeStatus, Turns
  <1>2. ASSUME NEW g \in Procs, ShowStatus(g) PROVE Turns'
    <2>1. emitting = {g} /\ emitting' = {}
      BY <1>2 DEF ShowStatus, Turns
    <2>2. DOMAIN snap' = DOMAIN snap
      BY <1>2 DEF ShowStatus
    <2> QED BY <2>1, <2>2 DEF Turns
  <1>3. ASSUME NEW p \in Peers, Hear(p) \/ Lose(p) PROVE Turns'
    BY <1>3 DEF Hear, Lose, Turns
  <1>4. ASSUME NEW p \in Peers, Join(p) PROVE Turns'
    BY <1>4, Goroutines DEF Join, Turns, Goto, TypeOK, EmitPlaces
  <1>5. ASSUME NEW p \in Peers, Leave(p) PROVE Turns'
    BY <1>5, Goroutines DEF Leave, Turns, Goto, TypeOK, EmitPlaces
  <1>6. ASSUME NEW p \in Peers, ReceiveInv(p) PROVE Turns'
    BY <1>6, Goroutines DEF ReceiveInv, Turns, Goto, TypeOK, EmitPlaces
  <1>7. ASSUME NEW p \in Peers, BlockAnnounced(p) PROVE Turns'
    BY <1>7, Goroutines DEF BlockAnnounced, Turns, Goto, TypeOK, EmitPlaces
  <1>8. ASSUME NEW p \in Peers, BeginRound(p) PROVE Turns'
    BY <1>8, Goroutines DEF BeginRound, Turns, Goto, TypeOK, EmitPlaces
  <1>9. CASE WaitForPeer
    BY <1>9 DEF WaitForPeer, Turns
  <1>10. CASE SyncHeaders
    BY <1>10, Goroutines DEF SyncHeaders, Turns, Goto, TypeOK, EmitPlaces
  <1>11. CASE RoundDone \/ PeerGone \/ RoundFails
    <2>1. /\ emitting' = emitting /\ snap' = snap
          /\ pc[Loop] \in {"headers", "end"}
          /\ pc' = [pc EXCEPT ![Loop] = "ended"] \/ pc' = [pc EXCEPT ![Loop] = "failed"]
      BY <1>11 DEF RoundDone, PeerGone, RoundFails, EndRound, Goto
    <2> QED BY <2>1, Goroutines DEF Turns, TypeOK, EmitPlaces
  <1>12. CASE Woken \/ PollTimer
    BY <1>12, Goroutines DEF Woken, PollTimer, Turns, Goto, TypeOK, EmitPlaces
  <1>13. CASE UNCHANGED vars
    BY <1>13 DEF Turns
  <1> QED
    BY <1>1, <1>2, <1>3, <1>4, <1>5, <1>6, <1>7, <1>8, <1>9, <1>10, <1>11, <1>12, <1>13
       DEF Next, Progress, SyncLoop

\* An adverse event takes one of those left.
LEMMA MoveFacts ==
  ASSUME moves \in 0..MaxMoves, Move \/ UNCHANGED moves
  PROVE  moves' \in 0..MaxMoves
  BY BoundsAssumption DEF Move

\* Types are kept.
LEMMA TypeStep ==
  ASSUME TypeOK, Turns, [Next]_vars
  PROVE  TypeOK'
  <1> USE BoundsAssumption DEF world, counters, report, emits, links, vars
  <1>0. Cardinality(emitting') <= 1
    BY TurnsStep, TurnsBound DEF Turns
  <1>1. ASSUME NEW g \in Procs, TakeStatus(g) PROVE TypeOK'
    BY <1>0, <1>1 DEF TakeStatus, TypeOK
  <1>2. ASSUME NEW g \in Procs, ShowStatus(g) PROVE TypeOK'
    <2>1. pc[g] \in EmitPlaces
      BY <1>2 DEF ShowStatus, Turns
    <2>2. After(pc[g]) \in EmitPlaces \cup {"top", "headers", "end", "wait", "none", "up", "unknown"}
      BY <2>1 DEF EmitPlaces, After
    <2>3. wake' \in BOOLEAN
      BY <1>2 DEF ShowStatus, TypeOK, WakeSync
    <2>4. pc' \in [Procs -> EmitPlaces \cup {"top", "headers", "end", "wait", "none", "up", "unknown"}]
      BY <1>2, <2>2 DEF ShowStatus, TypeOK, Goto
    <2>5. emitting' \subseteq Procs
      BY <1>2 DEF ShowStatus, TypeOK
    <2> QED BY <1>0, <1>2, <2>3, <2>4, <2>5 DEF ShowStatus, TypeOK
  <1>3. ASSUME NEW p \in Peers, Hear(p) PROVE TypeOK'
    <2>1. top[p] + 1 \in 1..Tip
      BY <1>3 DEF Hear, TypeOK
    <2>2. told' \in [Peers -> Seq(1..Tip)]
      <3>1. told[p] \in Seq(1..Tip)
        BY DEF TypeOK
      <3>2. Append(told[p], top[p] + 1) \in Seq(1..Tip)
        BY <2>1, <3>1, AppendProperties
      <3>3. told \in [Peers -> Seq(1..Tip)]
        BY DEF TypeOK
      <3> QED BY <1>3, <3>1, <3>2, <3>3 DEF Hear
    <2>3. top' \in [Peers -> 0..Tip]
      BY <1>3, <2>1 DEF Hear, TypeOK
    <2> QED BY <1>0, <1>3, <2>2, <2>3 DEF Hear, TypeOK
  <1>4. ASSUME NEW p \in Peers, Join(p) PROVE TypeOK'
    BY <1>0, <1>4, Goroutines DEF Join, Goto, TypeOK, EmitPlaces
  <1>5. ASSUME NEW p \in Peers, Leave(p) PROVE TypeOK'
    BY <1>0, <1>5, Goroutines DEF Leave, Goto, TypeOK, EmitPlaces
  <1>6. ASSUME NEW p \in Peers, ReceiveInv(p) PROVE TypeOK'
    <2>1. told[p] \in Seq(1..Tip) /\ told[p] # << >>
      BY <1>6 DEF ReceiveInv, TypeOK
    <2>2. Head(told[p]) \in 1..Tip /\ Tail(told[p]) \in Seq(1..Tip)
      BY <2>1, HeadTailProperties
    <2>3. told' \in [Peers -> Seq(1..Tip)] /\ news' \in [Peers -> SUBSET (1..Tip)]
      BY <1>6, <2>2 DEF ReceiveInv, TypeOK
    <2>4. wake' \in BOOLEAN /\ pc' \in [Procs -> EmitPlaces \cup
                {"top", "headers", "end", "wait", "none", "up", "unknown"}]
      BY <1>6, Goroutines DEF ReceiveInv, TypeOK, Goto
    <2> QED BY <1>0, <1>6, <2>3, <2>4 DEF ReceiveInv, TypeOK
  <1>7. ASSUME NEW p \in Peers, BlockAnnounced(p) PROVE TypeOK'
    BY <1>0, <1>7, Goroutines DEF BlockAnnounced, Goto, TypeOK, EmitPlaces
  <1>8. ASSUME NEW p \in Peers, BeginRound(p) PROVE TypeOK'
    BY <1>0, <1>8, Goroutines DEF BeginRound, Goto, TypeOK, EmitPlaces
  <1>9. CASE WaitForPeer
    BY <1>0, <1>9 DEF WaitForPeer, TypeOK
  <1>10. CASE SyncHeaders
    <2>1. primary \in Peers /\ top[primary] \in 0..Tip
      BY <1>10 DEF SyncHeaders, TypeOK
    <2> QED BY <1>0, <1>10, <2>1, Goroutines DEF SyncHeaders, Goto, TypeOK, EmitPlaces
  <1>11. CASE RoundDone \/ PeerGone \/ RoundFails
    <2>1. PICK ok \in BOOLEAN : EndRound(ok)
      BY <1>11 DEF RoundDone, PeerGone, RoundFails
    <2>2. /\ closed' \subseteq pool'
          /\ told' \in [Peers -> Seq(1..Tip)]
          /\ moves' \in 0..MaxMoves
      <3>1. moves' \in 0..MaxMoves
        BY <1>11, MoveFacts DEF RoundDone, PeerGone, RoundFails, TypeOK
      <3>2. pool' = pool
        BY <2>1 DEF EndRound
      <3>3. (closed' = closed /\ told' = told) \/ (primary \in pool /\ Disconnect(primary))
        BY <1>11 DEF RoundDone, PeerGone, RoundFails
      <3>4. told' \in [Peers -> Seq(1..Tip)]
        <4>1. << >> \in Seq(1..Tip) /\ told \in [Peers -> Seq(1..Tip)]
          BY DEF TypeOK
        <4> QED BY <3>3, <4>1 DEF Disconnect
      <3>5. closed' \subseteq pool'
        BY <3>2, <3>3 DEF Disconnect, TypeOK
      <3> QED BY <3>1, <3>4, <3>5
    <2>3. syncedThrough' \in 0..announced' /\ seen' \in 0..announced' /\ height' \in 0..chain'
      BY <2>1 DEF EndRound, SyncedThrough, TypeOK
    <2> QED BY <1>0, <2>1, <2>2, <2>3, Goroutines DEF EndRound, Goto, TypeOK, EmitPlaces
  <1>12. CASE Woken \/ PollTimer
    <2>1. moves' \in 0..MaxMoves
      BY <1>12, MoveFacts DEF Woken, PollTimer, TypeOK
    <2>2. wake' \in BOOLEAN
      BY <1>12 DEF Woken, PollTimer, TypeOK
    <2>3. pc' = [pc EXCEPT ![Loop] = "top"]
      BY <1>12 DEF Woken, PollTimer, Goto
    <2> QED BY <1>0, <1>12, <2>1, <2>2, <2>3 DEF Woken, PollTimer, TypeOK
  <1>13. ASSUME NEW p \in Peers, Lose(p) PROVE TypeOK'
    <2>1. moves' \in 0..MaxMoves
      BY <1>13, MoveFacts DEF Lose, TypeOK
    <2>2. told' \in [Peers -> Seq(1..Tip)]
      <3>1. << >> \in Seq(1..Tip) /\ told \in [Peers -> Seq(1..Tip)]
        BY DEF TypeOK
      <3> QED BY <1>13, <3>1 DEF Lose, Disconnect
    <2> QED BY <1>0, <1>13, <2>1, <2>2 DEF Lose, Disconnect, TypeOK
  <1>14. CASE UNCHANGED vars
    BY <1>14 DEF TypeOK
  <1> QED
    BY <1>1, <1>2, <1>3, <1>4, <1>5, <1>6, <1>7, <1>8, <1>9, <1>10, <1>11, <1>12, <1>13, <1>14
       DEF Next, Progress, SyncLoop

\* Blocks are announced and claimed by peers that have them, and goroutines
\* keep to their places.
LEMMA HeardStep ==
  ASSUME TypeOK, Turns, BlocksHeard, Places, [Next]_vars
  PROVE  BlocksHeard' /\ Places'
  <1> USE DEF world, counters, report, emits, links, vars
  <1>1. ASSUME NEW g \in Procs, TakeStatus(g) PROVE BlocksHeard' /\ Places'
    BY <1>1 DEF TakeStatus, BlocksHeard, Places, InRound
  <1>2. ASSUME NEW g \in Procs, ShowStatus(g) PROVE BlocksHeard' /\ Places'
    <2>1. BlocksHeard'
      BY <1>2 DEF ShowStatus, BlocksHeard
    <2>2. /\ pc[g] \in EmitPlaces
          /\ pc' = [pc EXCEPT ![g] = After(pc[g])]
          /\ activity' = activity
      BY <1>2 DEF ShowStatus, Turns, Goto
    <2>3. pc \in [Procs -> EmitPlaces \cup {"top", "headers", "end", "wait", "none", "up", "unknown"}]
      BY DEF TypeOK
    <2>4. CASE g = Loop
      <3>1. pc[Loop] \in {"begun", "extended", "ended", "failed"}
        BY <2>2, <2>4 DEF Places, EmitPlaces
      <3> QED BY <2>1, <2>2, <2>3, <2>4, <3>1, Goroutines DEF Places, InRound, After
    <2>5. ASSUME NEW q \in Peers, g = Reader(q) PROVE Places'
      <3>1. pc[g] = "counted"
        BY <2>2, <2>5 DEF Places, EmitPlaces
      <3> QED BY <2>2, <2>3, <2>5, <3>1, Goroutines DEF Places, InRound, After
    <2>6. ASSUME NEW q \in Peers, g = Conn(q) PROVE Places'
      <3>1. pc[g] \in {"joined", "left"}
        BY <2>2, <2>6 DEF Places, EmitPlaces
      <3> QED BY <2>2, <2>3, <2>6, <3>1, Goroutines DEF Places, InRound, After
    <2> QED BY <2>1, <2>4, <2>5, <2>6, EachGoroutine
  <1>3. ASSUME NEW p \in Peers, Hear(p) PROVE BlocksHeard' /\ Places'
    <2>1. Places'
      BY <1>3 DEF Hear, Places, InRound
    <2>2. /\ top' = [top EXCEPT ![p] = top[p] + 1] /\ top \in [Peers -> 0..Tip]
          /\ claim' = claim /\ claim \in [Peers -> 0..Tip]
          /\ news' = news /\ news \in [Peers -> SUBSET (1..Tip)]
      BY <1>3 DEF Hear, TypeOK
    <2>3. ASSUME NEW q \in Peers, NEW i \in 1..Len(told'[q]) PROVE told'[q][i] <= top'[q]
      <3>1. told[q] \in Seq(1..Tip) /\ told \in [Peers -> Seq(1..Tip)]
        BY DEF TypeOK
      <3> DEFINE s == told[q]
      <3>a. \A j \in 1..Len(s) : s[j] <= top[q]
        BY DEF BlocksHeard
      <3>b. \A j \in 1..Len(s) : s[j] \in 1..Tip
        BY <3>1, ElementOfSeq
      <3>c. Len(s) \in Nat
        BY <3>1
      <3>2. CASE told'[q] = told[q]
        <4>1. s[i] <= top[q] /\ s[i] \in 1..Tip
          BY <2>3, <3>a, <3>b, <3>2
        <4> QED BY <2>2, <3>2, <4>1, BoundsAssumption
      <3>3. CASE q = p /\ told'[q] = Append(told[q], top[q] + 1)
        <4>0. i \in 1..Len(s) \/ i = Len(s) + 1
          <5>1. i \in 1..Len(Append(s, top[q] + 1))
            BY <2>3, <3>3
          <5>2. Len(Append(s, top[q] + 1)) = Len(s) + 1
            BY <3>1
          <5> QED BY <5>1, <5>2, <3>c
        <4>1. (s[i] <= top[q] /\ s[i] \in 1..Tip) \/ i = Len(s) + 1
          BY <4>0, <3>a, <3>b
        <4>2. i # Len(told[q]) + 1 => told'[q][i] = told[q][i]
          BY <2>3, <3>1, <3>3, AppendProperties
        <4>3. i = Len(told[q]) + 1 => told'[q][i] = top[q] + 1
          BY <3>1, <3>3, AppendProperties
        <4>4. top'[q] = top[q] + 1 /\ top[q] \in Nat
          BY <2>2, <3>3, BoundsAssumption
        <4> QED BY <4>1, <4>2, <4>3, <4>4
      <3> QED BY <1>3, <3>1, <3>2, <3>3 DEF Hear
    <2>4. \A q \in Peers : top[q] <= top'[q] /\ top[q] \in Nat /\ top'[q] \in Nat
      BY <2>2
    <2>5. \A q \in Peers : claim'[q] <= top'[q] /\ \A h \in news'[q] : h <= top'[q]
      <3>1. ASSUME NEW q \in Peers PROVE claim[q] \in Nat /\ \A h \in news[q] : h \in Nat
        BY <2>2
      <3> QED BY <2>2, <2>4, <3>1 DEF BlocksHeard
    <2> QED BY <2>1, <2>3, <2>5 DEF BlocksHeard
  <1>4. ASSUME NEW p \in Peers, Join(p) PROVE BlocksHeard' /\ Places'
    <2>1. BlocksHeard'
      BY <1>4 DEF Join, BlocksHeard, TypeOK
    <2> QED BY <1>4, <2>1, Goroutines DEF Join, Places, InRound, Goto, TypeOK, EmitPlaces
  <1>5. ASSUME NEW p \in Peers, Leave(p) PROVE BlocksHeard' /\ Places'
    <2>1. BlocksHeard'
      BY <1>5 DEF Leave, BlocksHeard
    <2> QED BY <1>5, <2>1, Goroutines DEF Leave, Places, InRound, Goto, TypeOK, EmitPlaces
  <1>6. ASSUME NEW p \in Peers, ReceiveInv(p) PROVE BlocksHeard' /\ Places'
    <2>1. told[p] \in Seq(1..Tip) /\ told[p] # << >> /\ told \in [Peers -> Seq(1..Tip)]
      BY <1>6 DEF ReceiveInv, TypeOK
    <2>2. /\ Head(told[p]) = told[p][1]
          /\ Len(told[p]) \in Nat /\ Len(told[p]) > 0 /\ Len(Tail(told[p])) = Len(told[p]) - 1
          /\ \A i \in 1..Len(Tail(told[p])) : Tail(told[p])[i] = told[p][i + 1]
      BY <2>1, HeadTailProperties
    <2>3. \A i \in 1..Len(Tail(told[p])) : i + 1 \in 1..Len(told[p])
      BY <2>2
    <2>4. 1 \in 1..Len(told[p])
      BY <2>2
    <2>5. told' = [told EXCEPT ![p] = Tail(told[p])] /\ top' = top /\ claim' = claim
      BY <1>6 DEF ReceiveInv
    <2>6. \A q \in Peers : \A i \in 1..Len(told'[q]) : told'[q][i] <= top'[q]
      <3>1. ASSUME NEW q \in Peers, q # p
            PROVE  \A i \in 1..Len(told'[q]) : told'[q][i] <= top'[q]
        BY <2>1, <2>5, <3>1 DEF BlocksHeard
      <3>2. \A i \in 1..Len(told[p]) : told[p][i] <= top[p]
        BY DEF BlocksHeard
      <3>3. told'[p] = Tail(told[p]) /\ top'[p] = top[p]
        BY <2>1, <2>5
      <3>4. ASSUME NEW i \in 1..Len(Tail(told[p])) PROVE Tail(told[p])[i] <= top[p]
        <4>1. Tail(told[p])[i] = told[p][i + 1]
          BY <2>2
        <4>2. i + 1 \in 1..Len(told[p])
          BY <2>3
        <4> QED BY <3>2, <4>1, <4>2
      <3> QED BY <3>1, <3>3, <3>4
    <2>7. \A q \in Peers : \A h \in news'[q] : h \in news[q] \/ (q = p /\ h = told[p][1])
      <3>1. news' = [news EXCEPT ![p] = IF Head(told[p]) > chain
                                           THEN news[p] \cup {Head(told[p])} ELSE news[p]]
        BY <1>6 DEF ReceiveInv
      <3>2. news \in [Peers -> SUBSET (1..Tip)]
        BY DEF TypeOK
      <3>3. ASSUME NEW q \in Peers PROVE news'[q] = news[q] \/ (q = p /\ news'[q] = news[q] \cup {Head(told[p])})
        BY <3>1, <3>2
      <3> QED BY <2>2, <3>3
    <2>8. BlocksHeard'
      BY <2>4, <2>5, <2>6, <2>7 DEF BlocksHeard
    <2>9. (pc' = pc \/ pc' = [pc EXCEPT ![Reader(p)] = "unknown"]) /\ activity' = activity
      BY <1>6 DEF ReceiveInv, Goto
    <2>10. Places'
      <3>1. CASE pc' = pc
        BY <2>9, <3>1 DEF Places, InRound
      <3>2. CASE pc' = [pc EXCEPT ![Reader(p)] = "unknown"]
        <4>1. pc'[Loop] = pc[Loop] /\ \A q \in Peers : pc'[Conn(q)] = pc[Conn(q)]
          BY <3>2, Goroutines DEF TypeOK
        <4>2. \A q \in Peers : pc'[Reader(q)] \in {pc[Reader(q)], "unknown"}
          BY <3>2, Goroutines DEF TypeOK
        <4> QED BY <2>9, <4>1, <4>2 DEF Places, InRound
      <3> QED BY <2>9, <3>1, <3>2
    <2> QED BY <2>8, <2>10
  <1>7. ASSUME NEW p \in Peers, BlockAnnounced(p) PROVE BlocksHeard' /\ Places'
    <2>1. BlocksHeard'
      BY <1>7 DEF BlockAnnounced, BlocksHeard
    <2> QED BY <1>7, <2>1, Goroutines DEF BlockAnnounced, Places, InRound, Goto, TypeOK, EmitPlaces
  <1>8. ASSUME NEW p \in Peers, BeginRound(p) PROVE BlocksHeard' /\ Places'
    <2>1. BlocksHeard'
      BY <1>8 DEF BeginRound, BlocksHeard
    <2> QED BY <1>8, <2>1, Goroutines DEF BeginRound, Places, InRound, Goto, TypeOK, EmitPlaces
  <1>9. CASE WaitForPeer
    BY <1>9 DEF WaitForPeer, BlocksHeard, Places, InRound
  <1>10. CASE SyncHeaders
    <2>1. BlocksHeard'
      BY <1>10 DEF SyncHeaders, BlocksHeard
    <2> QED BY <1>10, <2>1, Goroutines DEF SyncHeaders, Places, InRound, Goto, TypeOK, EmitPlaces
  <1>11. CASE RoundDone \/ PeerGone \/ RoundFails
    <2>1. PICK ok \in BOOLEAN : EndRound(ok)
      BY <1>11 DEF RoundDone, PeerGone, RoundFails
    <2>2. told' = told \/ \E q \in Peers : told' = [told EXCEPT ![q] = << >>]
      BY <1>11 DEF RoundDone, PeerGone, RoundFails, Disconnect, TypeOK
    <2>3. BlocksHeard'
      <3>1. top' = top /\ claim' = claim /\ news' = news
        BY <2>1 DEF EndRound
      <3>2. Len(<< >>) = 0 /\ told \in [Peers -> Seq(1..Tip)]
        BY DEF TypeOK
      <3>3. \A q \in Peers : told'[q] = told[q] \/ told'[q] = << >>
        BY <2>2, <3>2
      <3> QED BY <3>1, <3>2, <3>3 DEF BlocksHeard
    <2>4. /\ activity' = "idle"
          /\ pc' = [pc EXCEPT ![Loop] = "ended"] \/ pc' = [pc EXCEPT ![Loop] = "failed"]
      BY <2>1 DEF EndRound, Goto
    <2> QED BY <2>3, <2>4, Goroutines DEF Places, InRound, TypeOK
  <1>12. CASE Woken \/ PollTimer
    <2>1. BlocksHeard'
      BY <1>12 DEF Woken, PollTimer, BlocksHeard
    <2>2. pc' = [pc EXCEPT ![Loop] = "top"] /\ pc[Loop] = "wait" /\ activity' = activity
      BY <1>12 DEF Woken, PollTimer, Goto
    <2> QED BY <2>1, <2>2, Goroutines DEF Places, InRound, TypeOK
  <1>13. ASSUME NEW p \in Peers, Lose(p) PROVE BlocksHeard' /\ Places'
    <2>1. /\ Len(<< >>) = 0 /\ told \in [Peers -> Seq(1..Tip)]
          /\ told' = [told EXCEPT ![p] = << >>]
      BY <1>13 DEF TypeOK, Lose, Disconnect
    <2>2. BlocksHeard'
      <3>1. \A q \in Peers : told'[q] = told[q] \/ told'[q] = << >>
        BY <2>1
      <3> QED BY <1>13, <2>1, <3>1 DEF Lose, BlocksHeard
    <2> QED BY <1>13, <2>2 DEF Lose, Places, InRound
  <1>14. CASE UNCHANGED vars
    BY <1>14 DEF BlocksHeard, Places, InRound
  <1> QED
    BY <1>1, <1>2, <1>3, <1>4, <1>5, <1>6, <1>7, <1>8, <1>9, <1>10, <1>11, <1>12, <1>13, <1>14
       DEF Next, Progress, SyncLoop

\* The announcements of the round's peer are accounted for.
LEMMA NewsStep ==
  ASSUME TypeOK, Turns, BlocksHeard, Places, NewsCounted, RoundsCount, [Next]_vars
  PROVE  NewsCounted' /\ RoundsCount'
  <1> USE DEF world, counters, report, emits, links, vars
  <1>t. /\ announced \in Nat /\ seen \in 0..announced /\ syncedThrough \in 0..announced
        /\ chain \in Nat /\ pc \in [Procs -> EmitPlaces \cup
                {"top", "headers", "end", "wait", "none", "up", "unknown"}]
        /\ news \in [Peers -> SUBSET (1..Tip)]
    BY BoundsAssumption DEF TypeOK
  <1> DEFINE Same == /\ primary' = primary /\ roundOK' = roundOK /\ news' = news
                     /\ chain' = chain /\ announced' = announced /\ seen' = seen
                     /\ syncedThrough' = syncedThrough
  <1>s. ASSUME Same, pc'[Loop] = pc[Loop],
               \A q \in Peers : pc[Reader(q)] = "unknown" => pc'[Reader(q)] = "unknown"
        PROVE  NewsCounted' /\ RoundsCount'
    BY <1>s DEF NewsCounted, RoundsCount, Covers, InRound
  <1>1. ASSUME NEW g \in Procs, TakeStatus(g) PROVE NewsCounted' /\ RoundsCount'
    BY <1>1, <1>s DEF TakeStatus
  <1>2. ASSUME NEW g \in Procs, ShowStatus(g) PROVE NewsCounted' /\ RoundsCount'
    <2>1. Same /\ pc' = [pc EXCEPT ![g] = After(pc[g])] /\ pc[g] \in EmitPlaces
      BY <1>2 DEF ShowStatus, Goto, Turns
    <2>2. CASE g = Loop
      <3>1. \A q \in Peers : pc'[Reader(q)] = pc[Reader(q)]
        BY <1>t, <2>1, <2>2, Goroutines
      <3>2. \/ pc[Loop] = "begun" /\ pc'[Loop] = "headers"
            \/ pc[Loop] = "extended" /\ pc'[Loop] = "end"
            \/ pc[Loop] = "ended" /\ pc'[Loop] = "wait"
            \/ pc[Loop] = "failed" /\ pc'[Loop] = "top"
        BY <1>t, <2>1, <2>2, Goroutines DEF Places, After, EmitPlaces
      <3> QED BY <2>1, <3>1, <3>2 DEF NewsCounted, RoundsCount, Covers, InRound
    <2>3. CASE g # Loop
      <3>1. pc'[Loop] = pc[Loop]
        BY <1>t, <2>1, <2>3, Goroutines
      <3>2. \A q \in Peers : pc[Reader(q)] = "unknown" => pc'[Reader(q)] = "unknown"
        BY <1>t, <2>1, Goroutines DEF EmitPlaces
      <3> QED BY <2>1, <3>1, <3>2, <1>s
    <2> QED BY <2>2, <2>3
  <1>3. ASSUME NEW p \in Peers, Hear(p) \/ Lose(p) PROVE NewsCounted' /\ RoundsCount'
    BY <1>3, <1>s DEF Hear, Lose
  <1>4. ASSUME NEW p \in Peers, Join(p) PROVE NewsCounted' /\ RoundsCount'
    <2>1. pc'[Loop] = pc[Loop] /\ \A q \in Peers : pc'[Reader(q)] = pc[Reader(q)]
      BY <1>t, <1>4, Goroutines DEF Join, Goto
    <2> QED BY <1>4, <2>1, <1>s DEF Join
  <1>5. ASSUME NEW p \in Peers, Leave(p) PROVE NewsCounted' /\ RoundsCount'
    <2>1. pc'[Loop] = pc[Loop] /\ \A q \in Peers : pc'[Reader(q)] = pc[Reader(q)]
      BY <1>t, <1>5, Goroutines DEF Leave, Goto
    <2>2. CASE primary' = primary
      BY <1>5, <2>1, <2>2, <1>s DEF Leave
    <2>3. CASE primary' # primary
      <3>1. pc[Loop] \in {"begun", "headers"}
        BY <1>5, <2>3 DEF Leave
      <3> QED BY <2>1, <3>1 DEF NewsCounted, RoundsCount, Covers, InRound
    <2> QED BY <2>2, <2>3
  <1>6. ASSUME NEW p \in Peers, ReceiveInv(p) PROVE NewsCounted' /\ RoundsCount'
    <2>1. CASE Head(told[p]) > chain
      <3>1. pc' = [pc EXCEPT ![Reader(p)] = "unknown"]
        BY <1>6, <2>1 DEF ReceiveInv, Goto
      <3>2. pc'[Loop] = pc[Loop] /\ pc'[Reader(p)] = "unknown"
            /\ \A q \in Peers : pc[Reader(q)] = "unknown" => pc'[Reader(q)] = "unknown"
        BY <1>t, <3>1, Goroutines
      <3>3. news' = [news EXCEPT ![p] = news[p] \cup {Head(told[p])}]
        BY <1>6, <2>1 DEF ReceiveInv
      <3>4. \A q \in Peers : q # p => news'[q] = news[q]
        BY <1>t, <3>3
      <3>5. /\ primary' = primary /\ roundOK' = roundOK /\ chain' = chain
            /\ announced' = announced /\ seen' = seen /\ syncedThrough' = syncedThrough
        BY <1>6 DEF ReceiveInv
      <3>6. RoundsCount' /\ (Covers' => Covers)
        BY <3>2, <3>5 DEF RoundsCount, Covers, InRound
      <3>7. NewsCounted'
        BY <3>2, <3>4, <3>5, <3>6 DEF NewsCounted
      <3> QED BY <3>6, <3>7
    <2>2. CASE ~(Head(told[p]) > chain)
      <3>1. pc' = pc /\ news' = [news EXCEPT ![p] = news[p]]
        BY <1>6, <2>2 DEF ReceiveInv
      <3>2. news' = news
        BY <1>t, <3>1
      <3> QED BY <1>6, <3>1, <3>2, <1>s DEF ReceiveInv
    <2> QED BY <2>1, <2>2
  <1>7. ASSUME NEW p \in Peers, BlockAnnounced(p) PROVE NewsCounted' /\ RoundsCount'
    <2>1. pc'[Loop] = pc[Loop] /\ announced' = announced + 1
          /\ primary' = primary /\ roundOK' = roundOK /\ seen' = seen /\ syncedThrough' = syncedThrough
      BY <1>t, <1>7, Goroutines DEF BlockAnnounced, Goto
    <2>2. announced' > seen'
      BY <1>t, <2>1
    <2> QED BY <2>1, <2>2 DEF NewsCounted, RoundsCount, Covers, InRound
  <1>8. ASSUME NEW p \in Peers, BeginRound(p) PROVE NewsCounted' /\ RoundsCount'
    <2>1. pc'[Loop] = "begun"
      BY <1>t, <1>8, Goroutines DEF BeginRound, Goto
    <2> QED BY <2>1 DEF NewsCounted, RoundsCount, Covers, InRound
  <1>9. CASE WaitForPeer
    BY <1>9, <1>s DEF WaitForPeer
  <1>10. CASE SyncHeaders
    <2>1. pc'[Loop] = "extended" /\ primary' = primary /\ news' = news
      BY <1>t, <1>10, Goroutines DEF SyncHeaders, Goto
    <2>2. primary \in Peers /\ top[primary] \in Nat
      BY <1>10, BoundsAssumption DEF SyncHeaders, TypeOK
    <2>3. chain' >= top[primary]
      BY <1>t, <1>10, <2>2 DEF SyncHeaders
    <2>4. \A h \in news[primary] : h <= chain'
      <3>1. chain' \in Nat
        BY <1>t, <1>10, <2>2 DEF SyncHeaders
      <3>2. \A h \in news[primary] : h \in Nat /\ h <= top[primary]
        BY <1>t, <2>2 DEF BlocksHeard
      <3> QED BY <2>2, <2>3, <3>1, <3>2
    <2> QED BY <2>1, <2>2, <2>4 DEF NewsCounted, RoundsCount, InRound
  <1>11. CASE RoundDone
    <2>1. /\ pc[Loop] = "end" /\ pc'[Loop] = "ended"
          /\ \A q \in Peers : pc'[Reader(q)] = pc[Reader(q)]
      BY <1>t, <1>11, Goroutines DEF RoundDone, EndRound, Goto
    <2>2. /\ syncedThrough' = seen /\ seen' = seen /\ announced' = announced
          /\ primary' = primary /\ chain' = chain /\ news' = news
      BY <1>11 DEF RoundDone, EndRound, SyncedThrough
    <2> QED BY <2>1, <2>2 DEF NewsCounted, RoundsCount, Covers, InRound
  <1>12. CASE PeerGone \/ RoundFails
    <2>1. pc'[Loop] = "failed" /\ roundOK' = FALSE
      BY <1>t, <1>12, Goroutines DEF PeerGone, RoundFails, EndRound, Goto
    <2> QED BY <2>1 DEF NewsCounted, RoundsCount, Covers, InRound
  <1>13. CASE Woken \/ PollTimer
    <2>1. /\ pc[Loop] = "wait" /\ pc'[Loop] = "top"
          /\ \A q \in Peers : pc'[Reader(q)] = pc[Reader(q)]
      BY <1>t, <1>13, Goroutines DEF Woken, PollTimer, Goto
    <2>2. Same
      BY <1>13 DEF Woken, PollTimer
    <2> QED BY <2>1, <2>2 DEF NewsCounted, RoundsCount, Covers, InRound
  <1>14. CASE UNCHANGED vars
    BY <1>14, <1>s
  <1> QED
    BY <1>1, <1>2, <1>3, <1>4, <1>5, <1>6, <1>7, <1>8, <1>9, <1>10, <1>11, <1>12, <1>13, <1>14
       DEF Next, Progress, SyncLoop

\* A change of the status leaves a goroutine that is still to take it.
LEMMA ShownStep ==
  ASSUME TypeOK, Turns, Places, StatusOnItsWay, [Next]_vars
  PROVE  StatusOnItsWay'
  <1> USE DEF world, counters, report, emits, links, vars
  <1>t. pc \in [Procs -> EmitPlaces \cup {"top", "headers", "end", "wait", "none", "up", "unknown"}]
    BY DEF TypeOK
  <1>n. ASSUME NEW g \in Procs, NEW place \in EmitPlaces,
               pc[g] \notin EmitPlaces, emitting' = emitting, pc' = [pc EXCEPT ![g] = place]
        PROVE  StatusOnItsWay'
    <2>1. g \in Procs \ emitting' /\ pc'[g] \in EmitPlaces
      BY <1>t, <1>n DEF Turns
    <2> QED BY <2>1 DEF StatusOnItsWay
  <1> DEFINE Kept == /\ pool' = pool /\ claim' = claim /\ activity' = activity /\ height' = height
                     /\ roundOK' = roundOK /\ announced' = announced
                     /\ syncedThrough' = syncedThrough
  <1>k. Kept => Status' = Status
    BY DEF Status, Synced
  <1>s. ASSUME Kept, UNCHANGED emits, \A g \in Procs : pc[g] \in EmitPlaces => pc'[g] \in EmitPlaces
        PROVE  StatusOnItsWay'
    BY <1>s, <1>k DEF StatusOnItsWay, Turns
  <1>1. ASSUME NEW g \in Procs, TakeStatus(g) PROVE StatusOnItsWay'
    <2>1. Status' = Status
      BY <1>1, <1>k DEF TakeStatus
    <2>2. emitting' = {g} /\ snap' = [snap EXCEPT ![g] = Status]
      BY <1>1 DEF TakeStatus
    <2>3. g \in DOMAIN snap
      BY DEF Turns
    <2> QED BY <2>1, <2>2, <2>3 DEF StatusOnItsWay
  <1>2. ASSUME NEW g \in Procs, ShowStatus(g) PROVE StatusOnItsWay'
    <2>1. Status' = Status
      BY <1>2, <1>k DEF ShowStatus
    <2>2. emitting = {g} /\ emitting' = {} /\ shown' = snap[g]
      BY <1>2 DEF ShowStatus, Turns
    <2>3. \A h \in Procs \ emitting : pc'[h] = pc[h]
      BY <1>2, <1>t, <2>2 DEF ShowStatus, Goto
    <2> QED BY <2>1, <2>2, <2>3 DEF StatusOnItsWay
  <1>3. ASSUME NEW p \in Peers, Hear(p) \/ Lose(p) PROVE StatusOnItsWay'
    BY <1>3, <1>s DEF Hear, Lose
  <1>4. ASSUME NEW p \in Peers, Join(p) PROVE StatusOnItsWay'
    BY <1>4, <1>n, Goroutines DEF Join, Goto, EmitPlaces
  <1>5. ASSUME NEW p \in Peers, Leave(p) PROVE StatusOnItsWay'
    BY <1>5, <1>n, Goroutines DEF Leave, Goto, EmitPlaces
  <1>6. ASSUME NEW p \in Peers, ReceiveInv(p) PROVE StatusOnItsWay'
    <2>1. pc[Reader(p)] \notin EmitPlaces
      BY <1>6 DEF ReceiveInv, EmitPlaces
    <2>2. pc' = pc \/ pc' = [pc EXCEPT ![Reader(p)] = "unknown"]
      BY <1>6 DEF ReceiveInv, Goto
    <2>3. \A g \in Procs : pc[g] \in EmitPlaces => pc'[g] \in EmitPlaces
      BY <1>t, <2>1, <2>2
    <2> QED BY <1>6, <2>3, <1>s DEF ReceiveInv
  <1>7. ASSUME NEW p \in Peers, BlockAnnounced(p) PROVE StatusOnItsWay'
    BY <1>7, <1>n, Goroutines DEF BlockAnnounced, Goto, EmitPlaces
  <1>8. ASSUME NEW p \in Peers, BeginRound(p) PROVE StatusOnItsWay'
    BY <1>8, <1>n, Goroutines DEF BeginRound, Goto, EmitPlaces
  <1>9. CASE WaitForPeer
    BY <1>9, <1>s DEF WaitForPeer
  <1>10. CASE SyncHeaders
    BY <1>10, <1>n, Goroutines DEF SyncHeaders, Goto, EmitPlaces
  <1>11. CASE RoundDone \/ PeerGone \/ RoundFails
    <2>1. /\ pc[Loop] \in {"headers", "end"}
          /\ emitting' = emitting
          /\ pc' = [pc EXCEPT ![Loop] = "ended"] \/ pc' = [pc EXCEPT ![Loop] = "failed"]
      BY <1>11 DEF RoundDone, PeerGone, RoundFails, EndRound, Goto
    <2> QED BY <2>1, <1>n, Goroutines DEF EmitPlaces
  <1>12. CASE Woken \/ PollTimer
    <2>1. /\ pc[Loop] = "wait" /\ pc' = [pc EXCEPT ![Loop] = "top"]
          /\ Kept /\ UNCHANGED emits
      BY <1>12 DEF Woken, PollTimer, Goto
    <2>2. \A g \in Procs : pc[g] \in EmitPlaces => pc'[g] \in EmitPlaces
      BY <1>t, <2>1 DEF EmitPlaces
    <2> QED BY <2>1, <2>2, <1>s
  <1>13. CASE UNCHANGED vars
    BY <1>13, <1>s
  <1> QED
    BY <1>1, <1>2, <1>3, <1>4, <1>5, <1>6, <1>7, <1>8, <1>9, <1>10, <1>11, <1>12, <1>13
       DEF Next, Progress, SyncLoop

\* The invariant is inductive, so it always holds.
LEMMA StatusInvariant == Spec => []StatusInv
  <1>1. StatusInv /\ [Next]_vars => StatusInv'
    BY TurnsStep, TypeStep, HeardStep, NewsStep, ShownStep DEF StatusInv
  <1> QED BY <1>1, StatusInit, PTL DEF Spec

(***************************************************************************)
(* The theorems                                                            *)
(***************************************************************************)

\* Every variable of the status keeps its type, for any peers: no
\* announcement counts twice as synced, the height shown is one of the chain,
\* and one goroutine at a time reports.
THEOREM StatusTypes == Spec => []TypeOK
  <1>1. StatusInv => TypeOK
    BY DEF StatusInv
  <1> QED BY <1>1, StatusInvariant, PTL

\* With any peers at any heights, the wallet calls itself synced only with
\* every block the peer of its last round announced and the connected peers
\* claimed: no announcement made during a round is lost (syncLoop,
\* blockAnnounced, syncedLocked).
THEOREM SyncedMeansSynced == Spec => []SyncedIsTrue
  <1>1. StatusInv => SyncedIsTrue
    <2> SUFFICES ASSUME StatusInv, Synced PROVE SyncedIsTrue
      BY DEF SyncedIsTrue
    <2>1. /\ announced \in Nat /\ seen \in 0..announced /\ chain \in Nat /\ height \in 0..chain
          /\ claim \in [Peers -> 0..Tip] /\ pool \subseteq Peers
      BY BoundsAssumption DEF StatusInv, TypeOK
    <2>2. \A p \in pool : claim[p] <= chain
      <3>1. \A p \in pool : claim[p] <= height /\ claim[p] \in Nat
        BY <2>1, BoundsAssumption DEF Synced
      <3> QED BY <2>1, <3>1
    <2>3. ~InRound /\ roundOK /\ announced = syncedThrough
      BY DEF StatusInv, Places, Synced
    <2>4. ~(announced > seen)
      BY <2>1, <2>3 DEF StatusInv, RoundsCount
    <2>5. pc[Reader(primary)] # "unknown" => \A h \in news[primary] : h <= chain
      BY <2>3, <2>4 DEF StatusInv, NewsCounted, Covers
    <2> QED BY <2>2, <2>5 DEF SyncedIsTrue
  <1> QED BY <1>1, StatusInvariant, PTL

\* Once every goroutine reported its change, what is shown is the current
\* status: callbacks arrive "in the order the status changed" (emit).
THEOREM StatusIsCurrent == Spec => []ShownIsCurrent
  <1>1. StatusInv => ShownIsCurrent
    <2> SUFFICES ASSUME StatusInv, \A g \in Procs : pc[g] \notin EmitPlaces PROVE shown = Status
      BY DEF ShownIsCurrent
    <2>1. emitting = {}
      BY DEF StatusInv, Turns
    <2> QED BY <2>1 DEF StatusInv, StatusOnItsWay
  <1> QED BY <1>1, StatusInvariant, PTL

=============================================================================
