------------------------------ MODULE Payments -----------------------------
(***************************************************************************)
(* The addresses and payments of the user interface (internal/gui/app.go   *)
(* and send.go): the address shown and its rotation, the Send dialog from  *)
(* the coins it lists to the broadcast, the change address it stores and   *)
(* watches, with writes that fail and a process that may end in between.   *)
(*                                                                         *)
(* The user interface runs on one thread, a step at a time; peers and the  *)
(* sync loop change the wallet's transactions under it.  Those are in      *)
(* WalletLedger; here they are the set of known transactions, each with    *)
(* one wallet output at most, from which coins and used addresses follow,  *)
(* and forks that orphan confirmed ones.                                   *)
(***************************************************************************)
EXTENDS SpendPlan

CONSTANTS
  Seeds,       \* transactions known at first, which pay the first address and
               \* lie below every fork
  Requests,    \* what the user enters: dest, amount (0: by Max) and rate
  MaxEntries,  \* destination and rate there are when Max is clicked
  MaxSats,     \* the most an amount may be: 21 million bitcoin
  Received,    \* values received
  MaxTxs,      \* bound: transactions besides the first
  MaxTrouble   \* bound: ends of the process, failed writes, lost connections, forks

ASSUME BoundsAssumption == MaxTxs \in Nat /\ MaxTrouble \in Nat

VARIABLES
  txs,        \* known transactions: tables transactions and pending
  forgotten,  \* payments that expired, and what forks orphaned: peers may have them
  made,       \* number of transactions besides the first
  sent,       \* ids of the payments some peer got
  stored,     \* table addresses
  watched,    \* watched scripts
  nextIndex,  \* meta.nextIndex
  index,      \* gui.index
  shown,      \* the address shown
  dialog,     \* the dialog open
  offered,    \* coins listed in the form
  entered,    \* the amount in the form if the Max button entered it, or 0
  plan,       \* the payment planned last
  step,       \* what the user interface does next
  connected,  \* some peer is connected
  trouble

ledger == <<txs, forgotten, made, sent>>
table == <<stored, nextIndex>>
display == <<index, shown>>
form == <<dialog, offered, entered, plan>>
vars == <<ledger, table, watched, display, form, step, connected, trouble>>

Receive(i) == [kind |-> "receive", index |-> i]
Change(i) == [kind |-> "change", index |-> i]
NoAddress == [kind |-> "none", index |-> 0]

\* The transactions known at first are received ones, and numbered.
ASSUME SeedsAssumption ==
  /\ IsFiniteSet(Seeds)
  /\ \A t \in Seeds :
       t \in [id : 1..Cardinality(Seeds), inputs : SUBSET Nat, value : Nat, addr : {Receive(0)},
             own : {FALSE}, valid : {TRUE}, confirmed : BOOLEAN]
  /\ \A t, u \in Seeds : t.id = u.id => t = u

\* What the form lets pass: parseAmount takes no negative amounts and none
\* above 21 million bitcoin, request any rate from 1 that is an int64.
ASSUME RequestsAssumption ==
  /\ MaxSats \in 0..IntMax
  /\ \A r \in Requests :
       r \in [dest : {"p2wpkh", "p2tr", "p2pkh"}, amount : 0..MaxSats, rate : 1..IntMax]

\* fillMax takes zeros for an address not entered yet, and for a rate that is
\* not one the default of 2.
ASSUME EntriesAssumption ==
  \A e \in MaxEntries : e \in [dest : {"p2wpkh", "p2tr", "p2pkh", "blank"}, rate : 1..IntMax]

ASSUME ReceivedAssumption == Received \subseteq Nat

(***************************************************************************)
(* The wallet state, as loadWalletLocked derives it                        *)
(***************************************************************************)

\* Mutant: pending payments do not count.
IsUsedConfirmed(a) == a \in watched /\ \E t \in txs : t.addr = a /\ t.confirmed

\* IsUsed: a known transaction pays the address, which is watched.
IsUsed(a) == a \in watched /\ \E t \in txs : t.addr = a

\* outpoints, by the transaction of each, and the coins nobody spends.
Outpoints == {t \in txs : t.addr \in watched}
Coins == {[id |-> t.id, value |-> t.value, confirmed |-> t.confirmed] :
            t \in {u \in Outpoints : \A v \in txs : u.id \notin v.inputs}}

\* describeTx.
Relevant(t) ==
  t.addr \in watched \/ \E u \in Outpoints : u.id \in t.inputs

Running == step \notin {"down", "refreshFirst", "start"}

(***************************************************************************)
(* Start                                                                   *)
(***************************************************************************)

NoPlan == [inputs |-> {}, change |-> 0, addr |-> NoAddress, valid |-> TRUE, txid |-> 0]

\* A wallet that was used before: its first address was paid and rotated.
Init ==
  /\ txs = Seeds /\ forgotten = {} /\ made = 0 /\ sent = {}
  /\ stored = {Receive(0)} /\ watched = {}
  /\ nextIndex = 1 /\ index = 0 /\ shown = NoAddress
  /\ dialog = "none" /\ offered = {} /\ entered = 0 /\ plan = NoPlan
  /\ step = "down"
  /\ connected = FALSE
  /\ trouble = 0

\* newGUI reads the index, content shows its address.
Restart ==
  /\ step = "down"
  /\ index' = nextIndex
  /\ shown' = Receive(nextIndex)
  /\ step' = "refreshFirst"
  /\ UNCHANGED <<ledger, table, watched, form, connected, trouble>>

\* startSync: Init watches every stored address.
StartSync ==
  /\ step = "start"
  /\ watched' = stored
  /\ step' = "idle"
  /\ UNCHANGED <<ledger, table, display, form, connected, trouble>>

\* The process ends, a write fails or a connection is lost.
Trouble == trouble < MaxTrouble /\ trouble' = trouble + 1

\* The process ends, by itself or as the window closes.
Crash ==
  /\ step # "down"
  /\ Trouble
  /\ watched' = {} /\ index' = 0 /\ shown' = NoAddress
  /\ dialog' = "none" /\ offered' = {} /\ entered' = 0 /\ plan' = NoPlan
  /\ connected' = FALSE
  /\ step' = "down"
  /\ UNCHANGED <<ledger, table>>

(***************************************************************************)
(* The address shown                                                       *)
(***************************************************************************)

\* rotateIfUsed, called with each status: the next index is saved and its
\* address shown, again while the address shown is used.
RotateIfUsed ==
  /\ step \in {"idle", "rotate"}
  /\ IsUsed(shown)
  /\ index' = index + 1
  /\ \/ /\ nextIndex' = index'
        /\ shown' = Receive(index')
        /\ step' = "refresh"
        /\ UNCHANGED trouble
     \/ /\ Trouble
        /\ step' = "idle"
        /\ UNCHANGED <<nextIndex, shown>>
  /\ UNCHANGED <<ledger, stored, watched, form, connected>>

EndRotate ==
  /\ step = "rotate"
  /\ ~IsUsed(shown)
  /\ step' = "idle"
  /\ UNCHANGED <<ledger, table, watched, display, form, connected, trouble>>

\* Mutant: Watch is left out.
WatchNothing(a) == UNCHANGED watched

\* Watch: once watched, known transactions paying the address count.
Watch(a) == watched' = watched \cup {a}

\* refreshAddress stores the address shown and has it watched, which does
\* nothing before the sync runs.
RefreshAddress ==
  /\ step \in {"refreshFirst", "refresh"}
  /\ \/ /\ stored' = stored \cup {shown}
        /\ IF step = "refresh"
           THEN Watch(shown) /\ step' = "rotate"
           ELSE step' = "start" /\ UNCHANGED watched
        /\ UNCHANGED trouble
     \/ /\ Trouble
        /\ step' = IF step = "refreshFirst" THEN "start" ELSE "idle"
        /\ UNCHANGED <<stored, watched>>
  /\ UNCHANGED <<ledger, nextIndex, display, form, connected>>

(***************************************************************************)
(* The Send dialog                                                         *)
(***************************************************************************)

StoredChange == {a \in stored : a.kind = "change"}

\* Mutant: the first stored address is taken, used or not.
NextChangeAny ==
  IF StoredChange = {} THEN Change(0) ELSE Change(Min({a.index : a \in StoredChange}))

\* nextChange: the first stored change address not used yet, or the next.
NextChange ==
  LET unused == {a.index : a \in {b \in StoredChange : ~IsUsed(b)}}
  IN IF unused = {} THEN Change(Cardinality(StoredChange)) ELSE Change(Min(unused))

\* openSend, newSendForm: the coins are listed as they are now.
OpenSend ==
  /\ step = "idle" /\ dialog = "none"
  /\ dialog' = "form"
  /\ offered' = Coins
  /\ UNCHANGED <<ledger, table, watched, display, entered, plan, step, connected, trouble>>

\* The coins ticked in the list, or all coins of this moment when none is.
Given(chosen) == IF chosen = {} THEN Coins ELSE chosen

\* fillMax: the Max button enters the most the coins can pay by the address and
\* the rate there are, which may be changed before Review.
FillMax ==
  /\ step = "idle" /\ dialog = "form"
  /\ \E e \in MaxEntries, chosen \in SUBSET offered :
       entered' = MaxAmount(Given(chosen), e.dest, e.rate)
  /\ UNCHANGED <<ledger, table, watched, display, dialog, offered, plan, step, connected, trouble>>

\* What request and planSend make of the form.
Amount(r) == IF r.amount = 0 THEN entered ELSE r.amount
PlanSend(r, chosen) ==
  IF Amount(r) > MaxSats THEN NoSpend
  ELSE PlanSpend(Given(chosen), chosen # {}, r.dest, Amount(r), r.rate)

\* The Review button: the plan is shown to be confirmed; an error leaves the
\* form as it is.  An amount typed in replaces the one Max entered.  A payment
\* worth more than its inputs is not valid.
Review ==
  /\ step = "idle" /\ dialog = "form"
  /\ made < MaxTxs
  /\ \E r \in Requests, chosen \in SUBSET offered :
       LET spend == PlanSend(r, chosen)
       IN /\ spend # NoSpend
          /\ plan' = [inputs |-> {c.id : c \in spend.inputs}, change |-> spend.change,
                      addr |-> IF spend.change > 0 THEN NextChange ELSE NoAddress,
                      valid |-> spend.fee >= 0, txid |-> 0]
          /\ entered' = IF r.amount = 0 THEN entered ELSE 0
  /\ dialog' = "confirm"
  /\ UNCHANGED <<ledger, table, watched, display, offered, step, connected, trouble>>

\* The Back button of the confirmation.
Back ==
  /\ step = "idle" /\ dialog = "confirm"
  /\ dialog' = "form"
  /\ plan' = NoPlan
  /\ UNCHANGED <<ledger, table, watched, display, offered, entered, step, connected, trouble>>

\* The Cancel button.
Cancel ==
  /\ step = "idle" /\ dialog = "form"
  /\ dialog' = "none" /\ offered' = {} /\ entered' = 0 /\ plan' = NoPlan
  /\ UNCHANGED <<ledger, table, watched, display, step, connected, trouble>>

\* The payment is confirmed: sendPlanned first stores and watches the change
\* address, if there is change.
Confirm ==
  /\ step = "idle" /\ dialog = "confirm"
  /\ made < MaxTxs
  /\ dialog' = "form"
  /\ step' = IF plan.change = 0 THEN "broadcast"
             ELSE IF plan.addr \in stored THEN "watchChange" ELSE "storeChange"
  /\ UNCHANGED <<ledger, table, watched, display, offered, entered, plan, connected, trouble>>

\* sendPlanned fails: the form stays open below the error.
NotSent ==
  /\ step' = "idle" /\ plan' = NoPlan
  /\ UNCHANGED <<dialog, offered, entered>>

\* AddChangeAddress.
StoreChange ==
  /\ step = "storeChange"
  /\ \/ /\ stored' = stored \cup {plan.addr}
        /\ step' = "watchChange"
        /\ UNCHANGED <<form, trouble>>
     \/ /\ Trouble /\ NotSent
        /\ UNCHANGED stored
  /\ UNCHANGED <<ledger, watched, nextIndex, display, connected>>

WatchChange ==
  /\ step = "watchChange"
  /\ Watch(plan.addr)
  /\ step' = "broadcast"
  /\ UNCHANGED <<ledger, table, display, form, connected, trouble>>

NewId == Cardinality(Seeds) + made + 1

\* SignSpend: the change output is there only when there is change.
Payment ==
  [id |-> NewId, inputs |-> plan.inputs, value |-> plan.change, addr |-> plan.addr,
   own |-> TRUE, confirmed |-> FALSE,
   valid |-> plan.valid /\ \A t \in txs \cup forgotten : t.id \in plan.inputs => t.valid]

\* SignSpend and Broadcast up to the peers: without a peer nothing is done,
\* else the payment is recorded.
Broadcast ==
  /\ step = "broadcast"
  /\ \/ /\ ~connected /\ NotSent
        /\ UNCHANGED <<ledger, trouble>>
     \/ /\ connected /\ Trouble /\ NotSent
        /\ UNCHANGED ledger
     \/ /\ connected
        /\ txs' = txs \cup {Payment}
        /\ made' = made + 1
        /\ plan' = [plan EXCEPT !.txid = NewId]
        /\ step' = "queue"
        /\ UNCHANGED <<forgotten, sent, dialog, offered, entered, trouble>>
  /\ UNCHANGED <<table, watched, display, connected>>

\* Broadcast queues it to the peers it found, which may be gone by now, and
\* the dialog closes.
QueueToPeers ==
  /\ step = "queue"
  /\ \/ sent' = sent \cup {plan.txid}
     \/ ~connected /\ UNCHANGED sent
  /\ dialog' = "none" /\ offered' = {} /\ entered' = 0 /\ plan' = NoPlan
  /\ step' = "idle"
  /\ UNCHANGED <<txs, forgotten, made, table, watched, display, connected, trouble>>

(***************************************************************************)
(* Peers and the sync loop                                                 *)
(***************************************************************************)

\* rebroadcast: the pending transactions spending wallet outputs.
Rebroadcast ==
  {t.id : t \in {u \in txs : ~u.confirmed /\ \E v \in Outpoints : v.id \in u.inputs}}

Connect ==
  /\ Running /\ ~connected
  /\ connected' = TRUE
  /\ sent' = sent \cup Rebroadcast
  /\ UNCHANGED <<txs, forgotten, made, table, watched, display, form, step, trouble>>

Disconnect ==
  /\ Running /\ connected /\ Trouble
  /\ connected' = FALSE
  /\ UNCHANGED <<ledger, table, watched, display, form, step>>

\* A payment is under way, which the bound on transactions has room for.
Paying == step \in {"storeChange", "watchChange", "broadcast"}

\* acceptPendingTx for a transaction of somebody else.
Relayed(inputs, value, addr) ==
  /\ Running /\ connected
  /\ made + (IF Paying THEN 1 ELSE 0) < MaxTxs
  /\ made' = made + 1
  /\ txs' = txs \cup
       {[id |-> NewId, inputs |-> inputs, value |-> value,
         addr |-> addr, own |-> FALSE, valid |-> TRUE, confirmed |-> FALSE]}
  /\ UNCHANGED <<forgotten, sent, table, watched, display, form, step, connected, trouble>>

\* Somebody pays the address shown, which is watched: older ones are used.
ReceivePayment ==
  /\ shown \in watched
  /\ \E v \in Received : Relayed({}, v, shown)

\* Another wallet on the same seed spends a coin and pays an address this
\* one may not have derived yet.
SpendElsewhere ==
  \E c \in Coins, a \in {Receive(index + 1), Change(0)} :
    /\ c.value >= 2 * DustLimit(ChangeScript)
    /\ \E t \in txs : t.id = c.id /\ t.valid
    /\ Relayed({c.id}, c.value - DustLimit(ChangeScript), a)

\* acceptPendingTx for what is forgotten: peers still relay it.
RelayedAgain(t) ==
  /\ Running /\ connected
  /\ t.valid /\ (t.own => t.id \in sent)
  /\ \A u \in txs : u.id # t.id /\ (u.confirmed => u.inputs \cap t.inputs = {})
  /\ Relevant(t)
  /\ txs' = txs \cup {t}
  /\ UNCHANGED <<forgotten, made, sent, table, watched, display, form, step, connected, trouble>>

\* Mutant: the pending transaction stays besides the confirmed one.
SettledTwice(t) ==
  {u \in txs : u.id = t.id \/ u.inputs \cap t.inputs = {}} \cup {[t EXCEPT !.confirmed = TRUE]}

\* The transactions after processBlock: the transaction is confirmed, what it
\* conflicts with is gone.
Settled(t) ==
  {u \in txs : u.id # t.id /\ u.inputs \cap t.inputs = {}} \cup {[t EXCEPT !.confirmed = TRUE]}

\* A block confirms a transaction that peers have.
ConfirmTx(t) ==
  /\ Running
  /\ ~t.confirmed /\ t.valid /\ (t.own => t.id \in sent)
  /\ \A u \in txs : u.id = t.id => ~u.confirmed
  /\ \A i \in t.inputs : \E u \in txs : u.id = i /\ u.confirmed
  /\ \A u \in txs : u.confirmed => u.inputs \cap t.inputs = {}
  /\ Relevant(t)
  /\ txs' = Settled(t)
  /\ UNCHANGED <<forgotten, made, sent, table, watched, display, form, step, connected, trouble>>

\* expirePending: the transactions seen before some moment go.  Those of
\* somebody else are not heard of again.
ExpirePending ==
  /\ Running
  /\ \E t \in txs :
       /\ ~t.confirmed
       /\ forgotten' = forgotten \cup {u \in txs : u.own /\ ~u.confirmed /\ u.id <= t.id}
       /\ txs' = {u \in txs : u.confirmed \/ u.id > t.id}
  /\ UNCHANGED <<made, sent, table, watched, display, form, step, connected, trouble>>

\* rewindTo deletes the transactions of the blocks orphaned, and with one all
\* that spend it.  Peers have them, and blocks of the other branch may.
Rewind ==
  /\ Running /\ Trouble
  /\ \E gone \in (SUBSET {t \in txs : t.confirmed /\ t.id > Cardinality(Seeds)}) \ {{}} :
       /\ \A t \in gone, u \in txs : u.confirmed /\ t.id \in u.inputs => u \in gone
       /\ txs' = txs \ gone
       /\ forgotten' = forgotten \cup {[t EXCEPT !.confirmed = FALSE] : t \in gone}
  /\ UNCHANGED <<made, sent, table, watched, display, form, step, connected>>

Next ==
  \/ Restart \/ StartSync \/ Crash
  \/ RotateIfUsed \/ EndRotate \/ RefreshAddress
  \/ OpenSend \/ FillMax \/ Review \/ Back \/ Cancel
  \/ Confirm \/ StoreChange \/ WatchChange \/ Broadcast \/ QueueToPeers
  \/ Connect \/ Disconnect
  \/ ReceivePayment \/ SpendElsewhere
  \/ \E t \in forgotten : RelayedAgain(t)
  \/ \E t \in txs \cup forgotten : ConfirmTx(t)
  \/ ExpirePending \/ Rewind

\* The user interface goes on with what it began, and each status that was
\* queued to it is shown, whatever the user does meanwhile.
Fairness ==
  /\ WF_vars(StartSync) /\ WF_vars(RefreshAddress)
  /\ SF_vars(RotateIfUsed) /\ WF_vars(EndRotate)
  /\ WF_vars(StoreChange) /\ WF_vars(WatchChange)
  /\ WF_vars(Broadcast) /\ WF_vars(QueueToPeers)

Spec == Init /\ [][Next]_vars /\ Fairness

(***************************************************************************)
(* Properties                                                              *)
(***************************************************************************)

Addresses == [kind : {"receive", "change"}, index : Nat] \cup {NoAddress}
Records == [id : Nat, inputs : SUBSET Nat, value : Nat, addr : Addresses,
            own : BOOLEAN, valid : BOOLEAN, confirmed : BOOLEAN]
CoinRecords == [id : Nat, value : Nat, confirmed : BOOLEAN]
InSets(set, records) == \A x \in set : x \in records

\* Types, and what the parts of the user interface have open together.
TypeOK ==
  /\ InSets(txs, Records) /\ InSets(forgotten, Records)
  /\ \A t, u \in txs : t.id = u.id => t = u
  /\ sent \subseteq 1..(Cardinality(Seeds) + made)
  /\ stored \subseteq Addresses /\ watched \subseteq Addresses
  /\ nextIndex \in Nat /\ index \in Nat /\ shown \in Addresses
  /\ dialog \in {"none", "form", "confirm"}
  /\ InSets(offered, CoinRecords) /\ entered \in Nat
  /\ step \in {"down", "refreshFirst", "start", "idle", "rotate", "refresh",
               "storeChange", "watchChange", "broadcast", "queue"}
  /\ (step \in {"storeChange", "watchChange", "broadcast", "queue"} => dialog = "form")
  /\ connected \in BOOLEAN
  /\ made \in 0..MaxTxs /\ trouble \in 0..MaxTrouble

\* What a set of coins must be worth to pay the amount and the fee.
CanPay(coins, r, amount) ==
  /\ coins # {}
  /\ ValueOf(coins) >= amount + r.rate * EstimateVSize(Cardinality(coins), ToDest(r.dest))
Worth(c, r) == c.value * 4 > r.rate * P2WPKHInputWeight
AllConfirmed(coins) == \A c \in coins : c.confirmed

\* A planned payment adds up, its fee is at least the rate for its size and
\* less than change and dust would cost, its change is no dust; coins ticked
\* are all spent, else no unconfirmed coin is spent where confirmed ones could
\* pay, nor more coins than it takes.
GoodPlan(s, r, amount, coins, useAll) ==
  LET n == Cardinality(s.inputs)
      size == EstimateVSize(n, IF s.change > 0 THEN WithChange(r.dest) ELSE ToDest(r.dest))
  IN /\ s.amount = amount /\ amount >= DustLimit(r.dest)
     /\ ValueOf(s.inputs) = s.amount + s.fee + s.change
     /\ s.change = 0 \/ s.change >= DustLimit(ChangeScript)
     /\ s.fee >= r.rate * size
     /\ s.fee < r.rate * EstimateVSize(n, WithChange(r.dest)) + DustLimit(ChangeScript)
     /\ s.inputs \subseteq coins /\ (useAll => s.inputs = coins)
     /\ ~useAll =>
          \A others \in SUBSET coins :
            CanPay(others, r, amount) /\ AllConfirmed(others)
              => AllConfirmed(s.inputs) /\ n <= Cardinality(others)

\* A payment is refused when it is below the dust limit or above all bitcoin,
\* or when no confirmed coins could pay it, and no coins at all if each is worth
\* more than the fee its input costs.
RightlyRefused(r, amount, coins, useAll) ==
  \/ amount < DustLimit(r.dest) \/ amount > MaxSats
  \/ \A others \in (IF useAll THEN {coins} ELSE SUBSET coins) :
       CanPay(others, r, amount) =>
         ~useAll /\ ~AllConfirmed(others) /\ \E c \in coins : ~Worth(c, r)

\* What Max enters can be paid from the coins at once, with no change from
\* those ticked, and they could not pay a satoshi more.
GoodMax(r, coins, useAll) ==
  LET most == MaxAmount(coins, r.dest, r.rate)
      plans == PlanSpend(coins, useAll, r.dest, most, r.rate)
  IN /\ most > 0 => plans # NoSpend /\ (useAll => plans.change = 0)
     /\ ~CanPay(coins, r, IF most = 0 THEN DustLimit(r.dest) ELSE most + 1)

\* The numbers of a payment fit an int64.  The form has no upper limit to the
\* rate: where they do not, the fee may come out negative and the plan is wrong.
Fits(r, coins) ==
  ValueOf(coins) + MaxSats + EstimateVSize(Cardinality(coins), WithChange(r.dest)) * r.rate <= IntMax

\* At every rate at which the numbers fit an int64, Review plans what the
\* comments of PlanSpend and MaxAmount promise (spend.go:72-76 and 113-114) or
\* refuses it rightly: also when the coins ticked are gone by now, or when the
\* amount was entered by Max for other coins, another address or rate.  What Max
\* enters is right for the coins, the address and the rate of that moment.
PlanSound ==
  dialog = "form" /\ step = "idle" =>
    \A r \in Requests, chosen \in SUBSET offered :
      LET s == PlanSend(r, chosen)
          coins == Given(chosen)
          useAll == chosen # {}
      IN Fits(r, coins) =>
           /\ GoodMax(r, coins, useAll)
           /\ IF s # NoSpend THEN GoodPlan(s, r, Amount(r), coins, useAll)
              ELSE RightlyRefused(r, Amount(r), coins, useAll)

\* No process that ends, write that fails, fork or plan that is out of date
\* loses the change of a payment: its address is in the table from before peers
\* or the table of pending transactions know of the payment, and it is watched.
\* No other payment of ours has the same one, unless one of them expired or was
\* in a block that a fork orphaned: until it is known again, nextChange takes
\* its address for one that received nothing (send.go:57-58).
ChangeStaysOurs ==
  LET payments == {t \in txs \cup forgotten : t.own /\ t.value > 0}
  IN /\ \A t \in payments : t.addr \in stored /\ (Running => t.addr \in watched)
     /\ \A t, u \in payments :
          t.addr = u.addr => t.id = u.id \/ \E f \in forgotten : f.id \in {t.id, u.id}

\* The address shown is again and again one that is watched and not used,
\* while the process runs, whatever is received: unless storing it failed,
\* which the user was told.
FreshAddressShown ==
  []<>(~Running \/ shown \notin stored \/ (shown \in watched /\ ~IsUsed(shown)))
============================================================================
