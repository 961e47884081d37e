-------------------------- MODULE ConfirmedLedger --------------------------
(***************************************************************************)
(* What the sync promises the rest of the wallet, without peers, tables or *)
(* batches: one chain that grows by valid linked headers and is cut at a   *)
(* fork in one step; a set of its blocks that have been searched, each     *)
(* once; and the payments booked from them.  ChainSync implements it.  The *)
(* promise is for as long as it is not broken.                             *)
(***************************************************************************)
EXTENDS Integers

CONSTANTS Blocks, Genesis, None, Parent, Valid, Txs, WalletTxs, MaxHeight

VARIABLES
  view,      \* the chain the wallet follows: height -> block
  top,       \* its height
  searched,  \* the blocks searched for payments: height -> block
  booked,    \* confirmed payments: transaction -> height and block
  broken     \* nothing is promised any more

ledger == <<view, top, searched, booked>>
promise == <<ledger, broken>>

Heights == 0..MaxHeight
Unbooked == [height |-> -1, block |-> None]
At(h) == [height |-> h, block |-> view[h]]
Cut(table, h) == [i \in Heights |-> IF i <= h THEN table[i] ELSE None]

Init ==
  /\ view = [h \in Heights |-> IF h = 0 THEN Genesis ELSE None]
  /\ top = 0
  /\ searched = [h \in Heights |-> None]
  /\ booked = [t \in Txs |-> Unbooked]
  /\ ~broken

\* Valid headers, each linked to the one below, are added above the top.
Grow ==
  /\ top' \in (top + 1)..MaxHeight
  /\ view' = [h \in Heights |-> IF h > top /\ h <= top' THEN view'[h] ELSE view[h]]
  /\ \A h \in (top + 1)..top' : view'[h] \in Valid /\ Parent[view'[h]] = view'[h - 1]
  /\ UNCHANGED <<searched, booked>>

\* The chain is cut above a fork, and with it everything learned from the
\* blocks that left it; what is at or below the fork stays.
Fork ==
  /\ top' \in 0..(top - 1)
  /\ view' = Cut(view, top')
  /\ searched' = Cut(searched, top')
  /\ booked' = [t \in Txs |-> IF booked[t].height <= top' THEN booked[t] ELSE Unbooked]

\* A payment of a block that is not searched yet is booked.
Book(t) ==
  /\ booked[t] = Unbooked
  /\ \E h \in 0..top :
       /\ t \in WalletTxs[view[h]]
       /\ searched[h] = None
       /\ booked' = [booked EXCEPT ![t] = At(h)]
  /\ UNCHANGED <<view, top, searched>>

\* Blocks whose payments are all booked count as searched, each for the
\* first time.
Search ==
  /\ searched' # searched
  /\ \A h \in Heights : searched'[h] # searched[h] =>
       /\ h <= top
       /\ searched[h] = None
       /\ searched'[h] = view[h]
       /\ \A t \in WalletTxs[view[h]] : booked[t] = At(h)
  /\ UNCHANGED <<view, top, booked>>

Keeps == Grow \/ Fork \/ Search \/ \E t \in Txs : Book(t)

\* Whatever happens in and after the step that breaks the promise.
Breaks == broken'

Next == Breaks \/ (Keeps /\ UNCHANGED broken)

Spec == Init /\ [][Next]_promise
============================================================================
