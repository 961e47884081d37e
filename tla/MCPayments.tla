----------------------------- MODULE MCPayments ----------------------------
(***************************************************************************)
(* One confirmed coin, which pays the requests.  The first is taproot and  *)
(* takes the amount Max entered, which was by 2 sat/vB and no address yet: *)
(* more than the payment could be by then is possible.  The third's rate   *)
(* makes its fee wrap to a negative number.  IntMax and MaxSats are scaled *)
(* down together.  A payment received later, see the cfg, is larger than   *)
(* the first coin, so the order of coins depends on its confirmation.      *)
(***************************************************************************)
EXTENDS Payments

Seed(n, v) == [id |-> n, inputs |-> {}, value |-> v, addr |-> Receive(0),
               own |-> FALSE, valid |-> TRUE, confirmed |-> TRUE]
MCSeeds == {Seed(1, 1600)}
Request(dest, amount, rate) == [dest |-> dest, amount |-> amount, rate |-> rate]
MCRequests == {Request("p2tr", 0, 1), Request("p2wpkh", 300, 2), Request("p2wpkh", 300, 1000)}
MCMaxEntries == {[dest |-> "blank", rate |-> 2]}
============================================================================
