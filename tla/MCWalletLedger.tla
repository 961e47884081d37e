--------------------------- MODULE MCWalletLedger ---------------------------
(* A0 is the wallet's first address; another wallet on the same seed paid    *)
(* change to X, and from there to somebody else, before this one derived it. *)
(* On one chain somebody else pays X too, in a block of its own, and that    *)
(* coin is spent in the next: a block the scan may match for X before the    *)
(* payment is known.                                                         *)
EXTENDS History
CONSTANTS
  A0, X, Elsewhere,
  fund, tx0, tx1, dbl, gift, give,
  f0, x0, y0, d0, g0, e0

MCTxs == {fund, tx0, tx1, dbl, gift, give}
MCOutputs == {f0, x0, y0, d0, g0, e0}
MCCreator == (f0 :> fund) @@ (x0 :> tx0) @@ (y0 :> tx1) @@ (d0 :> dbl)
               @@ (g0 :> gift) @@ (e0 :> give)
MCSpends == (fund :> {}) @@ (tx0 :> {f0}) @@ (tx1 :> {x0}) @@ (dbl :> {f0})
               @@ (gift :> {}) @@ (give :> {g0})

MCValue == (f0 :> 7) @@ (x0 :> 6) @@ (y0 :> 3) @@ (d0 :> 5) @@ (g0 :> 4) @@ (e0 :> 2)

MCAddress == (f0 :> A0) @@ (x0 :> X) @@ (y0 :> Elsewhere) @@ (d0 :> A0)
               @@ (g0 :> X) @@ (e0 :> Elsewhere)
MCBranches == {<<{fund}, {tx0}, {tx1}>>, <<{fund}, {dbl}, {}>>, <<{fund}, {tx0}, {gift}, {give}>>}
=============================================================================
