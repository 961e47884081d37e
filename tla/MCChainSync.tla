---------------------------- MODULE MCChainSync ----------------------------
(* Two branches that fork above a1, a stale short one and one with an      *)
(* invalid header.  t1 is in both long branches, at different heights.     *)
EXTENDS ChainSync
CONSTANTS g, a1, a2, a3, a4, b2, b3, b4, x2, t1, t2

MCBlocks == {g, a1, a2, a3, a4, b2, b3, b4, x2}
MCValid == MCBlocks \ {x2}
MCParent == [b \in MCBlocks |->
  CASE b = g -> None [] b = a1 -> g [] b \in {a2, b2, x2} -> a1
    [] b = a3 -> a2 [] b = a4 -> a3 [] b = b3 -> b2 [] b = b4 -> b3]
MCWalletTxs == [b \in MCBlocks |->
  CASE b = a2 -> {t1} [] b = b2 -> {t2} [] b = b3 -> {t1} [] OTHER -> {}]
MCTxs == {t1, t2}
MCBest == <<g, a1, b2, b3, b4>>
MCBranches == {MCBest, <<g, a1, a2, a3, a4>>, <<g, a1, x2>>}

\* Headers before a3 and b3 are older than the seed, a4 too (its miner's clock
\* was behind): with a gap of 1 the filter start is 0 at g, 1 as long as a peer
\* stops at a1, and 2 on a whole branch.
MCOld == {g, a1, a2, b2, a4}
============================================================================
