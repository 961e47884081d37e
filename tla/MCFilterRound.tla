--------------------------- MODULE MCFilterRound ----------------------------
(* Two honest peers, the first of which may be pinned, and a dishonest one. *)
(* A filter that misses the scripts of spent outputs passes the check       *)
(* against the block, one that misses those of outputs does not.            *)
(* The assumption has TLC compare Keep with the library's SelectSeq.        *)
EXTENDS FilterRound
ASSUME KeepIsSelectSeq ==
  \A n \in 0..3 : \A seq \in [1..n -> 1..3] : \A S \in SUBSET (1..3) :
    Keep(seq, S) = SelectSeq(seq, LAMBDA x : x \in S)

CONSTANTS p, q, liar, noInputs, noOutputs
=============================================================================
