------------------------------ MODULE Keeping ------------------------------
(***************************************************************************)
(* The elements of a sequence that are in a set, in their order: how the   *)
(* wallet filters its lists of peers and of pending transactions.  It is   *)
(* SelectSeq for a set, told by the places kept rather than by recursion,  *)
(* so that what it keeps can be proved (see KeepingProofs).                *)
(***************************************************************************)
EXTENDS Integers, Sequences, FiniteSets

\* The places of seq that hold an element of S.
PlacesOf(seq, S) == {i \in 1..Len(seq) : seq[i] \in S}

\* How many of the places in I are not after i.
Rank(I, i) == Cardinality({j \in I : j <= i})

\* The k-th of the places in I.
Kth(I, k) == CHOOSE i \in I : Rank(I, i) = k

\* The elements at the places that hold one of S.
Keep(seq, S) ==
  LET at[I \in SUBSET (1..Len(seq))] == [k \in 1..Cardinality(I) |-> seq[Kth(I, k)]]
  IN at[PlacesOf(seq, S)]
============================================================================
