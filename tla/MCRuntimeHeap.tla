---------------------------- MODULE MCRuntimeHeap ----------------------------
(***************************************************************************)
(* Instances of RuntimeHeap for TLC.                                       *)
(***************************************************************************)
EXTENDS RuntimeHeap, TLC

\* Sound for the runs without a temporal property: threads and addresses of
\* one kind are interchangeable.
Symmetry == Permutations(Threads) \cup Permutations(HeapAddr)

=============================================================================
