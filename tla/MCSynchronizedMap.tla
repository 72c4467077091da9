-------------------------- MODULE MCSynchronizedMap --------------------------
(* Small instances of SynchronizedMap for TLC.                             *)
EXTENDS SynchronizedMap, TLC

\* Threads and keys are interchangeable; used for the invariants only.
Symmetry == Permutations(Threads) \cup Permutations(Keys)
=============================================================================
