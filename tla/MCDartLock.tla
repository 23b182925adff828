----------------------------- MODULE MCDartLock -----------------------------
(***************************************************************************)
(* Model checking of DartLock, and its refinement of FairLock.             *)
(***************************************************************************)
EXTENDS DartLockQueue, TLC

Symm == Permutations(Units) \cup Permutations(Threads)
=============================================================================
