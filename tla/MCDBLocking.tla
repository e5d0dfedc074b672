---------------------------- MODULE MCDBLocking ----------------------------
(* Model checking of DBLockingProvider: requests of one kind are alike. *)
EXTENDS DBLockingProvider, TLC

MCSymmetry == Permutations(Caching) \cup Permutations(Request \ Caching)
=============================================================================
