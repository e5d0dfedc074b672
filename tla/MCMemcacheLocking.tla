------------------------- MODULE MCMemcacheLocking -------------------------
(* Model checking of MemcacheLockingProvider: all requests are alike. *)
EXTENDS MemcacheLockingProvider, TLC

MCSymmetry == Permutations(Request)
=============================================================================
