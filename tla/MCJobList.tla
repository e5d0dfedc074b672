----------------------------- MODULE MCJobList -----------------------------
(* Model checking of JobList: the classes of the jobs, by their letters. *)
EXTENDS JobList, TLC

CONSTANTS ClassA, Restricted

MCClassOf == [j \in Job |-> IF j \in ClassA THEN "A" ELSE "B"]
MCJobClasses == [w \in Worker |-> IF w \in Restricted THEN {"A"} ELSE {}]
MCSymmetry == Permutations(Cron)
=============================================================================
