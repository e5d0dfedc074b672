------------------------------- MODULE MCView -------------------------------
(* Instances of View for TLC: an owner's folders e and e/d with the file     *)
(* e/d/f; d is shared, and mounted at s by a recipient with a folder t.      *)
EXTENDS View, TLC

CONSTANTS e, d, f, s, x, t

MCParents == e :> {} @@ d :> {e} @@ f :> {e, d} @@ s :> {} @@ x :> {s} @@ t :> {}
MCSource == s :> d
MCNode == [p \in Path |-> CASE p = s -> d [] p = x -> f [] OTHER -> p]

On(kinds, paths) == [kind : kinds, source : paths, target : {t}]
Between(kinds, pairs) == {[kind |-> k, source |-> p[1], target |-> p[2]] : k \in kinds, p \in pairs}

MCOperation ==
    On({"write"}, {e, d, s, x}) \cup On({"unmount"}, {s}) \cup On({"read"}, {d, x})
    \cup On({"openRead", "openWrite"}, {x}) \cup On({"openRead", "stream", "put"}, {f})
    \cup Between({"rename"}, {<<d, t>>, <<x, t>>, <<s, t>>, <<t, f>>, <<f, e>>})
    \cup Between({"copy"}, {<<x, t>>, <<t, f>>, <<e, x>>})

MCSymmetry == Permutations(Request)
=============================================================================
