----------------------------- MODULE MCChecklist -----------------------------
(* Model-checking instances of Checklist; the values are in the cfg files. *)
EXTENDS Checklist, TLC

CONSTANTS p1, p2, p3, A, B

\* Two servers of one Claude session, and one of another.
Served == p1 :> A @@ p2 :> A @@ p3 :> B

Siblings == Permutations({p1, p2})

\* Evaluations write nothing, so that one at a time shows what any can count.
OneEvaluates == Cardinality({p \in Processes : Is(p, "count")}) <= 1
=============================================================================
