---------------------------- MODULE MCHandoffGuard ----------------------------
(* Model-checking instances of HandoffGuard; the values are in the cfg files. *)
EXTENDS HandoffGuard, TLC

CONSTANTS p1, p2, s1, s2

\* Each process writes a slot of its own.
OwnSlots == p1 :> {s1} @@ p2 :> {s2}

\* Both write the same slot.
OneSlot == p1 :> {s1} @@ p2 :> {s1}

\* Each slot has a label of its own; s1's sorts first.
OwnLabels == [s \in Slots |-> IF s = s1 THEN 1 ELSE 2]

\* Programs are only compared.
Symmetry == Permutations(Programs)
=============================================================================
