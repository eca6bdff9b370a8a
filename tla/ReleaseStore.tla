----------------------------- MODULE ReleaseStore -----------------------------
(***************************************************************************)
(* What deploys promise of the releases, without deployers, locks, faults  *)
(* or a fleet: only an available release becomes current, processes start  *)
(* from the current one, and what is collected is neither current, nor the *)
(* one before it, nor in use.                                              *)
(***************************************************************************)
CONSTANT Releases

VARIABLES current,    \* the release new processes run from
          rollback,   \* the one before it, to roll back to
          available,  \* the releases that can be run
          used        \* the releases some process runs from

vars == <<current, rollback, available, used>>

Init ==
  \E r \in Releases :
    /\ current = r /\ rollback = r
    /\ available = {r}
    /\ used = {}

Build(r) ==
  /\ available' = available \cup {r}
  /\ UNCHANGED <<current, rollback, used>>

Flip(r) ==
  /\ r \in available
  /\ current' = r
  /\ rollback' = current
  /\ UNCHANGED <<available, used>>

\* The first process of a release starts, which can only be the current one.
Start ==
  /\ current \in available
  /\ used' = used \cup {current}
  /\ UNCHANGED <<current, rollback, available>>

\* The last process of a release ends.
Stop(r) ==
  /\ used' = used \ {r}
  /\ UNCHANGED <<current, rollback, available>>

Collect(r) ==
  /\ r \notin {current, rollback} \cup used
  /\ available' = available \ {r}
  /\ UNCHANGED <<current, rollback, used>>

Next ==
  \/ Start
  \/ \E r \in Releases : Build(r) \/ Flip(r) \/ Stop(r) \/ Collect(r)

Spec == Init /\ [][Next]_vars
=============================================================================
