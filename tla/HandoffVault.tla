----------------------------- MODULE HandoffVault -----------------------------
(***************************************************************************)
(* What the guard promises of the handoffs themselves, without processes,  *)
(* temp files, faults or deaths: a slot takes a new handoff only when it   *)
(* is empty, is emptied only into the archive, under a name nothing there  *)
(* has, gets back what was taken from it as a move, and a name is dropped  *)
(* only when enough later ones have been given.                            *)
(***************************************************************************)
EXTENDS Naturals, FiniteSets

CONSTANTS Slots,  \* handoff slots
          Docs,   \* the documents that may be offered
          None,   \* an empty slot
          Names,  \* names in the archive
          After,  \* per name: the names that sort after it
          Keep    \* ARCHIVE_KEEP

VARIABLES shelf,  \* per slot: the handoff in it, or None
          kept,   \* the archive: a function from names to handoffs
          given   \* names that have been in the archive

vars == <<shelf, kept, given>>

\* Every handoff there is.
Known == {shelf[s] : s \in Slots} \cup {kept[n] : n \in DOMAIN kept}

Init ==
  /\ shelf = [s \in Slots |-> None]
  /\ kept = [n \in {} |-> None]
  /\ given = {}

\* A handoff that is nowhere takes an empty slot.
Save(s, d) ==
  /\ shelf[s] = None
  /\ d \notin Known
  /\ shelf' = [shelf EXCEPT ![s] = d]
  /\ UNCHANGED <<kept, given>>

\* The handoff of a slot moves into the archive, under a name that is free.
Retire(s, n) ==
  /\ shelf[s] # None
  /\ n \notin DOMAIN kept
  /\ kept' = [m \in DOMAIN kept \cup {n} |-> IF m = n THEN shelf[s] ELSE kept[m]]
  /\ given' = given \cup {n}
  /\ shelf' = [shelf EXCEPT ![s] = None]

\* The archive without a name.
Without(n) == [m \in DOMAIN kept \ {n} |-> kept[m]]

\* An archived handoff moves back into an empty slot.
PutBack(s, n) ==
  /\ shelf[s] = None
  /\ n \in DOMAIN kept
  /\ shelf' = [shelf EXCEPT ![s] = kept[n]]
  /\ kept' = Without(n)
  /\ UNCHANGED given

\* A name is dropped when at least Keep later ones have been given.
Drop(n) ==
  /\ n \in DOMAIN kept
  /\ Cardinality(given \cap After[n]) >= Keep
  /\ kept' = Without(n)
  /\ UNCHANGED <<shelf, given>>

Next ==
  \/ \E s \in Slots, d \in Docs : Save(s, d)
  \/ \E s \in Slots, n \in Names : Retire(s, n)
  \/ \E s \in Slots, n \in DOMAIN kept : PutBack(s, n)
  \/ \E n \in DOMAIN kept : Drop(n)

Spec == Init /\ [][Next]_vars
=============================================================================
