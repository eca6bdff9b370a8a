---------------------------- MODULE BreakerStates ----------------------------
(***************************************************************************)
(* The transitions the CircuitBreaker class names, without clocks: calls   *)
(* come and go, a streak of failures opens the circuit, a streak of        *)
(* successes closes it again, and recovery is tested only when no call     *)
(* from before is left that could be taken for a probe.                    *)
(***************************************************************************)
EXTENDS Naturals

CONSTANTS Callers, FailureThreshold, SuccessThreshold

VARIABLES state,   \* CLOSED, OPEN or HALF_OPEN
          running, \* the callers whose calls are under way
          streak   \* failures in a row when closed, successes when half open

vars == <<state, running, streak>>

Init == state = "closed" /\ running = {} /\ streak = 0

Moves(s) == state' = s /\ streak' = 0
Stays == UNCHANGED <<state, streak>>

\* The streak grows by one, and at its limit moves the circuit to s.
Counts(limit, s) ==
  IF streak + 1 = limit THEN Moves(s) ELSE state' = state /\ streak' = streak + 1

Starts(c) ==
  /\ c \notin running
  /\ running' = running \cup {c}
  /\ \/ state = "open" /\ running = {} /\ Moves("half_open")
     \/ state # "open" /\ Stays

Leaves(c) == c \in running /\ running' = running \ {c}

Succeeds(c) ==
  /\ Leaves(c)
  /\ \/ state = "half_open" /\ Counts(SuccessThreshold, "closed")
     \/ state = "closed" /\ Moves("closed")
     \/ state = "open" /\ Stays

Fails(c) ==
  /\ Leaves(c)
  /\ \/ state = "closed" /\ Counts(FailureThreshold, "open")
     \/ state # "closed" /\ Moves("open")

Cancelled(c) == Leaves(c) /\ Stays

ForceOpen == Moves("open") /\ UNCHANGED running
Reset == Moves("closed") /\ UNCHANGED running

Next ==
  \/ \E c \in Callers : Starts(c) \/ Succeeds(c) \/ Fails(c) \/ Cancelled(c)
  \/ ForceOpen \/ Reset

Spec == Init /\ [][Next]_vars
=============================================================================
