---------------------------- MODULE OfflineQueue ----------------------------
(***************************************************************************)
(* What the offline write queue of BrainBridge promises, without breakers, *)
(* tasks or retries: a bounded FIFO whose accepted writes are taken from   *)
(* the head, at most one at a time, and settled exactly once.              *)
(***************************************************************************)
EXTENDS Naturals, Sequences

CONSTANTS Writes,   \* the writes that may be offered
          Cap       \* _WRITE_QUEUE_CAP

VARIABLES pending,    \* accepted and not yet taken, oldest first
          taken,      \* the write being replayed: none or one
          delivered,  \* accepted writes the brain acknowledged
          lost        \* accepted writes that were given up

vars == <<pending, taken, delivered, lost>>

Held == {pending[i] : i \in DOMAIN pending} \cup taken \cup delivered \cup lost

Init ==
  /\ pending = <<>>
  /\ taken = {}
  /\ delivered = {}
  /\ lost = {}

Accept(w) ==
  /\ w \notin Held
  /\ Len(pending) < Cap
  /\ pending' = Append(pending, w)
  /\ UNCHANGED <<taken, delivered, lost>>

TakeHead ==
  /\ pending # <<>>
  /\ taken' = {Head(pending)}
  /\ pending' = Tail(pending)

Settle(w) ==
  \/ delivered' = delivered \cup {w} /\ UNCHANGED lost
  \/ lost' = lost \cup {w} /\ UNCHANGED delivered

\* The replay starts.
Take ==
  /\ taken = {}
  /\ TakeHead
  /\ UNCHANGED <<delivered, lost>>

\* The replay ends, and may go straight on to the next write.
Finish ==
  \E w \in Writes :
    /\ taken = {w}
    /\ Settle(w)
    /\ \/ taken' = {} /\ UNCHANGED pending
       \/ TakeHead

\* The shutdown flush settles the head without a replay in progress.
Flush ==
  /\ taken = {}
  /\ pending # <<>>
  /\ Settle(Head(pending))
  /\ pending' = Tail(pending)
  /\ UNCHANGED taken

Next ==
  \/ \E w \in Writes : Accept(w)
  \/ Take
  \/ Finish
  \/ Flush

Spec == Init /\ [][Next]_vars
=============================================================================
