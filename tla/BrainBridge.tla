----------------------------- MODULE BrainBridge -----------------------------
(***************************************************************************)
(* The resilience core of BrainBridge: concurrent calls with retries       *)
(* behind one circuit breaker, the bounded queue that takes writes while   *)
(* the breaker is open, the background drain that replays them, and the    *)
(* flush at process exit.                                                  *)
(*                                                                         *)
(* Everything runs on one asyncio event loop, so an action is what a task  *)
(* does between two awaits.  A retry's back-off sleep and the attempt that *)
(* follows it are one wait: nothing is read or written between the two.    *)
(***************************************************************************)
EXTENDS BrainBreaker, Sequences, FiniteSets

CONSTANTS
  Saves,     \* memory saves: queued when the breaker is open, start a drain
  Events,    \* KG events (HTTP bridge): queued too, but start no drain
  Calls,     \* every other operation: refused when the breaker is open
  Http,      \* is this the HTTP bridge (else the in-process one)?
  Drains,    \* identities of drain tasks
  None,      \* "no task", "no write"
  Cap,       \* _WRITE_QUEUE_CAP
  Attempts   \* _RETRY_ATTEMPTS

Writes == Saves \cup Events
Requests == Writes \cup Calls

ASSUME BridgeAssumption ==
  /\ Saves \cap Events = {}
  /\ Writes \cap Calls = {}
  /\ Http \in BOOLEAN /\ (~Http => Events = {})
  /\ None \notin Writes \cup Drains
  /\ Drains # {}
  /\ Cap \in Nat \ {0}
  /\ Attempts \in Nat \ {0}

VARIABLES
  br,         \* the breaker (_failures, _open_at)
  queue,      \* _write_queue
  pc,         \* per request: where it is, or how it ended
  attempt,    \* per request: the current iteration of the retry loop
  drainTask,  \* _drain_task
  drain,      \* per drain task: what it is doing
  up,         \* does the brain answer?  (environment)
  life,       \* of the process
  delivered,  \* accepted writes a replay or the exit flush got acknowledged
  lost,       \* accepted writes taken off the queue and given up
  drained     \* the writes drain_blocking counts as drained

callVars == <<pc, attempt>>
drainVars == <<drainTask, drain>>
fateVars == <<delivered, lost, drained>>
vars == <<br, queue, callVars, drainVars, up, life, fateVars>>

Idle == [pc |-> "idle", entry |-> None, attempt |-> 0]
Scheduled == [pc |-> "scheduled", entry |-> None, attempt |-> 0]
Replay(w) == [pc |-> "replaying", entry |-> w, attempt |-> 0]
Replays == [pc : {"replaying"}, entry : Writes, attempt : 0 .. Attempts - 1]

Active(d) == drain[d].pc # "idle"
Replaying == {d \in Drains : drain[d].pc = "replaying"}
InFlight == {drain[d].entry : d \in Replaying}

Init ==
  /\ br = Closed
  /\ queue = <<>>
  /\ pc = [r \in Requests |-> "idle"]
  /\ attempt = [r \in Requests |-> 0]
  /\ drainTask = None
  /\ drain = [d \in Drains |-> Idle]
  /\ up = TRUE
  /\ life = "running"
  /\ delivered = {}
  /\ lost = {}
  /\ drained = {}

-----------------------------------------------------------------------------
(* Requests.  A write is made once; any other call may be made again.      *)

\* The request is over; a retry counter that is not in use is kept at 0.
Return(r, answer) ==
  /\ pc' = [pc EXCEPT ![r] = IF r \in Calls THEN "idle" ELSE answer]
  /\ attempt' = [attempt EXCEPT ![r] = 0]

Starting(r) == life = "running" /\ pc[r] = "idle"

\* The breaker lets the call through: its first attempt is on the way.
Start(r) ==
  /\ Starting(r)
  /\ ~Blocking(br)
  /\ br' = Checked(br)
  /\ pc' = [pc EXCEPT ![r] = "busy"]
  /\ UNCHANGED <<queue, attempt, drainVars, up, life, fateVars>>

\* Mutant: being refused starts the window again.
RefuseRestamps(c) ==
  /\ Starting(c)
  /\ Blocking(br)
  /\ br' = [br EXCEPT !.age = 0]
  /\ UNCHANGED <<queue, callVars, drainVars, up, life, fateVars>>

\* "circuit open" is raised at once and recorded nowhere.
Refuse(c) ==
  /\ Starting(c)
  /\ Blocking(br)
  /\ UNCHANGED vars

\* Mutant: one write too many fits.
EnqueueWriteOverCap(w) ==
  /\ Starting(w)
  /\ Blocking(br)
  /\ IF Len(queue) <= Cap
     THEN /\ queue' = Append(queue, w)
          /\ pc' = [pc EXCEPT ![w] = "queued"]
     ELSE /\ pc' = [pc EXCEPT ![w] = "full"]
          /\ UNCHANGED queue
  /\ UNCHANGED <<br, attempt, drainVars, up, life, fateVars>>

\* A write goes to the offline queue; put_nowait drops it when that is full.
EnqueueWrite(w) ==
  /\ Starting(w)
  /\ Blocking(br)
  /\ IF Len(queue) < Cap
     THEN /\ queue' = Append(queue, w)
          /\ pc' = [pc EXCEPT ![w] = "queued"]
     ELSE /\ pc' = [pc EXCEPT ![w] = "full"]
          /\ UNCHANGED queue
  /\ UNCHANGED <<br, attempt, drainVars, up, life, fateVars>>

\* Mutant: a drain is started without looking for one that is alive.
MaybeStartAnotherDrain(b) ==
  /\ br' = Checked(b)
  /\ IF ~Blocking(b) /\ queue # <<>>
     THEN \E d \in Drains :
            /\ ~Active(d)
            /\ drainTask' = d
            /\ drain' = [drain EXCEPT ![d] = Scheduled]
     ELSE UNCHANGED drainVars

\* Mutant: a finished drain task is taken for one that is alive.
MaybeStartFirstDrain(b) ==
  /\ br' = Checked(b)
  /\ IF ~Blocking(b) /\ queue # <<>> /\ drainTask = None
     THEN \E d \in Drains :
            /\ drainTask' = d
            /\ drain' = [drain EXCEPT ![d] = Scheduled]
     ELSE UNCHANGED drainVars

\* b is the breaker as _maybe_start_drain finds it.
MaybeStartDrain(b) ==
  /\ br' = Checked(b)
  /\ IF /\ ~Blocking(b)
        /\ queue # <<>>
        /\ drainTask = None \/ ~Active(drainTask)
     THEN \E d \in Drains :
            /\ ~Active(d)
            /\ drainTask' = d
            /\ drain' = [drain EXCEPT ![d] = Scheduled]
     ELSE UNCHANGED drainVars

CallSucceeds(r) ==
  /\ pc[r] = "busy"
  /\ up
  /\ Return(r, "ok")
  /\ IF r \in Saves
     THEN MaybeStartDrain(Success(br))
     ELSE br' = Success(br) /\ UNCHANGED drainVars
  /\ UNCHANGED <<queue, up, life, fateVars>>

\* Does a failure that leaves the breaker as b end the retry loop?
GivesUp(b, n) == Blocking(b) \/ n = Attempts - 1

CallFails(r) ==
  LET b == Failure(br) IN
  /\ pc[r] = "busy"
  /\ ~up
  /\ br' = Checked(b)
  /\ IF GivesUp(b, attempt[r])
     THEN Return(r, "error")
     ELSE attempt' = [attempt EXCEPT ![r] = @ + 1] /\ UNCHANGED pc
  /\ UNCHANGED <<queue, drainVars, up, life, fateVars>>

\* The caller's task is cancelled, or the brain's profile gates the tool:
\* neither outcome is retried or recorded.
CallAborted(r) ==
  /\ pc[r] = "busy"
  /\ Return(r, "error")
  /\ UNCHANGED <<br, queue, drainVars, up, life, fateVars>>

-----------------------------------------------------------------------------
(* The drain task.                                                         *)

\* Mutant: the head is read but stays on the queue.
ContinueDrainPeeking(d, b) ==
  /\ br' = IF queue = <<>> THEN b ELSE Checked(b)
  /\ drain' = [drain EXCEPT ![d] = IF queue = <<>> \/ Blocking(b)
                                    THEN Idle ELSE Replay(Head(queue))]
  /\ UNCHANGED queue

\* The loop of _drain_write_queue, from its top to the next await.  b is the
\* breaker as the loop finds it.
ContinueDrain(d, b) ==
  \/ /\ queue = <<>>
     /\ br' = b
     /\ drain' = [drain EXCEPT ![d] = Idle]
     /\ UNCHANGED queue
  \/ /\ queue # <<>>
     /\ Blocking(b)
     /\ br' = b
     /\ drain' = [drain EXCEPT ![d] = Idle]
     /\ UNCHANGED queue
  \/ /\ queue # <<>>
     /\ ~Blocking(b)
     /\ br' = Checked(b)
     /\ drain' = [drain EXCEPT ![d] = Replay(Head(queue))]
     /\ queue' = Tail(queue)

DrainStarts(d) ==
  /\ drain[d].pc = "scheduled"
  /\ drainTask' = d
  /\ ContinueDrain(d, br)
  /\ UNCHANGED <<callVars, up, life, fateVars>>

\* A replayed save ends with _maybe_start_drain, which finds this very task
\* active and only reads the breaker.
ReplaySucceeds(d) ==
  LET w == drain[d].entry
      b == Success(br) IN
  /\ drain[d].pc = "replaying"
  /\ up
  /\ delivered' = delivered \cup {w}
  /\ ContinueDrain(d, IF w \in Saves THEN Checked(b) ELSE b)
  /\ UNCHANGED <<callVars, drainTask, up, life, lost, drained>>

\* Mutant: a write whose replay gave up goes back to the end of the queue and
\* the loop goes on.
ReplayFailsRequeues(d) ==
  LET b == Failure(br) IN
  /\ drain[d].pc = "replaying"
  /\ ~up
  /\ br' = Checked(b)
  /\ IF GivesUp(b, drain[d].attempt)
     THEN /\ queue' = Append(queue, drain[d].entry)
          /\ drain' = [drain EXCEPT ![d] = Scheduled]
     ELSE /\ drain' = [drain EXCEPT ![d].attempt = @ + 1]
          /\ UNCHANGED queue
  /\ UNCHANGED <<callVars, drainTask, up, life, fateVars>>

\* The exception of a replay that gave up is logged; its write is gone.
ReplayFails(d) ==
  LET b == Failure(br) IN
  /\ drain[d].pc = "replaying"
  /\ ~up
  /\ IF GivesUp(b, drain[d].attempt)
     THEN /\ lost' = lost \cup {drain[d].entry}
          /\ ContinueDrain(d, Checked(b))
     ELSE /\ br' = Checked(b)
          /\ drain' = [drain EXCEPT ![d].attempt = @ + 1]
          /\ UNCHANGED <<queue, lost>>
  /\ UNCHANGED <<callVars, drainTask, up, life, delivered, drained>>

\* The brain's profile gates the tool (HTTP only): raised at once, recorded
\* nowhere.
ReplayGated(d) ==
  /\ Http
  /\ drain[d].pc = "replaying"
  /\ up
  /\ lost' = lost \cup {drain[d].entry}
  /\ ContinueDrain(d, br)
  /\ UNCHANGED <<callVars, drainTask, up, life, delivered, drained>>

-----------------------------------------------------------------------------
(* Process exit: the loop's tasks are cancelled, then atexit runs close,   *)
(* which flushes the queue synchronously until its deadline.               *)

Exit ==
  /\ life = "running"
  /\ life' = "exiting"
  /\ pc' = [r \in Requests |-> IF pc[r] # "busy" THEN pc[r]
                               ELSE IF r \in Calls THEN "idle" ELSE "error"]
  /\ attempt' = [r \in Requests |-> 0]
  /\ lost' = lost \cup InFlight
  /\ drain' = [d \in Drains |-> Idle]
  /\ UNCHANGED <<br, queue, drainTask, up, delivered, drained>>

\* In-process, store.save either returns or raises.  The HTTP bridge posts
\* without an Mcp-Session-Id and ignores the status of the reply: a brain that
\* demands a session (every one at or above the version floor) answers 400 and
\* keeps nothing, and the entry is counted all the same.
FlushEntry ==
  /\ life = "exiting"
  /\ queue # <<>>
  /\ queue' = Tail(queue)
  /\ IF up /\ ~Http
     THEN delivered' = delivered \cup {Head(queue)} /\ UNCHANGED lost
     ELSE lost' = lost \cup {Head(queue)} /\ UNCHANGED delivered
  /\ drained' = IF up THEN drained \cup {Head(queue)} ELSE drained
  /\ UNCHANGED <<br, callVars, drainVars, up, life>>

\* The queue is empty, or the deadline has passed and the rest stays on it.
FlushEnds ==
  /\ life = "exiting"
  /\ life' = "exited"
  /\ UNCHANGED <<br, queue, callVars, drainVars, up, fateVars>>

-----------------------------------------------------------------------------
(* The environment, the clock, and the diagnostics that read the breaker.  *)

BrainGoesDownOrUp ==
  /\ up' = ~up
  /\ UNCHANGED <<br, queue, callVars, drainVars, life, fateVars>>

Tick ==
  /\ Blocking(br)
  /\ br' = Older(br)
  /\ UNCHANGED <<queue, callVars, drainVars, up, life, fateVars>>

\* status() reads circuit_open, and so may close the breaker.
Status ==
  /\ life = "running"
  /\ br' = Checked(br)
  /\ UNCHANGED <<queue, callVars, drainVars, up, life, fateVars>>

CallReturns(r) == CallSucceeds(r) \/ CallFails(r) \/ CallAborted(r)
ReplayReturns(d) == ReplaySucceeds(d) \/ ReplayFails(d) \/ ReplayGated(d)

Next ==
  \/ \E r \in Requests : Start(r) \/ CallReturns(r)
  \/ \E c \in Calls : Refuse(c)
  \/ \E w \in Writes : EnqueueWrite(w)
  \/ \E d \in Drains : DrainStarts(d) \/ ReplayReturns(d)
  \/ Exit \/ FlushEntry \/ FlushEnds
  \/ BrainGoesDownOrUp \/ Tick \/ Status

Spec == Init /\ [][Next]_vars

\* Time passes, the event loop runs what is ready, and every await on the
\* brain ends (answer or timeout).  Nobody owes the bridge another request,
\* a status read or an exit.
Fairness ==
  /\ WF_vars(Tick)
  /\ \A r \in Requests : WF_vars(CallReturns(r))
  /\ \A d \in Drains : WF_vars(DrainStarts(d)) /\ WF_vars(ReplayReturns(d))
  /\ WF_vars(FlushEntry) /\ WF_vars(FlushEnds)

FairSpec == Spec /\ Fairness

-----------------------------------------------------------------------------
(* Properties.                                                             *)

\* Every variable has its type; attempts stay below the retry limit and the
\* queue below its cap.
TypeOK ==
  /\ br \in Breakers
  /\ queue \in Seq(Writes) /\ Len(queue) <= Cap
  /\ pc \in [Requests -> {"idle", "busy", "ok", "queued", "full", "error"}]
  /\ attempt \in [Requests -> 0 .. Attempts - 1]
  /\ drainTask \in Drains \cup {None}
  /\ drain \in [Drains -> {Idle, Scheduled} \cup Replays]
  /\ up \in BOOLEAN
  /\ life \in {"running", "exiting", "exited"}
  /\ delivered \subseteq Writes
  /\ lost \subseteq Writes
  /\ drained \subseteq Writes

\* A breaker that is not open is below its threshold, however failures of
\* calls started before, during and after an open window interleave: a
\* closed breaker never opens on fewer than Threshold fresh failures.
BreakerSane == Sane(br)

\* At most one drain task is alive, and it is the one _drain_task names, so
\* replayed writes never race each other.
SingleDrain ==
  \A d \in Drains : Active(d) => drainTask = d

\* An accepted write is in exactly one place: on the queue (once), being
\* replayed, delivered or lost; nothing else ever gets there.
Elems(q) == {q[i] : i \in DOMAIN q}
Distinct(q) == \A i, j \in DOMAIN q : q[i] = q[j] => i = j
Queued == Elems(queue)

AcceptedOnce ==
  /\ Distinct(queue)
  /\ {w \in Writes : pc[w] = "queued"}
       = Queued \cup InFlight \cup delivered \cup lost
  /\ Queued \cap InFlight = {}
  /\ (Queued \cup InFlight) \cap (delivered \cup lost) = {}
  /\ delivered \cap lost = {}

\* Once a save gets through, queued writes are on their way: the queue is
\* empty, the breaker blocks again, or a drain task is alive.
SaveStartsDrain ==
  [][\A s \in Saves :
       pc[s] = "busy" /\ pc'[s] = "ok"
         => queue' = <<>> \/ Blocking(br') \/ \E d \in Drains : Active(d)']_vars

\* The queue the bridge implements: bounded, first in first out, one write
\* in replay at a time, each accepted write settled exactly once.
Offline == INSTANCE OfflineQueue WITH pending <- queue, taken <- InFlight

ImplementsOfflineQueue == Offline!Spec

\* An open breaker stops blocking: refused calls do not prolong the window
\* and the failures of calls already under way can do so only finitely often.
BreakerRecovers == Blocking(br) ~> ~Blocking(br)

\* Why an open breaker recovers: while it blocks no call and no replay gets
\* under way, and what sets its window back ends one that was.  So the window
\* of a dead brain is prolonged at most once for each call under way when it
\* opened, however their retries and failures interleave.
Busy == {r \in Requests : pc[r] = "busy"}

RestampsUseUpCalls ==
  [][Blocking(br) /\ Blocking(br') =>
       /\ Busy' \subseteq Busy
       /\ Replaying' \subseteq Replaying
       /\ Busy' = Busy /\ Replaying' = Replaying => br'.age >= br.age]_vars

\* A drain that has started ends, with the queue empty, the breaker blocking
\* or the process on its way out.
DrainCompletes ==
  \A d \in Drains :
    Active(d) ~> (~Active(d) /\ (queue = <<>> \/ Blocking(br) \/ life # "running"))

\* The class docstring: the offline write queue is "drained asynchronously
\* after circuit resets".  With a brain that answers from some time on, a
\* write that is queued while the breaker does not block gets off the queue.
DrainsAfterReset ==
  <>[]up => ((queue # <<>> /\ ~Blocking(br))
                ~> (queue = <<>> \/ Blocking(br) \/ life # "running"))

\* The changelog and drain_blocking: queued writes "are flushed at process
\* exit", and the count of drained writes is that of the writes saved.
DrainedMeansDelivered == drained \subseteq delivered
=============================================================================
