-------------------------- MODULE BrainBridgeProofs --------------------------
(***************************************************************************)
(* Proofs about BrainBridge, for any sets of requests and any cap,         *)
(* threshold, retry limit and reset window.                                *)
(***************************************************************************)
EXTENDS BrainBridge, SequenceTheorems, TLAPS

-----------------------------------------------------------------------------
(* The breaker operators.                                                  *)

\* Every operation of the breaker yields a breaker.
LEMMA BreakerTypes ==
  ASSUME NEW b \in Breakers
  PROVE  /\ Checked(b) \in Breakers
         /\ Success(b) \in Breakers
         /\ Failure(b) \in Breakers
         /\ Blocking(b) => Older(b) \in Breakers
<1>1. Checked(b) \in Breakers
  BY BreakerAssumption DEF Checked, Breakers, Closed, Blocking
<1>2. Success(b) \in Breakers
  BY DEF Success, Breakers
<1>3. Failure(b) \in Breakers
  BY BreakerAssumption DEF Failure, Breakers
<1>4. Blocking(b) => Older(b) \in Breakers
  BY BreakerAssumption DEF Older, Breakers, Blocking
<1> QED BY <1>1, <1>2, <1>3, <1>4

\* Every operation of the breaker keeps it sane: not open means below the
\* threshold.
LEMMA BreakerStaysSane ==
  ASSUME NEW b \in Breakers, Sane(b)
  PROVE  /\ Sane(Checked(b))
         /\ Sane(Success(b))
         /\ Sane(Failure(b))
         /\ Sane(Older(b))
BY BreakerAssumption
   DEF Sane, Checked, Closed, Blocking, Success, Failure, Older, Breakers

-----------------------------------------------------------------------------
(* Sequences without repetition.                                           *)

\* Appending a new element.
LEMMA AppendDistinct ==
  ASSUME NEW S, NEW q \in Seq(S), NEW w \in S
  PROVE  /\ Append(q, w) \in Seq(S)
         /\ Len(Append(q, w)) = Len(q) + 1
         /\ Elems(Append(q, w)) = Elems(q) \cup {w}
         /\ Distinct(q) /\ w \notin Elems(q) => Distinct(Append(q, w))
<1>1. Append(q, w) \in Seq(S) /\ Len(Append(q, w)) = Len(q) + 1
  OBVIOUS
<1>2. DOMAIN Append(q, w) = 1 .. Len(q) + 1 /\ DOMAIN q = 1 .. Len(q)
  OBVIOUS
<1>3. \A i \in 1 .. Len(q) : Append(q, w)[i] = q[i]
  OBVIOUS
<1>4. Append(q, w)[Len(q) + 1] = w
  OBVIOUS
<1>5. Len(q) \in Nat
  OBVIOUS
<1>6. Elems(Append(q, w)) = Elems(q) \cup {w}
  <2>1. \A i \in 1 .. Len(q) + 1 : i \in 1 .. Len(q) \/ i = Len(q) + 1
    BY <1>5
  <2>2. \A i \in 1 .. Len(q) : i \in 1 .. Len(q) + 1
    BY <1>5
  <2>3. Len(q) + 1 \in 1 .. Len(q) + 1
    BY <1>5
  <2> QED BY <1>2, <1>3, <1>4, <2>1, <2>2, <2>3 DEF Elems
<1>7. Distinct(q) /\ w \notin Elems(q) => Distinct(Append(q, w))
  BY <1>2, <1>3, <1>4, <1>5 DEF Distinct, Elems
<1> QED BY <1>1, <1>6, <1>7

\* Taking the head.
LEMMA TailDistinct ==
  ASSUME NEW S, NEW q \in Seq(S), q # <<>>
  PROVE  /\ Head(q) \in S
         /\ Tail(q) \in Seq(S)
         /\ Len(Tail(q)) = Len(q) - 1
         /\ Elems(q) = Elems(Tail(q)) \cup {Head(q)}
         /\ Distinct(q) => Distinct(Tail(q)) /\ Head(q) \notin Elems(Tail(q))
<1>1. /\ Head(q) \in S /\ Tail(q) \in Seq(S) /\ Len(Tail(q)) = Len(q) - 1
      /\ Len(q) \in Nat \ {0} /\ Head(q) = q[1]
  OBVIOUS
<1>2. DOMAIN Tail(q) = 1 .. Len(q) - 1 /\ DOMAIN q = 1 .. Len(q)
  BY <1>1
<1>3. \A i \in 1 .. Len(q) - 1 : Tail(q)[i] = q[i + 1] /\ i + 1 \in 1 .. Len(q)
  BY <1>1
<1>4. \A i \in 1 .. Len(q) : i = 1 \/ (i - 1 \in 1 .. Len(q) - 1 /\ q[i] = Tail(q)[i - 1])
  BY <1>1
<1>5. Elems(q) = Elems(Tail(q)) \cup {Head(q)}
  <2>1. Elems(q) = {q[i] : i \in 1 .. Len(q)}
        /\ Elems(Tail(q)) = {Tail(q)[i] : i \in 1 .. Len(q) - 1}
    BY <1>2 DEF Elems
  <2>2. ASSUME NEW x \in Elems(q) PROVE x \in Elems(Tail(q)) \cup {Head(q)}
    <3>1. PICK i \in 1 .. Len(q) : x = q[i]
      BY <2>1
    <3> QED BY <1>1, <1>4, <2>1, <3>1
  <2>3. ASSUME NEW x \in Elems(Tail(q)) PROVE x \in Elems(q)
    <3>1. PICK i \in 1 .. Len(q) - 1 : x = Tail(q)[i]
      BY <2>1
    <3> QED BY <1>3, <2>1, <3>1
  <2>4. Head(q) \in Elems(q)
    BY <1>1, <2>1
  <2> QED BY <2>2, <2>3, <2>4
<1>6. Distinct(q) => Distinct(Tail(q)) /\ Head(q) \notin Elems(Tail(q))
  <2> SUFFICES ASSUME Distinct(q)
               PROVE  Distinct(Tail(q)) /\ Head(q) \notin Elems(Tail(q))
    OBVIOUS
  <2>1. Distinct(Tail(q))
    BY <1>1, <1>2, <1>3 DEF Distinct
  <2>2. ASSUME NEW i \in DOMAIN Tail(q), Tail(q)[i] = Head(q) PROVE FALSE
    <3>1. q[i + 1] = q[1] /\ i + 1 \in DOMAIN q /\ 1 \in DOMAIN q /\ i + 1 # 1
      BY <1>1, <1>2, <1>3, <2>2
    <3> QED BY <3>1 DEF Distinct
  <2> QED BY <2>1, <2>2 DEF Elems
<1> QED BY <1>1, <1>5, <1>6

-----------------------------------------------------------------------------
(* The invariant.  Types and the breaker come first; the drain task and    *)
(* process exit next; the fate of accepted writes rests on both.           *)

\* After exit begins nothing is in flight any more.
Quiet ==
  life # "running" =>
    /\ \A r \in Requests : pc[r] # "busy"
    /\ \A d \in Drains : ~Active(d)

TaskInv == TypeOK /\ BreakerSane /\ SingleDrain /\ Quiet

IInv == TaskInv /\ AcceptedOnce

\* One turn of the drain loop leaves a well-formed breaker and either ends
\* the task, or takes the head of the queue into replay.
LEMMA ContinueDrainCases ==
  ASSUME TypeOK, NEW d \in Drains, NEW b \in Breakers, Sane(b),
         ContinueDrain(d, b)
  PROVE  /\ br' \in Breakers /\ Sane(br')
         /\ queue' \in Seq(Writes) /\ Len(queue') <= Cap
         /\ \/ drain' = [drain EXCEPT ![d] = Idle] /\ queue' = queue
            \/ /\ queue # <<>>
               /\ Head(queue) \in Writes
               /\ drain' = [drain EXCEPT ![d] = Replay(Head(queue))]
               /\ queue' = Tail(queue)
<1>1. /\ br' = b \/ br' = Checked(b)
  BY DEF ContinueDrain
<1>2. br' \in Breakers /\ Sane(br')
  BY <1>1, BreakerTypes, BreakerStaysSane
<1>3. queue \in Seq(Writes) /\ Len(queue) <= Cap /\ Cap \in Nat
  BY BridgeAssumption DEF TypeOK
<1>4. CASE queue' = queue /\ drain' = [drain EXCEPT ![d] = Idle]
  BY <1>2, <1>3, <1>4
<1>5. CASE /\ queue # <<>>
           /\ drain' = [drain EXCEPT ![d] = Replay(Head(queue))]
           /\ queue' = Tail(queue)
  <2>1. Head(queue) \in Writes /\ Tail(queue) \in Seq(Writes)
        /\ Len(Tail(queue)) = Len(queue) - 1
    BY <1>3, <1>5, TailDistinct
  <2>2. Len(queue) \in Nat
    BY <1>3
  <2>3. Len(queue') <= Cap
    BY <1>3, <1>5, <2>1, <2>2
  <2>4. queue' \in Seq(Writes)
    BY <1>5, <2>1
  <2> QED BY <1>2, <1>5, <2>1, <2>3, <2>4
<1>6. \/ queue' = queue /\ drain' = [drain EXCEPT ![d] = Idle]
      \/ /\ queue # <<>>
         /\ drain' = [drain EXCEPT ![d] = Replay(Head(queue))]
         /\ queue' = Tail(queue)
  BY DEF ContinueDrain
<1> QED BY <1>4, <1>5, <1>6

\* A freshly taken write is a well-formed replay.
LEMMA ReplayType ==
  ASSUME NEW w \in Writes
  PROVE  Replay(w) \in Replays
BY BridgeAssumption DEF Replay, Replays

\* The initial state satisfies the invariant.
LEMMA InitInv == Init => IInv
<1> SUFFICES ASSUME Init PROVE IInv
  OBVIOUS
<1> USE BridgeAssumption, BreakerAssumption
<1>1. TypeOK
  <2>1. br \in Breakers
    BY DEF Init, Breakers, Closed
  <2>2. queue \in Seq(Writes) /\ Len(queue) <= Cap
    BY DEF Init
  <2>3. 0 \in 0 .. Attempts - 1
    OBVIOUS
  <2> QED BY <2>1, <2>2, <2>3 DEF Init, TypeOK
<1>2. BreakerSane
  BY DEF Init, BreakerSane, Sane, Closed
<1>3. SingleDrain /\ Quiet
  BY DEF Init, SingleDrain, Quiet, Active, Idle
<1>4. AcceptedOnce
  <2>1. Queued = {} /\ Distinct(queue)
    BY DEF Init, Queued, Elems, Distinct
  <2>2. InFlight = {}
    BY DEF Init, InFlight, Replaying, Idle
  <2>3. {w \in Writes : pc[w] = "queued"} = {}
    BY DEF Init, Requests
  <2> QED BY <2>1, <2>2, <2>3 DEF Init, AcceptedOnce
<1> QED BY <1>1, <1>2, <1>3, <1>4 DEF IInv, TaskInv

\* The breakers a step can leave behind are well formed.
LEMMA ReachableBreakers ==
  ASSUME TypeOK, BreakerSane
  PROVE  \A b \in {br, Checked(br), Success(br), Checked(Success(br)),
                   Failure(br), Checked(Failure(br))} :
           b \in Breakers /\ Sane(b)
<1>1. br \in Breakers /\ Sane(br)
  BY DEF TypeOK, BreakerSane
<1>2. Success(br) \in Breakers /\ Sane(Success(br))
  BY <1>1, BreakerTypes, BreakerStaysSane
<1>3. Failure(br) \in Breakers /\ Sane(Failure(br))
  BY <1>1, BreakerTypes, BreakerStaysSane
<1>4. \A b \in {br, Success(br), Failure(br)} :
        Checked(b) \in Breakers /\ Sane(Checked(b))
  BY <1>1, <1>2, <1>3, BreakerTypes, BreakerStaysSane
<1> QED BY <1>1, <1>2, <1>3, <1>4

\* One turn of the drain loop, taken by the task _drain_task names, leaves
\* that task the only one that can be alive.
LEMMA ContinueDrainTasks ==
  ASSUME TaskInv, NEW d \in Drains, NEW b \in Breakers, Sane(b),
         Active(d), drainTask' = d, life' = life, pc' = pc,
         ContinueDrain(d, b)
  PROVE  /\ br' \in Breakers /\ Sane(br')
         /\ queue' \in Seq(Writes) /\ Len(queue') <= Cap
         /\ drain' \in [Drains -> {Idle, Scheduled} \cup Replays]
         /\ SingleDrain' /\ Quiet'
<1>1. /\ br' \in Breakers /\ Sane(br')
      /\ queue' \in Seq(Writes) /\ Len(queue') <= Cap
      /\ \/ drain' = [drain EXCEPT ![d] = Idle]
         \/ /\ Head(queue) \in Writes
            /\ drain' = [drain EXCEPT ![d] = Replay(Head(queue))]
  BY ContinueDrainCases DEF TaskInv
<1>2. drain' \in [Drains -> {Idle, Scheduled} \cup Replays]
  BY <1>1, ReplayType DEF TaskInv, TypeOK
<1>3. \A e \in Drains : e # d => drain'[e] = drain[e]
  BY <1>1 DEF TaskInv, TypeOK
<1>4. SingleDrain'
  BY <1>3 DEF TaskInv, SingleDrain, Active
<1>5. Quiet'
  BY DEF TaskInv, Quiet
<1> QED BY <1>1, <1>2, <1>4, <1>5

\* Type correctness, the breaker and the tasks are preserved by every step.
LEMMA TaskStep == TaskInv /\ [Next]_vars => TaskInv'
<1> SUFFICES ASSUME TaskInv, [Next]_vars
             PROVE  TaskInv'
  OBVIOUS
<1> USE BridgeAssumption, BreakerAssumption
<1> USE DEF TaskInv, Active
<1>0. \A b \in {br, Checked(br), Success(br), Checked(Success(br)),
                Failure(br), Checked(Failure(br))} :
        b \in Breakers /\ Sane(b)
  BY ReachableBreakers
<1>1. ASSUME NEW r \in Requests, Start(r)
      PROVE  TaskInv'
  BY <1>0, <1>1 DEF Start, Starting, drainVars, fateVars,
                    TypeOK, BreakerSane, SingleDrain, Quiet
<1>2. ASSUME NEW r \in Requests, CallSucceeds(r)
      PROVE  TaskInv'
  <2>1. life = "running"
    BY <1>2 DEF CallSucceeds, Quiet
  <2>2. br' \in Breakers /\ Sane(br')
    BY <1>0, <1>2 DEF CallSucceeds, MaybeStartDrain
  <2>3. \/ UNCHANGED drainVars
        \/ /\ drainTask = None \/ ~Active(drainTask)
           /\ \E d \in Drains : /\ drainTask' = d
                                /\ drain' = [drain EXCEPT ![d] = Scheduled]
    BY <1>2 DEF CallSucceeds, MaybeStartDrain
  <2>4. drainTask' \in Drains \cup {None}
        /\ drain' \in [Drains -> {Idle, Scheduled} \cup Replays]
    BY <2>3 DEF TypeOK, drainVars
  <2>5. SingleDrain'
    <3>1. CASE UNCHANGED drainVars
      BY <3>1 DEF SingleDrain, drainVars
    <3>2. ASSUME drainTask = None \/ ~Active(drainTask),
                 NEW d \in Drains, drainTask' = d,
                 drain' = [drain EXCEPT ![d] = Scheduled]
          PROVE  SingleDrain'
      <4>1. \A e \in Drains : drain[e].pc = "idle"
        BY <3>2 DEF SingleDrain
      <4>2. \A e \in Drains : e # d => drain'[e] = drain[e]
        BY <3>2 DEF TypeOK
      <4> QED BY <3>2, <4>1, <4>2 DEF SingleDrain
    <3> QED BY <2>3, <3>1, <3>2
  <2>6. pc' \in [Requests -> {"idle", "busy", "ok", "queued", "full", "error"}]
        /\ attempt' \in [Requests -> 0 .. Attempts - 1]
    BY <1>2 DEF CallSucceeds, Return, TypeOK
  <2>7. Quiet'
    BY <1>2, <2>1 DEF CallSucceeds, Quiet
  <2>8. UNCHANGED <<queue, up, life, delivered, lost, drained>>
    BY <1>2 DEF CallSucceeds, fateVars
  <2> QED BY <2>2, <2>4, <2>5, <2>6, <2>7, <2>8 DEF TypeOK, BreakerSane
<1>3. ASSUME NEW r \in Requests, CallFails(r)
      PROVE  TaskInv'
  <2>1. br' \in Breakers /\ Sane(br')
    BY <1>0, <1>3 DEF CallFails
  <2>2. attempt[r] \in 0 .. Attempts - 1
    BY DEF TypeOK
  <2>3. pc' \in [Requests -> {"idle", "busy", "ok", "queued", "full", "error"}]
        /\ attempt' \in [Requests -> 0 .. Attempts - 1]
    <3>1. CASE Return(r, "error")
      BY <3>1 DEF Return, TypeOK
    <3>2. CASE /\ ~GivesUp(Failure(br), attempt[r])
               /\ attempt' = [attempt EXCEPT ![r] = @ + 1]
               /\ pc' = pc
      <4>1. attempt[r] + 1 \in 0 .. Attempts - 1
        BY <2>2, <3>2 DEF GivesUp
      <4> QED BY <3>2, <4>1 DEF TypeOK
    <3> QED BY <1>3, <3>1, <3>2 DEF CallFails
  <2>4. UNCHANGED <<queue, drainTask, drain, up, life, delivered, lost, drained>>
    BY <1>3 DEF CallFails, drainVars, fateVars
  <2>5. Quiet'
    BY <1>3, <2>4 DEF CallFails, Quiet
  <2> QED BY <2>1, <2>3, <2>4, <2>5 DEF TypeOK, BreakerSane, SingleDrain
<1>4. ASSUME NEW r \in Requests, CallAborted(r)
      PROVE  TaskInv'
  BY <1>4 DEF CallAborted, Return, drainVars, fateVars,
              TypeOK, BreakerSane, SingleDrain, Quiet
<1>5. ASSUME NEW c \in Calls, Refuse(c)
      PROVE  TaskInv'
  BY <1>5 DEF Refuse, vars, callVars, drainVars, fateVars,
              TypeOK, BreakerSane, SingleDrain, Quiet
<1>6. ASSUME NEW w \in Writes, EnqueueWrite(w)
      PROVE  TaskInv'
  <2>1. queue' \in Seq(Writes) /\ Len(queue') <= Cap
    <3>1. CASE Len(queue) < Cap /\ queue' = Append(queue, w)
      <4>1. queue \in Seq(Writes) /\ Len(queue) \in Nat
        BY DEF TypeOK
      <4>2. queue' \in Seq(Writes) /\ Len(queue') = Len(queue) + 1
        BY <3>1, <4>1, AppendDistinct
      <4> QED BY <3>1, <4>1, <4>2
    <3>2. CASE queue' = queue
      BY <3>2 DEF TypeOK
    <3> QED BY <1>6, <3>1, <3>2 DEF EnqueueWrite
  <2>2. pc' \in [Requests -> {"idle", "busy", "ok", "queued", "full", "error"}]
    BY <1>6 DEF EnqueueWrite, TypeOK
  <2>3. UNCHANGED <<br, attempt, drainTask, drain, up, life, delivered, lost, drained>>
    BY <1>6 DEF EnqueueWrite, drainVars, fateVars
  <2>4. Quiet'
    BY <1>6, <2>3 DEF EnqueueWrite, Starting, Quiet
  <2> QED BY <2>1, <2>2, <2>3, <2>4 DEF TypeOK, BreakerSane, SingleDrain
<1>7. ASSUME NEW d \in Drains, DrainStarts(d)
      PROVE  TaskInv'
  <2>1. /\ Active(d) /\ ContinueDrain(d, br) /\ drainTask' = d
        /\ UNCHANGED <<pc, attempt, up, life, delivered, lost, drained>>
    BY <1>7 DEF DrainStarts, callVars, fateVars
  <2>2. /\ br' \in Breakers /\ Sane(br')
        /\ queue' \in Seq(Writes) /\ Len(queue') <= Cap
        /\ drain' \in [Drains -> {Idle, Scheduled} \cup Replays]
        /\ SingleDrain' /\ Quiet'
    BY <1>0, <2>1, ContinueDrainTasks
  <2> QED BY <2>1, <2>2 DEF TypeOK, BreakerSane
<1>8. ASSUME NEW d \in Drains, ReplayReturns(d)
      PROVE  TaskInv'
  <2>1. /\ drain[d].pc = "replaying" /\ drainTask' = drainTask
        /\ UNCHANGED <<pc, attempt, up, life>>
    BY <1>8 DEF ReplayReturns, ReplaySucceeds, ReplayFails, ReplayGated, callVars
  <2>2. drainTask' = d
    BY <2>1 DEF SingleDrain
  <2>3. drain[d] \in Replays /\ drain[d].entry \in Writes
        /\ drain[d].attempt \in 0 .. Attempts - 1
    BY <2>1 DEF TypeOK, Idle, Scheduled, Replays
  <2>4. delivered' \subseteq Writes /\ lost' \subseteq Writes /\ drained' \subseteq Writes
    BY <1>8, <2>3 DEF ReplayReturns, ReplaySucceeds, ReplayFails, ReplayGated, TypeOK
  <2>5. ASSUME NEW b \in {br, Success(br), Checked(Success(br)), Checked(Failure(br))},
               ContinueDrain(d, b)
        PROVE  TaskInv'
    <3>1. b \in Breakers /\ Sane(b)
      BY <1>0
    <3>2. /\ br' \in Breakers /\ Sane(br')
          /\ queue' \in Seq(Writes) /\ Len(queue') <= Cap
          /\ drain' \in [Drains -> {Idle, Scheduled} \cup Replays]
          /\ SingleDrain' /\ Quiet'
      BY <2>1, <2>2, <2>5, <3>1, ContinueDrainTasks
    <3> QED BY <2>1, <2>2, <2>4, <3>2 DEF TypeOK, BreakerSane
  <2>6. ASSUME /\ ~GivesUp(Failure(br), drain[d].attempt)
               /\ br' = Checked(Failure(br))
               /\ drain' = [drain EXCEPT ![d].attempt = @ + 1]
               /\ queue' = queue
        PROVE  TaskInv'
    <3>1. drain[d].attempt + 1 \in 0 .. Attempts - 1
      BY <2>3, <2>6 DEF GivesUp
    <3>2. drain'[d] \in Replays /\ \A e \in Drains : e # d => drain'[e] = drain[e]
      BY <2>3, <2>6, <3>1 DEF TypeOK, Replays
    <3>3. drain' \in [Drains -> {Idle, Scheduled} \cup Replays]
      BY <2>6, <3>2 DEF TypeOK
    <3>4. SingleDrain'
      BY <2>1, <2>2, <3>2 DEF SingleDrain
    <3>5. Quiet'
      BY <2>1 DEF Quiet
    <3>6. br' \in Breakers /\ Sane(br')
      BY <1>0, <2>6
    <3> QED BY <2>1, <2>4, <2>6, <3>3, <3>4, <3>5, <3>6 DEF TypeOK, BreakerSane
  <2> QED BY <1>8, <2>5, <2>6
          DEF ReplayReturns, ReplaySucceeds, ReplayFails, ReplayGated
<1>9. ASSUME Exit
      PROVE  TaskInv'
  <2>1. InFlight \subseteq Writes
    BY DEF InFlight, Replaying, TypeOK, Idle, Scheduled, Replays
  <2>2. 0 \in 0 .. Attempts - 1
    OBVIOUS
  <2>3. drain' = [d \in Drains |-> Idle] /\ lost' = lost \cup InFlight
        /\ life' = "exiting" /\ attempt' = [r \in Requests |-> 0]
        /\ UNCHANGED <<br, queue, drainTask, up, delivered, drained>>
    BY <1>9 DEF Exit
  <2>4. pc' \in [Requests -> {"idle", "busy", "ok", "queued", "full", "error"}]
        /\ \A r \in Requests : pc'[r] # "busy"
    BY <1>9 DEF Exit, TypeOK
  <2> QED BY <2>1, <2>2, <2>3, <2>4
          DEF TypeOK, BreakerSane, SingleDrain, Quiet, Idle
<1>10. ASSUME FlushEntry
       PROVE  TaskInv'
  <2>1. queue \in Seq(Writes) /\ queue # <<>> /\ Len(queue) <= Cap
    BY <1>10 DEF FlushEntry, TypeOK
  <2>2. Head(queue) \in Writes /\ Tail(queue) \in Seq(Writes)
        /\ Len(Tail(queue)) = Len(queue) - 1 /\ Len(queue) \in Nat
    BY <2>1, TailDistinct
  <2>3. queue' \in Seq(Writes) /\ Len(queue') <= Cap
    BY <1>10, <2>1, <2>2 DEF FlushEntry
  <2>4. delivered' \subseteq Writes /\ lost' \subseteq Writes /\ drained' \subseteq Writes
    BY <1>10, <2>2 DEF FlushEntry, TypeOK
  <2>5. UNCHANGED <<br, pc, attempt, drainTask, drain, up, life>>
    BY <1>10 DEF FlushEntry, callVars, drainVars
  <2> QED BY <2>3, <2>4, <2>5 DEF TypeOK, BreakerSane, SingleDrain, Quiet
<1>11. ASSUME FlushEnds
       PROVE  TaskInv'
  BY <1>11 DEF FlushEnds, callVars, drainVars, fateVars,
               TypeOK, BreakerSane, SingleDrain, Quiet
<1>12. ASSUME BrainGoesDownOrUp
       PROVE  TaskInv'
  BY <1>12 DEF BrainGoesDownOrUp, callVars, drainVars, fateVars,
               TypeOK, BreakerSane, SingleDrain, Quiet
<1>13. ASSUME Tick
       PROVE  TaskInv'
  <2>1. Older(br) \in Breakers /\ Sane(Older(br))
    BY <1>0, <1>13, BreakerTypes, BreakerStaysSane DEF Tick
  <2> QED BY <1>13, <2>1 DEF Tick, callVars, drainVars, fateVars,
               TypeOK, BreakerSane, SingleDrain, Quiet
<1>14. ASSUME Status
       PROVE  TaskInv'
  BY <1>0, <1>14 DEF Status, callVars, drainVars, fateVars,
               TypeOK, BreakerSane, SingleDrain, Quiet
<1>15. ASSUME UNCHANGED vars
       PROVE  TaskInv'
  BY <1>15 DEF vars, callVars, drainVars, fateVars,
               TypeOK, BreakerSane, SingleDrain, Quiet
<1> QED BY <1>1, <1>2, <1>3, <1>4, <1>5, <1>6, <1>7, <1>8, <1>9, <1>10,
           <1>11, <1>12, <1>13, <1>14, <1>15 DEF Next, CallReturns

-----------------------------------------------------------------------------
(* Every step is a step of the offline queue, or leaves it alone.          *)

Accepted == {w \in Writes : pc[w] = "queued"}

QueueStep ==
  \/ /\ UNCHANGED <<queue, delivered, lost>>
     /\ InFlight' = InFlight
     /\ Accepted' = Accepted
  \/ \E w \in Writes :
       Offline!Accept(w) /\ Accepted' = Accepted \cup {w}
  \/ (Offline!Take \/ Offline!Finish \/ Offline!Flush) /\ Accepted' = Accepted

\* The write in flight is the entry of the task that _drain_task names.
LEMMA InFlightIsEntry ==
  ASSUME TaskInv, NEW d \in Drains, drainTask = d
  PROVE  /\ InFlight = IF drain[d].pc = "replaying" THEN {drain[d].entry} ELSE {}
         /\ drain[d].pc = "replaying" => drain[d].entry \in Writes
<1>1. \A e \in Drains : drain[e].pc = "replaying" => e = d
  BY DEF TaskInv, SingleDrain, Active
<1>2. drain[d].pc = "replaying" => drain[d].entry \in Writes
  BY DEF TaskInv, TypeOK, Idle, Scheduled, Replays
<1> QED BY <1>1, <1>2 DEF InFlight, Replaying

\* With no task alive nothing is in flight.
LEMMA NothingInFlight ==
  ASSUME \A d \in Drains : ~Active(d)
  PROVE  InFlight = {}
BY DEF InFlight, Replaying, Active

\* One turn of the drain loop: afterwards nothing is in flight and the queue
\* is as it was, or the head of the queue is in flight.
LEMMA ContinueDrainQueue ==
  ASSUME TaskInv, NEW d \in Drains, NEW b, ContinueDrain(d, b),
         Active(d), drainTask' = d
  PROVE  \/ InFlight' = {} /\ queue' = queue
         \/ queue # <<>> /\ InFlight' = {Head(queue)} /\ queue' = Tail(queue)
<1>1. \A e \in Drains : e # d => ~Active(e)
  BY DEF TaskInv, SingleDrain
<1>2. CASE queue' = queue /\ drain' = [drain EXCEPT ![d] = Idle]
  <2>1. \A e \in Drains : drain'[e].pc = "idle"
    BY <1>1, <1>2 DEF TaskInv, TypeOK, Active, Idle
  <2> QED BY <1>2, <2>1 DEF InFlight, Replaying
<1>3. CASE /\ queue # <<>>
           /\ drain' = [drain EXCEPT ![d] = Replay(Head(queue))]
           /\ queue' = Tail(queue)
  <2>1. drain'[d] = Replay(Head(queue))
        /\ \A e \in Drains : e # d => drain'[e].pc = "idle"
    BY <1>1, <1>3 DEF TaskInv, TypeOK, Active
  <2>2. Replaying' = {d}
    BY <2>1 DEF Replaying, Replay
  <2> QED BY <1>3, <2>1, <2>2 DEF InFlight, Replay
<1> QED BY <1>2, <1>3 DEF ContinueDrain

\* Every step of the bridge is a step of the offline queue or a stutter.
LEMMA StepIsQueueStep ==
  IInv /\ [Next]_vars => QueueStep
<1> SUFFICES ASSUME IInv, [Next]_vars
             PROVE  QueueStep
  OBVIOUS
<1> USE BridgeAssumption
<1>0. TaskInv
  BY DEF IInv
<1>1. ASSUME NEW r \in Requests, Start(r) \/ CallReturns(r)
      PROVE  QueueStep
  <2>1. UNCHANGED <<queue, delivered, lost>>
    BY <1>1 DEF Start, CallReturns, CallSucceeds, CallFails, CallAborted, fateVars
  <2>2. \A q \in Requests : (pc'[q] = "queued") <=> (pc[q] = "queued")
    BY <1>0, <1>1 DEF TaskInv, TypeOK, Start, Starting, CallReturns,
                      CallSucceeds, CallFails, CallAborted, Return
  <2>3. Accepted' = Accepted
    BY <2>2 DEF Accepted, Requests
  <2>4. InFlight' = InFlight
    <3>1. CASE UNCHANGED drain
      BY <3>1 DEF InFlight, Replaying
    <3>2. ASSUME NEW d \in Drains, ~Active(d),
                 drain' = [drain EXCEPT ![d] = Scheduled]
          PROVE  InFlight' = InFlight
      <4>1. Replaying' = Replaying
            /\ \A e \in Replaying : drain'[e] = drain[e]
        BY <1>0, <3>2 DEF Replaying, Active, TaskInv, TypeOK, Scheduled
      <4> QED BY <4>1 DEF InFlight
    <3> QED BY <1>1, <3>1, <3>2
            DEF Start, CallReturns, CallSucceeds, CallFails, CallAborted,
                MaybeStartDrain, drainVars
  <2> QED BY <2>1, <2>3, <2>4 DEF QueueStep
<1>2. ASSUME NEW w \in Writes, EnqueueWrite(w)
      PROVE  QueueStep
  <2>1. InFlight' = InFlight /\ UNCHANGED <<delivered, lost>>
    BY <1>2 DEF EnqueueWrite, drainVars, fateVars, InFlight, Replaying
  <2>2. w \in Requests /\ pc[w] = "idle"
    BY <1>2 DEF EnqueueWrite, Starting, Requests
  <2>3. CASE Len(queue) < Cap
    <3>1. queue' = Append(queue, w) /\ pc' = [pc EXCEPT ![w] = "queued"]
      BY <1>2, <2>3 DEF EnqueueWrite
    <3>2. Accepted' = Accepted \cup {w}
      BY <1>0, <2>2, <3>1 DEF Accepted, TaskInv, TypeOK, Requests
    <3>3. w \notin Queued \cup InFlight \cup delivered \cup lost
      BY <2>2 DEF IInv, AcceptedOnce
    <3> QED BY <2>1, <2>3, <3>1, <3>2, <3>3
            DEF QueueStep, Offline!Accept, Offline!Held, Queued, Elems
  <2>4. CASE ~(Len(queue) < Cap)
    <3>1. queue' = queue /\ pc' = [pc EXCEPT ![w] = "full"]
      BY <1>2, <2>4 DEF EnqueueWrite
    <3>2. Accepted' = Accepted
      BY <1>0, <2>2, <3>1 DEF Accepted, TaskInv, TypeOK, Requests
    <3> QED BY <2>1, <3>1, <3>2 DEF QueueStep
  <2> QED BY <2>3, <2>4
<1>3. ASSUME NEW d \in Drains, DrainStarts(d)
      PROVE  QueueStep
  <2>1. /\ drain[d].pc = "scheduled" /\ Active(d) /\ drainTask' = d
        /\ ContinueDrain(d, br) /\ UNCHANGED <<delivered, lost>>
        /\ Accepted' = Accepted
    BY <1>3 DEF DrainStarts, callVars, fateVars, Active, Accepted
  <2>2. drainTask = d
    BY <1>0, <2>1 DEF TaskInv, SingleDrain
  <2>3. InFlight = {}
    BY <1>0, <2>1, <2>2, InFlightIsEntry
  <2>4. \/ InFlight' = {} /\ queue' = queue
        \/ queue # <<>> /\ InFlight' = {Head(queue)} /\ queue' = Tail(queue)
    BY <1>0, <2>1, ContinueDrainQueue
  <2> QED BY <2>1, <2>3, <2>4 DEF QueueStep, Offline!Take, Offline!TakeHead
<1>4. ASSUME NEW d \in Drains, ReplayReturns(d)
      PROVE  QueueStep
  <2>1. /\ drain[d].pc = "replaying" /\ Active(d) /\ drainTask' = drainTask
        /\ Accepted' = Accepted
    BY <1>4 DEF ReplayReturns, ReplaySucceeds, ReplayFails, ReplayGated,
                callVars, Active, Accepted
  <2>2. drainTask = d /\ drainTask' = d
    BY <1>0, <2>1 DEF TaskInv, SingleDrain
  <2>3. InFlight = {drain[d].entry} /\ drain[d].entry \in Writes
    BY <1>0, <2>1, <2>2, InFlightIsEntry
  <2>4. ASSUME NEW b, ContinueDrain(d, b), Offline!Settle(drain[d].entry)
        PROVE  QueueStep
    <3>1. \/ InFlight' = {} /\ queue' = queue
          \/ queue # <<>> /\ InFlight' = {Head(queue)} /\ queue' = Tail(queue)
      BY <1>0, <2>1, <2>2, <2>4, ContinueDrainQueue
    <3> QED BY <2>1, <2>3, <2>4, <3>1
            DEF QueueStep, Offline!Finish, Offline!TakeHead
  <2>5. CASE /\ drain' = [drain EXCEPT ![d].attempt = @ + 1]
             /\ UNCHANGED <<queue, delivered, lost>>
    <3>1. /\ drain'[d].pc = drain[d].pc /\ drain'[d].entry = drain[d].entry
          /\ \A e \in Drains : e # d => drain'[e] = drain[e]
      BY <1>0, <2>1, <2>5 DEF TaskInv, TypeOK, Idle, Scheduled, Replays
    <3>2. Replaying' = Replaying /\ \A e \in Replaying : drain'[e].entry = drain[e].entry
      BY <3>1 DEF Replaying
    <3>3. InFlight' = InFlight
      BY <3>2 DEF InFlight
    <3> QED BY <2>1, <2>5, <3>3 DEF QueueStep
  <2> QED BY <1>4, <2>4, <2>5
          DEF ReplayReturns, ReplaySucceeds, ReplayFails, ReplayGated, Offline!Settle
<1>5. ASSUME Exit
      PROVE  QueueStep
  <2>1. /\ lost' = lost \cup InFlight /\ UNCHANGED <<queue, delivered>>
        /\ drain' = [d \in Drains |-> Idle]
    BY <1>5 DEF Exit
  <2>2. InFlight' = {}
    BY <2>1 DEF InFlight, Replaying, Idle
  <2>3. \A w \in Writes : (pc'[w] = "queued") <=> (pc[w] = "queued")
    BY <1>5 DEF Exit, Requests
  <2>4. Accepted' = Accepted
    BY <2>3 DEF Accepted
  <2>5. CASE InFlight = {}
    BY <2>1, <2>2, <2>4, <2>5 DEF QueueStep
  <2>6. CASE InFlight # {}
    <3>1. PICK d \in Drains : drain[d].pc = "replaying"
      BY <2>6 DEF InFlight, Replaying
    <3>2. drainTask = d
      BY <1>0, <3>1 DEF TaskInv, SingleDrain, Active
    <3>3. InFlight = {drain[d].entry} /\ drain[d].entry \in Writes
      BY <1>0, <3>1, <3>2, InFlightIsEntry
    <3> QED BY <2>1, <2>2, <2>4, <3>3 DEF QueueStep, Offline!Finish, Offline!Settle
  <2> QED BY <2>5, <2>6
<1>6. ASSUME FlushEntry
      PROVE  QueueStep
  <2>1. \A d \in Drains : ~Active(d)
    BY <1>0, <1>6 DEF FlushEntry, TaskInv, Quiet
  <2>2. InFlight = {} /\ InFlight' = InFlight
    BY <1>6, <2>1, NothingInFlight DEF FlushEntry, drainVars, InFlight, Replaying
  <2>3. Accepted' = Accepted
    BY <1>6 DEF FlushEntry, callVars, Accepted
  <2> QED BY <1>6, <2>2, <2>3 DEF FlushEntry, QueueStep, Offline!Flush, Offline!Settle
<1>7. ASSUME FlushEnds \/ BrainGoesDownOrUp \/ Tick \/ Status \/ UNCHANGED vars
      PROVE  QueueStep
  <2>1. UNCHANGED <<queue, pc, drain, delivered, lost>>
    BY <1>7 DEF FlushEnds, BrainGoesDownOrUp, Tick, Status,
                vars, callVars, drainVars, fateVars
  <2> QED BY <2>1 DEF QueueStep, Accepted, InFlight, Replaying
<1>8. ASSUME NEW c \in Calls, Refuse(c)
      PROVE  QueueStep
  BY <1>7, <1>8 DEF Refuse
<1> QED BY <1>1, <1>2, <1>3, <1>4, <1>5, <1>6, <1>7, <1>8 DEF Next

\* A step of the offline queue keeps every accepted write in exactly one place.
LEMMA QueueStepKeepsAccepted ==
  ASSUME TypeOK, AcceptedOnce, QueueStep
  PROVE  AcceptedOnce'
<1>1. queue \in Seq(Writes)
  BY DEF TypeOK
<1> DEFINE Placed(q, fl, dl, ls, ac) ==
             /\ Distinct(q)
             /\ ac = Elems(q) \cup fl \cup dl \cup ls
             /\ Elems(q) \cap fl = {}
             /\ (Elems(q) \cup fl) \cap (dl \cup ls) = {}
             /\ dl \cap ls = {}
<1>2. Placed(queue, InFlight, delivered, lost, Accepted)
  BY DEF AcceptedOnce, Accepted, Queued
<1>3. SUFFICES Placed(queue', InFlight', delivered', lost', Accepted')
  BY DEF AcceptedOnce, Accepted, Queued
<1>4. CASE /\ UNCHANGED <<queue, delivered, lost>>
           /\ InFlight' = InFlight
           /\ Accepted' = Accepted
  BY <1>2, <1>4
<1>5. ASSUME NEW w \in Writes, Offline!Accept(w), Accepted' = Accepted \cup {w}
      PROVE  Placed(queue', InFlight', delivered', lost', Accepted')
  <2>1. w \notin Elems(queue) \cup InFlight \cup delivered \cup lost
    BY <1>5 DEF Offline!Accept, Offline!Held, Elems
  <2>2. queue' = Append(queue, w) /\ InFlight' = InFlight
        /\ UNCHANGED <<delivered, lost>>
    BY <1>5 DEF Offline!Accept
  <2>3. Elems(queue') = Elems(queue) \cup {w} /\ Distinct(queue')
    BY <1>1, <1>2, <2>1, <2>2, AppendDistinct
  <2> QED BY <1>2, <1>5, <2>1, <2>2, <2>3
<1>6. ASSUME queue # <<>>
      PROVE  /\ Elems(queue) = Elems(Tail(queue)) \cup {Head(queue)}
             /\ Distinct(Tail(queue)) /\ Head(queue) \notin Elems(Tail(queue))
  BY <1>1, <1>2, <1>6, TailDistinct
<1>7. ASSUME Offline!Take, Accepted' = Accepted
      PROVE  Placed(queue', InFlight', delivered', lost', Accepted')
  <2>1. /\ queue # <<>> /\ InFlight = {} /\ InFlight' = {Head(queue)}
        /\ queue' = Tail(queue) /\ UNCHANGED <<delivered, lost>>
    BY <1>7 DEF Offline!Take, Offline!TakeHead
  <2> QED BY <1>2, <1>6, <1>7, <2>1
<1>8. ASSUME Offline!Finish, Accepted' = Accepted
      PROVE  Placed(queue', InFlight', delivered', lost', Accepted')
  <2>1. PICK w \in Writes :
          /\ InFlight = {w}
          /\ Offline!Settle(w)
          /\ \/ InFlight' = {} /\ queue' = queue
             \/ Offline!TakeHead
    BY <1>8 DEF Offline!Finish
  <2>2. \/ delivered' = delivered \cup {w} /\ lost' = lost
        \/ lost' = lost \cup {w} /\ delivered' = delivered
    BY <2>1 DEF Offline!Settle
  <2>3. CASE InFlight' = {} /\ queue' = queue
    BY <1>2, <1>8, <2>1, <2>2, <2>3
  <2>4. CASE Offline!TakeHead
    <3>1. /\ queue # <<>> /\ InFlight' = {Head(queue)} /\ queue' = Tail(queue)
      BY <2>4 DEF Offline!TakeHead
    <3> HIDE DEF Placed
    <3>2. Placed(Tail(queue), {Head(queue)}, delivered', lost', Accepted)
      BY <1>2, <1>6, <2>1, <2>2, <3>1 DEF Placed
    <3> QED BY <1>8, <3>1, <3>2
  <2> QED BY <2>1, <2>3, <2>4
<1>9. ASSUME Offline!Flush, Accepted' = Accepted
      PROVE  Placed(queue', InFlight', delivered', lost', Accepted')
  <2>1. /\ queue # <<>> /\ InFlight = {} /\ InFlight' = {}
        /\ queue' = Tail(queue)
        /\ \/ delivered' = delivered \cup {Head(queue)} /\ lost' = lost
           \/ lost' = lost \cup {Head(queue)} /\ delivered' = delivered
    BY <1>9 DEF Offline!Flush, Offline!Settle
  <2> QED BY <1>2, <1>6, <1>9, <2>1
<1> QED BY <1>4, <1>5, <1>7, <1>8, <1>9 DEF QueueStep

-----------------------------------------------------------------------------
(* Theorems.                                                               *)

\* The invariant holds of every behaviour: it is the strengthening from
\* which the theorems below follow.
THEOREM Invariance == Spec => []IInv
<1>1. Init => IInv
  BY InitInv
<1>2. IInv /\ [Next]_vars => IInv'
  <2> SUFFICES ASSUME IInv, [Next]_vars PROVE IInv'
    OBVIOUS
  <2>1. TaskInv'
    BY TaskStep DEF IInv
  <2>2. QueueStep
    BY StepIsQueueStep
  <2>3. AcceptedOnce'
    BY <2>2, QueueStepKeepsAccepted DEF IInv, TaskInv
  <2> QED BY <2>1, <2>3 DEF IInv
<1> QED BY <1>1, <1>2, PTL DEF Spec

\* Every variable has its type, the queue stays below its cap and every retry
\* loop below its limit, for any number of concurrent requests.
THEOREM TypeCorrect == Spec => []TypeOK
<1>1. IInv => TypeOK
  BY DEF IInv, TaskInv
<1> QED BY <1>1, Invariance, PTL

\* A breaker that is not open is below its threshold, so a closed breaker
\* opens only on Threshold failures since it closed or last succeeded.
THEOREM BreakerIsSane == Spec => []BreakerSane
<1>1. IInv => BreakerSane
  BY DEF IInv, TaskInv
<1> QED BY <1>1, Invariance, PTL

\* There is never a second drain task to race the one _drain_task names.
THEOREM DrainIsSingle == Spec => []SingleDrain
<1>1. IInv => SingleDrain
  BY DEF IInv, TaskInv
<1> QED BY <1>1, Invariance, PTL

\* An accepted write is in one place only: queued once, in replay, delivered
\* or lost.
THEOREM AcceptedIsOnce == Spec => []AcceptedOnce
<1>1. IInv => AcceptedOnce
  BY DEF IInv
<1> QED BY <1>1, Invariance, PTL

\* The bridge's queue, with its breaker, retries, drain tasks and exit flush,
\* implements the abstract bounded FIFO that settles each write once.
THEOREM BridgeImplementsOfflineQueue == Spec => ImplementsOfflineQueue
<1>1. Init => Offline!Init
  BY DEF Init, Offline!Init, InFlight, Replaying, Idle
<1>2. IInv /\ [Next]_vars => [Offline!Next]_(Offline!vars)
  <2> SUFFICES ASSUME IInv, [Next]_vars PROVE [Offline!Next]_(Offline!vars)
    OBVIOUS
  <2>1. QueueStep
    BY StepIsQueueStep
  <2> QED BY <2>1 DEF QueueStep, Offline!Next, Offline!vars
<1> QED BY <1>1, <1>2, Invariance, PTL DEF Spec, ImplementsOfflineQueue, Offline!Spec

\* A save that gets through leaves no queued write waiting for somebody else
\* to start the drain, whatever outages and drains came before it.
THEOREM SavesStartDrains == Spec => SaveStartsDrain
<1>1. ASSUME IInv, [Next]_vars, NEW s \in Saves,
             pc[s] = "busy", pc'[s] = "ok"
      PROVE  queue' = <<>> \/ Blocking(br') \/ \E d \in Drains : Active(d)'
  <2>1. s \in Requests /\ pc \in [Requests -> {"idle", "busy", "ok", "queued", "full", "error"}]
    BY <1>1 DEF IInv, TaskInv, TypeOK, Requests, Writes
  <2>2. CallSucceeds(s)
    BY <1>1, <2>1 DEF Next, vars, callVars, Start, CallReturns, CallSucceeds, CallFails,
       CallAborted, Return, Refuse, EnqueueWrite, DrainStarts, ReplayReturns,
       ReplaySucceeds, ReplayFails, ReplayGated, Exit, FlushEntry, FlushEnds,
       BrainGoesDownOrUp, Tick, Status
  <2>3. MaybeStartDrain(Success(br)) /\ queue' = queue
    BY <1>1, <2>2 DEF CallSucceeds
  <2>4. CASE Blocking(Success(br))
    BY <2>3, <2>4 DEF MaybeStartDrain, Checked
  <2>5. CASE queue = <<>>
    BY <2>3, <2>5
  <2>6. CASE drainTask # None /\ Active(drainTask) /\ UNCHANGED drainVars
    <3>1. drainTask \in Drains
      BY <1>1, <2>6 DEF IInv, TaskInv, TypeOK
    <3> QED BY <2>6, <3>1 DEF drainVars, Active
  <2>7. ASSUME NEW d \in Drains, drain' = [drain EXCEPT ![d] = Scheduled]
        PROVE  Active(d)'
    BY <1>1, <2>7 DEF IInv, TaskInv, TypeOK, Active, Scheduled
  <2> QED BY <2>3, <2>4, <2>5, <2>6, <2>7 DEF MaybeStartDrain
<1>2. IInv /\ [Next]_vars =>
        [\A s \in Saves :
           pc[s] = "busy" /\ pc'[s] = "ok"
             => queue' = <<>> \/ Blocking(br') \/ \E d \in Drains : Active(d)']_vars
  BY <1>1
<1> QED BY <1>2, Invariance, PTL DEF Spec, SaveStartsDrain

\* While the breaker blocks, a failed call and a failed replay are given up,
\* and nothing starts: each setback of the window uses up a call, for any
\* number of calls under way, threshold, retry limit and reset window.
THEOREM RestampsAreBounded == Spec => RestampsUseUpCalls
<1>1. ASSUME IInv, [Next]_vars, Blocking(br), Blocking(br')
      PROVE  /\ Busy' \subseteq Busy
             /\ Replaying' \subseteq Replaying
             /\ Busy' = Busy /\ Replaying' = Replaying => br'.age >= br.age
  <2> USE <1>1
  <2>0. /\ br \in Breakers
        /\ br.age \in Nat
        /\ pc \in [Requests -> {"idle", "busy", "ok", "queued", "full", "error"}]
        /\ drain \in [Drains -> {Idle, Scheduled} \cup Replays]
    BY BreakerAssumption DEF IInv, TaskInv, TypeOK, Breakers
  <2>1. ASSUME NEW b \in {br, Success(br), Checked(br), Checked(Success(br))}
        PROVE  Blocking(b) /\ Checked(b) = b /\ b.age = br.age
    BY <2>0 DEF Success, Checked, Blocking, Breakers
  <2>2. Blocking(Failure(br)) /\ Checked(Failure(br)) = Failure(br)
    BY <2>0, BreakerAssumption DEF Failure, Checked, Blocking, Breakers
  <2>3. ASSUME NEW d \in Drains, NEW b, Blocking(b), ContinueDrain(d, b)
        PROVE  br' = b /\ drain' = [drain EXCEPT ![d] = Idle]
    BY <2>3 DEF ContinueDrain
  <2>4. ASSUME NEW d \in Drains, drain' = [drain EXCEPT ![d] = Idle]
        PROVE  /\ Replaying' \subseteq Replaying
               /\ drain[d].pc = "replaying" => Replaying' # Replaying
    BY <2>0, <2>4 DEF Replaying, Idle
  <2>5. ASSUME NEW r \in Requests, CallReturns(r)
        PROVE  Busy' \subseteq Busy /\ Busy' # Busy /\ UNCHANGED drain
    <3>1. pc[r] = "busy" /\ \E answer \in {"ok", "error"} : Return(r, answer)
      BY <2>2, <2>5 DEF CallReturns, CallSucceeds, CallFails, CallAborted, GivesUp
    <3>2. pc'[r] # "busy" /\ \A q \in Requests : q # r => pc'[q] = pc[q]
      BY <2>0, <3>1 DEF Return
    <3>3. UNCHANGED drain
      BY <2>1, <2>5 DEF CallReturns, CallSucceeds, CallFails, CallAborted,
                        MaybeStartDrain, drainVars
    <3> QED BY <3>1, <3>2, <3>3 DEF Busy
  <2>6. ASSUME NEW d \in Drains, DrainStarts(d) \/ ReplayReturns(d)
        PROVE  /\ drain' = [drain EXCEPT ![d] = Idle] /\ UNCHANGED pc
               /\ br' = br \/ drain[d].pc = "replaying"
    <3>1. UNCHANGED pc
      BY <2>6 DEF DrainStarts, ReplayReturns, ReplaySucceeds, ReplayFails, ReplayGated, callVars
    <3>2. CASE DrainStarts(d)
      BY <2>3, <3>1, <3>2 DEF DrainStarts
    <3>3. CASE ReplaySucceeds(d)
      BY <2>1, <2>3, <3>1, <3>3 DEF ReplaySucceeds
    <3>4. CASE ReplayFails(d)
      BY <2>2, <2>3, <3>1, <3>4 DEF ReplayFails, GivesUp
    <3>5. CASE ReplayGated(d)
      BY <2>3, <3>1, <3>5 DEF ReplayGated
    <3> QED BY <2>6, <3>2, <3>3, <3>4, <3>5 DEF ReplayReturns
  <2>7. ASSUME Exit
        PROVE  Busy' \subseteq Busy /\ Replaying' = {} /\ br' = br
    BY <2>0, <2>7 DEF Exit, Busy, Replaying, Idle
  <2>8. ASSUME \/ \E c \in Calls : Refuse(c)
               \/ FlushEntry \/ FlushEnds
               \/ BrainGoesDownOrUp \/ Tick \/ Status \/ UNCHANGED vars
        PROVE  UNCHANGED <<pc, drain>> /\ (br' = br \/ br' = Older(br))
    BY <2>1, <2>8 DEF Refuse, FlushEntry, FlushEnds, BrainGoesDownOrUp, Tick, Status,
                      vars, callVars, drainVars
  <2>9. ASSUME NEW w \in Writes, EnqueueWrite(w)
        PROVE  UNCHANGED <<br, drain>> /\ Busy' = Busy
    <3>1. pc[w] = "idle" /\ UNCHANGED <<br, drain>>
          /\ (pc' = [pc EXCEPT ![w] = "queued"] \/ pc' = [pc EXCEPT ![w] = "full"])
      BY <2>9 DEF EnqueueWrite, Starting, drainVars
    <3> QED BY <2>0, <3>1 DEF Busy
  <2>10. br.age >= br.age /\ Older(br).age >= br.age
    BY <2>0 DEF Older, Breakers
  <2>11. ASSUME UNCHANGED drain PROVE Replaying' = Replaying
    BY <2>11 DEF Replaying
  <2>12. ASSUME UNCHANGED pc PROVE Busy' = Busy
    BY <2>12 DEF Busy
  <2>13. ASSUME NEW r \in Requests, Start(r) PROVE FALSE
    BY <2>13 DEF Start
  <2>14. CASE \E r \in Requests : CallReturns(r)
    BY <2>5, <2>11, <2>14
  <2>15. CASE \E d \in Drains : DrainStarts(d) \/ ReplayReturns(d)
    BY <2>4, <2>6, <2>10, <2>12, <2>15
  <2>16. CASE Exit
    BY <2>7, <2>10, <2>16 DEF Replaying
  <2>17. CASE \E w \in Writes : EnqueueWrite(w)
    BY <2>9, <2>10, <2>11, <2>17
  <2>18. CASE \/ \E c \in Calls : Refuse(c)
              \/ FlushEntry \/ FlushEnds
              \/ BrainGoesDownOrUp \/ Tick \/ Status \/ UNCHANGED vars
    BY <2>8, <2>10, <2>11, <2>12, <2>18
  <2> QED BY <2>13, <2>14, <2>15, <2>16, <2>17, <2>18 DEF Next
<1>2. IInv /\ [Next]_vars =>
        [Blocking(br) /\ Blocking(br') =>
           /\ Busy' \subseteq Busy
           /\ Replaying' \subseteq Replaying
           /\ Busy' = Busy /\ Replaying' = Replaying => br'.age >= br.age]_vars
  BY <1>1
<1> QED BY <1>2, Invariance, PTL DEF Spec, RestampsUseUpCalls
=============================================================================
