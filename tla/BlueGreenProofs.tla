---------------------------- MODULE BlueGreenProofs ----------------------------
(***************************************************************************)
(* Proofs about BlueGreen, for any numbers of servers, releases, watchers, *)
(* deployers and clients, with any step failing and any command killed.    *)
(***************************************************************************)
EXTENDS BlueGreen, TLAPS

-----------------------------------------------------------------------------
(* The fleet's own commands.                                               *)

\* What a step of the fleet may do to the processes and to the deployers that
\* are in no command.
FleetKeeps(releases) ==
  /\ FleetTypeOK'
  /\ current' = current
  /\ \A i \in Pids : proc'[i] # None =>
       \/ proc[i] # None /\ proc'[i].release = proc[i].release
       \/ proc'[i].release \in releases
  /\ \A d \in Deployers : job[d] = Idle => job'[d] = Idle

\* A command that is through with a server is a command still.
LEMMA TurnedJob ==
  ASSUME NEW j \in Jobs
  PROVE  Turned(j) \in Jobs
<1>1. Idle \in Jobs /\ StartJob(j.force) \in Jobs
  BY DEF Jobs, Idle, StartJob
<1>2. [j EXCEPT !.at = None, !.pid = None,
         !.pc = IF j.phase = "stop" THEN "kill" ELSE "check"] \in Jobs
  BY DEF Jobs
<1> QED BY <1>1, <1>2 DEF Turned

\* A step of runner r that gives it a new command and may end a process.
LEMMA CommandKeeps ==
  ASSUME FleetTypeOK, NEW r \in Runners, NEW j \in Jobs, NEW releases,
         job' = [job EXCEPT ![r] = j], r \in Watchers \/ job[r] # Idle,
         UNCHANGED <<current, watch, misses>>,
         faults' \in 0 .. MaxFaults,
         proc' = proc \/ \E i \in Pids : proc' = [proc EXCEPT ![i] = None],
         pidfile' \in [Servers -> Pids \cup {None}]
  PROVE  FleetKeeps(releases)
<1>1. proc' \in [Pids -> Processes \cup {None}]
      /\ \A i \in Pids : proc'[i] # None => proc[i] = proc'[i]
  BY DEF FleetTypeOK
<1>2. job' \in [Runners -> Jobs]
  BY DEF FleetTypeOK
<1>3. ASSUME NEW d \in Deployers, job[d] = Idle PROVE job'[d] = Idle
  <2>1. d # r /\ d \in Runners
    BY <1>3, FleetAssumption DEF Runners
  <2> QED BY <1>3, <2>1 DEF FleetTypeOK
<1>4. FleetTypeOK'
  BY <1>1, <1>2 DEF FleetTypeOK
<1> QED BY <1>1, <1>3, <1>4 DEF FleetKeeps

LEMMA FaultCounts ==
  ASSUME FleetTypeOK, Fault
  PROVE  faults' \in 0 .. MaxFaults
BY FleetAssumption DEF FleetTypeOK, Fault

LEMMA ProcessKeeps ==
  ASSUME FleetTypeOK, NEW i \in Pids, NEW releases, Bind(i) \/ ServerFails(i)
  PROVE  FleetKeeps(releases)
<1>1. proc' = [proc EXCEPT ![i] = None]
      \/ \E st \in {"up", "hung"} : proc' = [proc EXCEPT ![i] = [@ EXCEPT !.state = st]]
  BY DEF Bind, ServerFails
<1>2. Alive(i) /\ proc[i] \in Processes
  BY DEF Bind, ServerFails, Alive, FleetTypeOK
<1>3. /\ proc' \in [Pids -> Processes \cup {None}]
      /\ \A k \in Pids : proc'[k] # None => proc[k] # None /\ proc'[k].release = proc[k].release
  <2>1. CASE proc' = [proc EXCEPT ![i] = None]
    BY <2>1 DEF FleetTypeOK
  <2>2. ASSUME NEW st \in {"up", "hung"}, proc' = [proc EXCEPT ![i] = [@ EXCEPT !.state = st]]
        PROVE <1>3!:
    <3>1. [proc[i] EXCEPT !.state = st] \in Processes
          /\ [proc[i] EXCEPT !.state = st].release = proc[i].release
      BY <1>2 DEF Processes
    <3> QED BY <1>2, <2>2, <3>1 DEF FleetTypeOK, Alive
  <2> QED BY <1>1, <2>1, <2>2
<1>4. faults' \in 0 .. MaxFaults
  BY FleetAssumption DEF Bind, ServerFails, Fault, FleetTypeOK
<1> QED BY <1>3, <1>4 DEF Bind, ServerFails, FleetKeeps, FleetTypeOK

\* A command that is given a next state: what its type asks for.
LEMMA StopKeeps ==
  ASSUME FleetTypeOK, NEW r \in Runners, NEW releases, StopRecorded(r)
  PROVE  FleetKeeps(releases)
<1>1. job[r] \in Jobs /\ job[r].pc = "kill"
  BY DEF FleetTypeOK, StopRecorded
<1>2. PICK s \in IF job[r].phase = "stop" THEN job[r].todo ELSE {job[r].at} :
        /\ job' = [job EXCEPT ![r] =
             [job[r] EXCEPT !.pc = "unlink", !.at = s, !.todo = @ \ {s},
                            !.pid = pidfile[s]]]
        /\ proc' = IF Alive(pidfile[s]) THEN [proc EXCEPT ![pidfile[s]] = None] ELSE proc
  BY DEF StopRecorded
<1>3. s \in Servers /\ s # None
  BY <1>1, <1>2, FleetAssumption DEF Jobs
<1>4. pidfile[s] \in Pids \cup {None}
  BY <1>3 DEF FleetTypeOK
<1> DEFINE j == [job[r] EXCEPT !.pc = "unlink", !.at = s, !.todo = @ \ {s},
                               !.pid = pidfile[s]]
<1>5. j \in Jobs
  BY <1>1, <1>3, <1>4 DEF Jobs
<1>6. job' = [job EXCEPT ![r] = j]
  BY <1>2
<1>7. proc' = proc \/ \E i \in Pids : proc' = [proc EXCEPT ![i] = None]
  BY <1>2, <1>4 DEF Alive
<1>8. job[r] # Idle
  BY <1>1 DEF Idle
<1> HIDE DEF j
<1> QED BY <1>5, <1>6, <1>7, <1>8, CommandKeeps DEF StopRecorded, FleetTypeOK

LEMMA UnlinkKeeps ==
  ASSUME FleetTypeOK, NEW r \in Runners, NEW releases, UnlinkPidfile(r)
  PROVE  FleetKeeps(releases)
<1>1. job[r] \in Jobs /\ job[r].pc = "unlink" /\ job[r].at \in Servers
  BY DEF FleetTypeOK, UnlinkPidfile, Jobs
<1> DEFINE j == [job[r] EXCEPT !.pc = "reclaim"]
<1>2. j \in Jobs
  BY <1>1 DEF Jobs
<1>3. job' = [job EXCEPT ![r] = j]
  BY DEF UnlinkPidfile, FleetTypeOK
<1>4. pidfile' \in [Servers -> Pids \cup {None}]
  BY <1>1 DEF UnlinkPidfile, FleetTypeOK
<1>5. job[r] # Idle
  BY <1>1 DEF Idle
<1> HIDE DEF j
<1> QED BY <1>2, <1>3, <1>4, <1>5, CommandKeeps DEF UnlinkPidfile, FleetTypeOK

LEMMA ReclaimKeeps ==
  ASSUME FleetTypeOK, NEW r \in Runners, NEW releases, ReclaimPort(r)
  PROVE  FleetKeeps(releases)
<1>1. job[r] \in Jobs /\ job[r].pc = "reclaim"
  BY DEF FleetTypeOK, ReclaimPort
<1> DEFINE j == IF job[r].phase = "stop" THEN Turned(job[r])
                ELSE [job[r] EXCEPT !.pc = "spawn", !.pid = None]
<1>2. j \in Jobs
  <2>1. [job[r] EXCEPT !.pc = "spawn", !.pid = None] \in Jobs
    BY <1>1 DEF Jobs
  <2> QED BY <1>1, <2>1, TurnedJob
<1>3. job' = [job EXCEPT ![r] = j]
  BY DEF ReclaimPort, FleetTypeOK
<1>4. proc' = proc \/ \E i \in Pids : proc' = [proc EXCEPT ![i] = None]
  BY DEF ReclaimPort, Owners
<1>5. job[r] # Idle
  BY <1>1 DEF Idle
<1> HIDE DEF j
<1> QED BY <1>2, <1>3, <1>4, <1>5, CommandKeeps DEF ReclaimPort, FleetTypeOK

LEMMA CheckKeeps ==
  ASSUME FleetTypeOK, NEW r \in Runners, NEW releases, CheckRecorded(r)
  PROVE  FleetKeeps(releases)
<1>1. job[r] \in Jobs /\ job[r].pc = "check"
  BY DEF FleetTypeOK, CheckRecorded
<1>2. PICK s \in job[r].todo :
        job' = [job EXCEPT ![r] =
          LET j == [job[r] EXCEPT !.at = s, !.todo = @ \ {s}] IN
          IF ~Alive(pidfile[s]) THEN [j EXCEPT !.pc = "spawn"]
          ELSE IF j.force THEN [j EXCEPT !.pc = "kill"] ELSE Turned(j)]
  BY DEF CheckRecorded
<1>3. s \in Servers /\ s # None
  BY <1>1, <1>2, FleetAssumption DEF Jobs
<1> DEFINE j == [job[r] EXCEPT !.at = s, !.todo = @ \ {s}]
           next == IF ~Alive(pidfile[s]) THEN [j EXCEPT !.pc = "spawn"]
                   ELSE IF j.force THEN [j EXCEPT !.pc = "kill"] ELSE Turned(j)
<1>4. j \in Jobs /\ j.at # None
  BY <1>1, <1>3 DEF Jobs
<1>5. job' = [job EXCEPT ![r] = next]
  BY <1>2
<1> HIDE DEF j
<1>6. next \in Jobs
  <2>1. [j EXCEPT !.pc = "spawn"] \in Jobs /\ [j EXCEPT !.pc = "kill"] \in Jobs
    BY <1>4 DEF Jobs
  <2> QED BY <1>4, <2>1, TurnedJob
<1>7. job[r] # Idle
  BY <1>1 DEF Idle
<1> HIDE DEF next
<1> QED BY <1>5, <1>6, <1>7, CommandKeeps DEF CheckRecorded, FleetTypeOK

LEMMA SpawnKeeps ==
  ASSUME FleetTypeOK, NEW r \in Runners,
         NEW releases \in SUBSET (Releases \cup {None}), Spawn(r, releases)
  PROVE  FleetKeeps(releases)
<1>1. job[r] \in Jobs /\ job[r].pc = "spawn" /\ job[r].at \in Servers /\ job[r].at # None
  BY DEF FleetTypeOK, Spawn, Jobs
<1>2. PICK i \in Unused, release \in releases :
        /\ proc' = [proc EXCEPT ![i] =
             [server |-> job[r].at, release |-> release, state |-> "starting"]]
        /\ job' = [job EXCEPT ![r] = [@ EXCEPT !.pc = "record", !.pid = i]]
  BY DEF Spawn
<1>3. i \in Pids /\ i # None
  BY FleetAssumption DEF Unused, Pids
<1> DEFINE j == [job[r] EXCEPT !.pc = "record", !.pid = i]
           p == [server |-> job[r].at, release |-> release, state |-> "starting"]
<1>4. j \in Jobs
  BY <1>1, <1>3 DEF Jobs
<1>5. p \in Processes /\ p.release \in releases
  BY <1>1 DEF Processes
<1>6. job' = [job EXCEPT ![r] = j] /\ proc' = [proc EXCEPT ![i] = p]
  BY <1>2
<1>7. job[r] # Idle
  BY <1>1 DEF Idle
<1> HIDE DEF j, p
<1>8. job' \in [Runners -> Jobs] /\ proc' \in [Pids -> Processes \cup {None}]
  BY <1>4, <1>5, <1>6 DEF FleetTypeOK
<1>9. FleetTypeOK' /\ current' = current
  BY <1>8 DEF Spawn, FleetTypeOK
<1>10. ASSUME NEW k \in Pids, proc'[k] # None
       PROVE  \/ proc[k] # None /\ proc'[k].release = proc[k].release
              \/ proc'[k].release \in releases
  BY <1>3, <1>5, <1>6, <1>10 DEF FleetTypeOK
<1>11. ASSUME NEW d \in Deployers, job[d] = Idle PROVE job'[d] = Idle
  <2>1. d # r /\ d \in Runners
    BY <1>7, <1>11 DEF Runners
  <2> QED BY <1>6, <1>11, <2>1 DEF FleetTypeOK
<1> QED BY <1>9, <1>10, <1>11 DEF FleetKeeps

LEMMA RecordKeeps ==
  ASSUME FleetTypeOK, NEW r \in Runners, NEW releases, SpawnFails(r) \/ RecordPid(r)
  PROVE  FleetKeeps(releases)
<1>1. job[r] \in Jobs /\ job[r].pc \in {"spawn", "record"}
  BY DEF FleetTypeOK, SpawnFails, RecordPid
<1>2. Turned(job[r]) \in Jobs
  BY <1>1, TurnedJob
<1>3. job' = [job EXCEPT ![r] = Turned(job[r])]
  BY DEF SpawnFails, RecordPid, FleetTypeOK
<1>4. pidfile' \in [Servers -> Pids \cup {None}] /\ faults' \in 0 .. MaxFaults
  <2>1. CASE SpawnFails(r)
    BY <2>1, FleetAssumption DEF SpawnFails, Fault, FleetTypeOK
  <2>2. CASE RecordPid(r)
    <3>1. job[r].at \in Servers /\ job[r].pid \in Pids
      BY <1>1, <2>2 DEF Jobs, RecordPid
    <3> QED BY <2>2, <3>1 DEF RecordPid, FleetTypeOK
  <2> QED BY <2>1, <2>2
<1>5. job[r] # Idle
  BY <1>1 DEF Idle
<1> QED BY <1>2, <1>3, <1>4, <1>5, CommandKeeps DEF SpawnFails, RecordPid

LEMMA ReapKeeps ==
  ASSUME FleetTypeOK, NEW r \in Runners, NEW releases,
         ReapScan(r) \/ ReapOne(r) \/ ReapFails(r) \/ ReapEnds(r)
  PROVE  FleetKeeps(releases)
<1>1. job[r] \in Jobs /\ job[r].pc \in {"scan", "reap"} /\ job[r] # Idle
  <2>1. job[r].pc \in {"scan", "reap"}
    BY DEF ReapScan, ReapOne, ReapFails, ReapEnds
  <2> QED BY <2>1 DEF FleetTypeOK, Idle
<1>2. CASE ReapScan(r)
  <2> DEFINE j == [job[r] EXCEPT !.pc = "reap",
                                 !.strays = Strays({pidfile[s] : s \in Servers})]
  <2>1. j \in Jobs
    BY <1>1 DEF Jobs, Strays
  <2>2. job' = [job EXCEPT ![r] = j]
    BY <1>2 DEF ReapScan
  <2> HIDE DEF j
  <2> QED BY <1>1, <1>2, <2>1, <2>2, CommandKeeps DEF ReapScan, FleetTypeOK
<1>3. CASE ReapOne(r)
  <2>1. PICK i \in job[r].strays :
          /\ job' = [job EXCEPT ![r] = [job[r] EXCEPT !.strays = @ \ {i},
                                                     !.ok = @ /\ Alive(i)]]
          /\ proc' = [proc EXCEPT ![i] = None]
    BY <1>3 DEF ReapOne
  <2> DEFINE j == [job[r] EXCEPT !.strays = @ \ {i}, !.ok = @ /\ Alive(i)]
  <2>2. i \in Pids
    BY <1>1, <2>1 DEF Jobs
  <2>3. (job[r].ok /\ Alive(i)) \in BOOLEAN
    BY <1>1 DEF Jobs, Alive
  <2>4. job' = [job EXCEPT ![r] = j]
    BY <2>1
  <2>5. j \in Jobs
    BY <1>1, <2>3 DEF Jobs
  <2> HIDE DEF j
  <2> QED BY <1>1, <1>3, <2>1, <2>2, <2>4, <2>5, CommandKeeps DEF ReapOne, FleetTypeOK
<1>4. CASE ReapFails(r)
  <2>1. PICK i \in job[r].strays :
          job' = [job EXCEPT ![r] = [job[r] EXCEPT !.strays = @ \ {i},
                                                  !.ok = FALSE]]
    BY <1>4 DEF ReapFails
  <2> DEFINE j == [job[r] EXCEPT !.strays = @ \ {i}, !.ok = FALSE]
  <2>2. j \in Jobs
    BY <1>1 DEF Jobs
  <2>3. job' = [job EXCEPT ![r] = j]
    BY <2>1
  <2>4. faults' \in 0 .. MaxFaults
    BY <1>4, FaultCounts DEF ReapFails
  <2> HIDE DEF j
  <2> QED BY <1>1, <1>4, <2>2, <2>3, <2>4, CommandKeeps DEF ReapFails, FleetTypeOK
<1>5. CASE ReapEnds(r)
  <2> DEFINE j == [Idle EXCEPT !.ok = job[r].ok]
  <2>1. j \in Jobs
    BY <1>1 DEF Jobs, Idle
  <2>2. job' = [job EXCEPT ![r] = j]
    BY <1>5 DEF ReapEnds
  <2> HIDE DEF j
  <2> QED BY <1>1, <1>5, <2>1, <2>2, CommandKeeps DEF ReapEnds, FleetTypeOK
<1> QED BY <1>2, <1>3, <1>4, <1>5

LEMMA WatcherKeeps ==
  ASSUME FleetTypeOK, NEW w \in Watchers, NEW releases,
         Poll(w) \/ WatcherDies(w) \/ RestartRefused(w)
  PROVE  FleetKeeps(releases)
<1>1. w \in Runners /\ w \notin Deployers
  BY FleetAssumption DEF Runners
<1>2. Idle \in Jobs /\ StartJob(TRUE) \in Jobs /\ Repair \in Jobs /\ job[w] \in Jobs
  BY <1>1 DEF Jobs, Idle, StartJob, RestartJob, Repair, FleetTypeOK
<1>3. \E j \in Jobs : job' = [job EXCEPT ![w] = j]
  <2>1. CASE Poll(w)
    <3>1. PICK bad : job' = [job EXCEPT ![w] = IF bad \cap watch[w] # {} THEN Repair ELSE @]
      BY <2>1 DEF Poll, Decide
    <3> QED BY <1>1, <1>2, <3>1 DEF FleetTypeOK
  <2>2. CASE WatcherDies(w) \/ RestartRefused(w)
    BY <1>2, <2>2 DEF WatcherDies, RestartRefused
  <2> QED BY <2>1, <2>2
<1>4. faults' \in 0 .. MaxFaults
  <2>1. faults' = faults \/ Fault
    BY DEF Poll, WatcherDies, RestartRefused
  <2> QED BY <2>1, FaultCounts DEF FleetTypeOK
<1>5. watch' \in [Watchers -> SUBSET Servers] /\ misses' \in [Watchers -> [Servers -> 0 .. 2]]
  <2>1. CASE Poll(w)
    <3>1. PICK wrong \in SUBSET Servers :
            LET bad == {s \in Servers : ~Served(s)} \cup wrong IN
            /\ watch' = [watch EXCEPT ![w] = bad]
            /\ misses' = [misses EXCEPT ![w] = [s \in Servers |->
                 IF s \notin bad THEN 0 ELSE IF @[s] = 2 THEN 2 ELSE @[s] + 1]]
      BY <2>1 DEF Poll, Decide
    <3> DEFINE bad == {s \in Servers : ~Served(s)} \cup wrong
               m == [s \in Servers |->
                 IF s \notin bad THEN 0
                 ELSE IF misses[w][s] = 2 THEN 2 ELSE misses[w][s] + 1]
    <3>2. watch' = [watch EXCEPT ![w] = bad] /\ misses' = [misses EXCEPT ![w] = m]
      BY <3>1
    <3>3. bad \in SUBSET Servers
      BY <3>1
    <3>4. m \in [Servers -> 0 .. 2]
      <4>1. \A s \in Servers : misses[w][s] \in 0 .. 2
        BY DEF FleetTypeOK
      <4> HIDE DEF bad
      <4> QED BY <4>1
    <3> HIDE DEF bad, m
    <3> QED BY <3>2, <3>3, <3>4 DEF FleetTypeOK
  <2>2. CASE WatcherDies(w) \/ RestartRefused(w)
    BY <2>2 DEF WatcherDies, RestartRefused, FleetTypeOK
  <2> QED BY <2>1, <2>2
<1>6. UNCHANGED <<current, proc, pidfile>>
  BY DEF Poll, WatcherDies, RestartRefused
<1>7. job' \in [Runners -> Jobs] /\ \A d \in Deployers : job'[d] = job[d]
  BY <1>1, <1>3 DEF FleetTypeOK, Runners
<1>8. FleetTypeOK'
  BY <1>4, <1>5, <1>6, <1>7 DEF FleetTypeOK
<1> QED BY <1>6, <1>7, <1>8 DEF FleetKeeps

LEMMA FleetStepKeeps ==
  ASSUME FleetTypeOK, NEW releases \in SUBSET (Releases \cup {None}), FleetNext(releases)
  PROVE  FleetKeeps(releases)
<1>1. ASSUME NEW r \in Runners, CommandStep(r, releases) PROVE FleetKeeps(releases)
  BY <1>1, StopKeeps, UnlinkKeeps, ReclaimKeeps, CheckKeeps, SpawnKeeps, RecordKeeps, ReapKeeps
     DEF CommandStep
<1> QED BY <1>1, ProcessKeeps, RecordKeeps, ReapKeeps, WatcherKeeps DEF FleetNext

-----------------------------------------------------------------------------
(* The invariant.                                                          *)

\* After the flip, current is what the deployer made it and the rollback target
\* what it saw before; what it is about to delete is neither, and nobody uses
\* it; what it builds is not whole.
DeployerOK(d) ==
  /\ deploy[d].pc \in {"flipped", "restarting", "reaping", "gc"} =>
       current = deploy[d].release /\ rollback = deploy[d].previous
  /\ deploy[d].pc # "gc" => deploy[d].doomed = {}
  /\ deploy[d].doomed \cap ({current, rollback} \cup InUse) = {}
  /\ deploy[d].pc \in {"install", "manifest"} => store[deploy[d].release] # "built"

IInv ==
  /\ TypeOK
  /\ \A d \in Deployers : DeployerOK(d)
  /\ InUseKept
  /\ CurrentWhole
  /\ RollbackKept

LEMMA InitEstablishes == Init => IInv
<1> SUFFICES ASSUME Init PROVE IInv
  OBVIOUS
<1> PICK q \in Releases :
      /\ FleetInit(q)
      /\ store = [p \in Releases |-> IF p = q THEN "built" ELSE "absent"]
      /\ lock = None
      /\ deploy = [d \in Deployers |-> Out]
      /\ client = [c \in Clients |-> None]
      /\ rollback = q
      /\ inPlace = {}
      /\ deploys = 0
  BY DEF Init
<1>1. FleetTypeOK
  <2>1. Idle \in Jobs
    BY DEF Idle, Jobs
  <2> QED BY <2>1, FleetAssumption DEF FleetInit, FleetTypeOK
<1>2. Out \in Deploys /\ Out.pc = "out" /\ Out.doomed = {}
  BY DEF Out, Deploys
<1>3. \A d \in Deployers : deploy[d] = Out /\ job[d] = Idle
  BY DEF FleetInit, Runners
<1>4. TypeOK
  BY <1>1, <1>2, <1>3, DeployAssumption DEF TypeOK, Dirs
<1>5. InUse \subseteq {None}
  BY DEF InUse, FleetInit, Alive
<1>6. current = q /\ Whole(q)
  BY DEF FleetInit, Whole
<1> QED BY <1>2, <1>3, <1>4, <1>5, <1>6 DEF IInv, DeployerOK, InUseKept, CurrentWhole, RollbackKept

-----------------------------------------------------------------------------
(* Each step keeps the invariant.                                          *)

\* A step of the fleet or of a client may let a process start from `current`.
LEMMA RestKeeps ==
  ASSUME IInv, Next, UNCHANGED <<store, lock, deploy, rollback, inPlace, deploys>>,
         FleetMoves \/ \E c \in Clients : ClientStarts(c) \/ ClientExits(c)
  PROVE  IInv'
<1>1. /\ FleetTypeOK' /\ current' = current
      /\ \A d \in Deployers : job[d] = Idle => job'[d] = Idle
      /\ client' \in [Clients -> Releases \cup {None}]
      /\ InUse' \subseteq InUse \cup {current, None}
  <2>1. CASE FleetMoves
    <3>1. Runnable \in SUBSET (Releases \cup {None}) /\ Runnable \subseteq {current, None}
      BY DEF Runnable, IInv, TypeOK, FleetTypeOK
    <3>2. FleetKeeps(Runnable)
      BY <2>1, <3>1, FleetStepKeeps DEF FleetMoves, IInv, TypeOK
    <3>3. client' = client
      BY <2>1 DEF FleetMoves, deployVars
    <3>4. InUse' \subseteq InUse \cup {current, None}
      BY <3>1, <3>2, <3>3 DEF FleetKeeps, InUse, Alive
    <3> QED BY <3>2, <3>3, <3>4 DEF FleetKeeps, IInv, TypeOK
  <2>2. ASSUME NEW c \in Clients, ClientStarts(c) \/ ClientExits(c)
        PROVE  <1>1!:
    <3>1. UNCHANGED fleetVars
      BY <2>2 DEF ClientStarts, ClientExits
    <3>2. client' = [client EXCEPT ![c] = current] \/ client' = [client EXCEPT ![c] = None]
      BY <2>2 DEF ClientStarts, ClientExits
    <3>3. client \in [Clients -> Releases \cup {None}] /\ current \in Releases
      BY DEF IInv, TypeOK, FleetTypeOK
    <3>4. client' \in [Clients -> Releases \cup {None}]
          /\ \A k \in Clients : client'[k] \in {client[k], current, None}
      BY <3>2, <3>3
    <3>5. InUse' \subseteq InUse \cup {current, None}
      BY <3>1, <3>4 DEF InUse, Alive, fleetVars
    <3> QED BY <3>1, <3>4, <3>5 DEF IInv, TypeOK, FleetTypeOK, fleetVars
  <2> QED BY <2>1, <2>2
<1>2. TypeOK'
  BY <1>1 DEF IInv, TypeOK
<1>3. ASSUME NEW d \in Deployers PROVE DeployerOK(d)'
  <2>1. None \notin deploy[d].doomed
    BY FleetAssumption DEF IInv, TypeOK, Deploys
  <2> QED BY <1>1, <2>1 DEF IInv, DeployerOK
<1>4. InUseKept'
  BY <1>1 DEF IInv, InUseKept, CurrentWhole, Whole
<1> QED BY <1>1, <1>2, <1>3, <1>4 DEF IInv, CurrentWhole, RollbackKept, Whole

\* What a step of the deployer that holds the lock has to keep.
LEMMA DeployKeeps ==
  ASSUME IInv, NEW d \in Deployers, NEW x \in Deploys,
         \A e \in Deployers : e # d => deploy[e] = Out,
         deploy' = [deploy EXCEPT ![d] = x],
         UNCHANGED <<proc, client>>,
         FleetTypeOK', \A e \in Deployers : e # d => job'[e] = job[e],
         \/ x = Out /\ lock' = None
         \/ x.pc # "out" /\ x.release # None /\ lock' = d,
         x.pc \notin {"restarting", "reaping"} => job'[d] = Idle,
         store' \in [Releases -> Dirs], rollback' \in Releases, inPlace' \subseteq Releases,
         deploys' \in 0 .. MaxDeploys,
         DeployerOK(d)',
         \A r \in (InUse \ {None}) \cup {current', rollback'} : Whole(r)'
  PROVE  IInv'
<1>1. Out \in Deploys /\ Out.pc = "out" /\ Out.doomed = {}
  BY DEF Out, Deploys
<1>2. deploy' \in [Deployers -> Deploys] /\ deploy'[d] = x
      /\ \A e \in Deployers : e # d => deploy'[e] = Out
  BY DEF IInv, TypeOK
<1>3. \A e \in Deployers : e # d => job'[e] = Idle
  BY <1>1 DEF IInv, TypeOK
<1>4. TypeOK'
  BY <1>1, <1>2, <1>3 DEF IInv, TypeOK
<1>5. ASSUME NEW e \in Deployers, e # d PROVE DeployerOK(e)'
  BY <1>1, <1>2, <1>5 DEF DeployerOK
<1>6. InUse' = InUse
  BY DEF InUse, Alive
<1> QED BY <1>4, <1>5, <1>6 DEF IInv, InUseKept, CurrentWhole, RollbackKept

\* Whoever is in a deploy is the only one, and has a target.
LEMMA Alone ==
  ASSUME TypeOK, NEW d \in Deployers, deploy[d].pc # "out"
  PROVE  /\ \A e \in Deployers : e # d => deploy[e] = Out
         /\ deploy[d] \in Deploys /\ deploy[d].release \in Releases /\ deploy[d].release # None
         /\ lock = d
BY DEF TypeOK, Deploys

\* A deploy that ends without touching what is current.
LEMMA EndKeeps ==
  ASSUME IInv, NEW d \in Deployers, deploy[d].pc # "out", Ends(d),
         UNCHANGED <<current, proc, client, rollback, inPlace, deploys>>,
         FleetTypeOK', job'[d] = Idle, \A e \in Deployers : e # d => job'[e] = job[e],
         \/ store' = store
         \/ deploy[d].pc \in {"install", "manifest"} /\ store' = [store EXCEPT ![Target(d)] = "absent"]
  PROVE  IInv'
<1>1. Out \in Deploys /\ Out.pc = "out" /\ Out.doomed = {}
  BY DEF Out, Deploys
<1>2. deploy' = [deploy EXCEPT ![d] = Out] /\ lock' = None /\ deploy'[d] = Out
  BY DEF Ends, IInv, TypeOK
<1>3. store' \in [Releases -> Dirs]
  BY DEF IInv, TypeOK, Dirs
<1>4. \A r \in Releases : Whole(r) => Whole(r)'
  BY DEF IInv, TypeOK, DeployerOK, Whole, Target
<1>5. \A r \in (InUse \ {None}) \cup {current', rollback'} : r \in Releases /\ Whole(r)
  BY DEF IInv, InUseKept, CurrentWhole, RollbackKept, InUse, TypeOK, FleetTypeOK, Alive, Processes
<1>6. DeployerOK(d)'
  BY <1>1, <1>2 DEF DeployerOK
<1>7. \A e \in Deployers : e # d => deploy[e] = Out
  BY Alone DEF IInv
<1> QED BY <1>1, <1>2, <1>3, <1>4, <1>5, <1>6, <1>7, DeployKeeps DEF IInv, TypeOK

LEMMA EndsKeep ==
  ASSUME IInv, NEW d \in Deployers,
         \/ BuildFails(d) \/ SmokeFails(d) \/ VerifyFails(d) \/ RestartFails(d)
         \/ ReapRefused(d) \/ DeployEnds(d) \/ Kill(d)
  PROVE  IInv'
<1>1. FleetTypeOK /\ job \in [Runners -> Jobs] /\ d \in Runners /\ Idle \in Jobs
  BY DEF IInv, TypeOK, FleetTypeOK, Runners, Idle, Jobs
<1>2. CASE Kill(d) \/ ReapRefused(d)
  <2>1. job' = [job EXCEPT ![d] = Idle]
    BY <1>2 DEF Kill, ReapRefused
  <2>2. faults' \in 0 .. MaxFaults
    BY <1>1, <1>2, FaultCounts DEF Kill, ReapRefused, FleetTypeOK
  <2>3. deploy[d].pc # "out"
    BY <1>2 DEF Kill, ReapRefused, IInv, TypeOK
  <2>4. \A e \in Deployers : e \in Runners
    BY DEF Runners
  <2>5. FleetTypeOK' /\ job'[d] = Idle /\ \A e \in Deployers : e # d => job'[e] = job[e]
    BY <1>1, <1>2, <2>1, <2>2, <2>4 DEF Kill, ReapRefused, FleetTypeOK
  <2>6. /\ Ends(d) /\ store' = store
        /\ UNCHANGED <<current, proc, client, rollback, inPlace, deploys>>
    BY <1>2 DEF Kill, ReapRefused
  <2> QED BY <2>3, <2>5, <2>6, EndKeeps
<1>3. CASE \/ BuildFails(d) \/ SmokeFails(d) \/ VerifyFails(d) \/ RestartFails(d) \/ DeployEnds(d)
  <2>1. UNCHANGED fleetVars
    BY <1>3 DEF BuildFails, SmokeFails, VerifyFails, RestartFails, DeployEnds
  <2>2. FleetTypeOK' /\ job' = job
    BY <1>1, <2>1 DEF FleetTypeOK, fleetVars
  <2>3. deploy[d].pc # "out" /\ job[d] = Idle
    BY <1>3 DEF BuildFails, SmokeFails, VerifyFails, RestartFails, DeployEnds, IInv, TypeOK
  <2>4. Ends(d) /\ UNCHANGED <<current, proc, client, rollback, inPlace, deploys>>
    BY <1>3, <2>1 DEF BuildFails, SmokeFails, VerifyFails, RestartFails, DeployEnds, fleetVars
  <2>5. CASE BuildFails(d)
    <3>1. deploy[d].pc \in {"install", "manifest"} /\ store' = [store EXCEPT ![Target(d)] = "absent"]
      BY <2>5 DEF BuildFails
    <3> QED BY <2>2, <2>3, <2>4, <3>1, EndKeeps
  <2>6. CASE SmokeFails(d) \/ VerifyFails(d) \/ RestartFails(d) \/ DeployEnds(d)
    <3>1. store' = store
      BY <2>6 DEF SmokeFails, VerifyFails, RestartFails, DeployEnds
    <3> QED BY <2>2, <2>3, <2>4, <3>1, EndKeeps
  <2> QED BY <1>3, <2>5, <2>6
<1> QED BY <1>2, <1>3

\* A deploy that goes on with nothing but its place changed.
LEMMA GoKeeps ==
  ASSUME IInv, NEW d \in Deployers, deploy[d].pc # "out", NEW pc, Goes(d, pc),
         pc \in {"install", "manifest", "smoke", "restarting", "reaping"},
         pc \in {"restarting", "reaping"} =>
           deploy[d].pc \in {"flipped", "restarting", "reaping"},
         pc \notin {"restarting", "reaping"} => job'[d] = Idle,
         deploy[d].pc # "gc",
         UNCHANGED <<current, proc, client, rollback, deploys>>,
         FleetTypeOK', \A e \in Deployers : e # d => job'[e] = job[e],
         store' \in [Releases -> Dirs], inPlace' \subseteq Releases,
         pc \in {"install", "manifest"} => store'[Target(d)] # "built",
         \A r \in Releases : Whole(r) => Whole(r)'
  PROVE  IInv'
<1> DEFINE x == [deploy[d] EXCEPT !.pc = pc]
<1>1. /\ deploy[d] \in Deploys /\ deploy[d].release \in Releases /\ deploy[d].release # None
      /\ lock = d /\ \A e \in Deployers : e # d => deploy[e] = Out
  BY Alone DEF IInv
<1>2. /\ x \in Deploys /\ x.pc = pc /\ x.release = deploy[d].release
      /\ x.previous = deploy[d].previous /\ x.doomed = deploy[d].doomed
  BY <1>1 DEF Deploys
<1>3. deploy' = [deploy EXCEPT ![d] = x] /\ lock' = d /\ deploy'[d] = x
  BY <1>1 DEF Goes, IInv, TypeOK
<1> HIDE DEF x
<1>4. InUse' = InUse
  BY DEF InUse, Alive
<1>5. DeployerOK(d)'
  BY <1>1, <1>2, <1>3, <1>4 DEF IInv, DeployerOK, Target
<1>6. \A r \in (InUse \ {None}) \cup {current', rollback'} : r \in Releases /\ Whole(r)
  BY DEF IInv, InUseKept, CurrentWhole, RollbackKept, InUse, TypeOK, FleetTypeOK, Alive, Processes
<1>7. /\ x.pc # "out" /\ x.release # None
      /\ x.pc \notin {"restarting", "reaping"} => job'[d] = Idle
  BY <1>1, <1>2
<1> QED BY <1>1, <1>2, <1>3, <1>5, <1>6, <1>7, DeployKeeps DEF IInv, TypeOK

LEMMA BuildKeeps ==
  ASSUME IInv, NEW d \in Deployers,
         SkipBuild(d) \/ Wipe(d) \/ Install(d) \/ BuildEnds(d)
  PROVE  IInv'
<1>1. /\ deploy[d].pc \in {"build", "install", "manifest"} /\ job'[d] = Idle
      /\ UNCHANGED fleetVars /\ UNCHANGED <<client, rollback, deploys>>
  BY DEF SkipBuild, Wipe, Install, BuildEnds, IInv, TypeOK, fleetVars
<1>2. Target(d) \in Releases /\ store \in [Releases -> Dirs] /\ inPlace \subseteq Releases
  BY <1>1, Alone DEF IInv, Target, TypeOK
<1>3. FleetTypeOK' /\ job' = job /\ UNCHANGED <<current, proc>>
  BY <1>1 DEF IInv, TypeOK, FleetTypeOK, fleetVars
<1>4. PICK pc \in {"install", "manifest", "smoke"} : Goes(d, pc)
  BY DEF SkipBuild, Wipe, Install, BuildEnds
<1>5. CASE SkipBuild(d)
  <2>1. Goes(d, "smoke") /\ store' = store /\ inPlace' = inPlace
    BY <1>5 DEF SkipBuild
  <2> QED BY <1>1, <1>2, <1>3, <2>1, GoKeeps DEF Whole
<1>6. CASE Wipe(d)
  <2>1. /\ Goes(d, "install")
        /\ store' = [store EXCEPT ![Target(d)] =
             IF store[Target(d)] = "built" THEN "gutted" ELSE store[Target(d)]]
        /\ inPlace' = IF store[Target(d)] = "built" THEN inPlace \cup {Target(d)} ELSE inPlace
    BY <1>6 DEF Wipe
  <2>2. /\ store' \in [Releases -> Dirs] /\ inPlace' \subseteq Releases
        /\ store'[Target(d)] # "built"
    BY <1>2, <2>1 DEF Dirs
  <2>3. \A r \in Releases : Whole(r) => Whole(r)'
    BY <1>2, <2>1 DEF Whole
  <2> QED BY <1>1, <1>3, <2>1, <2>2, <2>3, GoKeeps
<1>7. CASE Install(d)
  <2>1. /\ Goes(d, "manifest") /\ inPlace' = inPlace
        /\ store' = [store EXCEPT ![Target(d)] = "partial"]
        /\ deploy[d].pc = "install"
    BY <1>7 DEF Install
  <2>2. store[Target(d)] # "built"
    BY <2>1 DEF IInv, DeployerOK, Target
  <2>3. /\ store' \in [Releases -> Dirs] /\ inPlace' \subseteq Releases
        /\ store'[Target(d)] # "built"
    BY <1>2, <2>1 DEF Dirs
  <2>4. \A r \in Releases : Whole(r) => Whole(r)'
    BY <1>2, <2>1, <2>2 DEF Whole
  <2> QED BY <1>1, <1>3, <2>1, <2>3, <2>4, GoKeeps
<1>8. CASE BuildEnds(d)
  <2>1. /\ Goes(d, "smoke") /\ inPlace' = inPlace \ {Target(d)}
        /\ store' = [store EXCEPT ![Target(d)] = "built"]
    BY <1>8 DEF BuildEnds
  <2>2. store' \in [Releases -> Dirs] /\ inPlace' \subseteq Releases
    BY <1>2, <2>1 DEF Dirs
  <2>3. \A r \in Releases : Whole(r) => Whole(r)'
    BY <1>2, <2>1 DEF Whole
  <2> QED BY <1>1, <1>3, <2>1, <2>2, <2>3, GoKeeps
<1> QED BY <1>5, <1>6, <1>7, <1>8

LEMMA BeginKeeps ==
  ASSUME IInv, NEW d \in Deployers, Begin(d)
  PROVE  IInv'
<1>1. PICK r \in Releases, force \in BOOLEAN :
        deploy' = [deploy EXCEPT ![d] =
          [Out EXCEPT !.pc = "build", !.release = r, !.force = force]]
  BY DEF Begin
<1> DEFINE x == [Out EXCEPT !.pc = "build", !.release = r, !.force = force]
<1>2. /\ x \in Deploys /\ x.pc = "build" /\ x.release = r /\ x.doomed = {}
  BY DEF Out, Deploys
<1>3. deploy' = [deploy EXCEPT ![d] = x]
  BY <1>1
<1> HIDE DEF x
<1>4. \A e \in Deployers : deploy[e] = Out
  BY DeployAssumption DEF Begin, IInv, TypeOK
<1>5. deploy'[d] = x
  BY <1>3 DEF IInv, TypeOK
<1>6. DeployerOK(d)'
  BY <1>2, <1>5 DEF DeployerOK
<1>7. /\ UNCHANGED <<fleetVars, store, client, rollback, inPlace>>
      /\ lock' = d /\ deploys' \in 0 .. MaxDeploys
  BY DeployAssumption DEF Begin, IInv, TypeOK
<1>8. FleetTypeOK' /\ job' = job /\ UNCHANGED <<current, proc>>
  BY <1>7 DEF IInv, TypeOK, FleetTypeOK, fleetVars
<1>9. job[d] = Idle
  BY <1>4 DEF IInv, TypeOK, Out
<1>10. x.pc # "out" /\ x.release # None
  BY <1>2, FleetAssumption
<1>11. \A r2 \in (InUse \ {None}) \cup {current', rollback'} : Whole(r2)'
  BY <1>7, <1>8 DEF IInv, InUseKept, CurrentWhole, RollbackKept, Whole
<1> QED BY <1>2, <1>3, <1>4, <1>6, <1>7, <1>8, <1>9, <1>10, <1>11, DeployKeeps DEF IInv, TypeOK

LEMMA FlipKeeps ==
  ASSUME IInv, NEW d \in Deployers, Flip(d)
  PROVE  IInv'
<1> DEFINE x == [deploy[d] EXCEPT !.pc = "flipped", !.previous = current]
<1>1. /\ deploy[d] \in Deploys /\ deploy[d].release \in Releases /\ deploy[d].release # None
      /\ lock = d /\ \A e \in Deployers : e # d => deploy[e] = Out
      /\ deploy[d].pc = "smoke" /\ deploy[d].doomed = {} /\ job[d] = Idle
  BY Alone DEF IInv, Flip, DeployerOK, TypeOK
<1>2. /\ current' = deploy[d].release /\ rollback' = current
      /\ store[deploy[d].release] = "built"
      /\ UNCHANGED <<proc, pidfile, job, watch, misses, faults>>
      /\ UNCHANGED <<store, lock, client, inPlace, deploys>>
  BY DEF Flip, Target
<1>3. /\ x \in Deploys /\ x.pc = "flipped" /\ x.release = deploy[d].release
      /\ x.previous = current /\ x.doomed = {}
  BY <1>1 DEF Deploys, IInv, TypeOK, FleetTypeOK
<1>4. deploy' = [deploy EXCEPT ![d] = x] /\ deploy'[d] = x
  BY DEF Flip, IInv, TypeOK
<1> HIDE DEF x
<1>5. FleetTypeOK' /\ current \in Releases
  BY <1>1, <1>2 DEF IInv, TypeOK, FleetTypeOK
<1>6. DeployerOK(d)'
  BY <1>2, <1>3, <1>4 DEF DeployerOK
<1>7. \A r \in (InUse \ {None}) \cup {current', rollback'} : Whole(r)'
  BY <1>2 DEF IInv, InUseKept, CurrentWhole, RollbackKept, Whole
<1>8. x.pc # "out" /\ x.release # None /\ lock' = d
  BY <1>1, <1>2, <1>3
<1> QED BY <1>1, <1>2, <1>3, <1>4, <1>5, <1>6, <1>7, <1>8, DeployKeeps DEF IInv, TypeOK

LEMMA RestartKeeps ==
  ASSUME IInv, NEW d \in Deployers, Restart(d) \/ SkipRestart(d) \/ Restarted(d)
  PROVE  IInv'
<1>1. PICK pc \in {"restarting", "reaping"}, j \in {RestartJob(TRUE), ReapJob} :
        Goes(d, pc) /\ job' = [job EXCEPT ![d] = j]
  BY DEF Restart, SkipRestart, Restarted
<1>2. j \in Jobs
  BY DEF Jobs, RestartJob, StartJob, ReapJob, Idle
<1>3. /\ UNCHANGED <<current, proc, pidfile, watch, misses, faults>>
      /\ UNCHANGED <<store, client, rollback, inPlace, deploys>>
      /\ deploy[d].pc \in {"flipped", "restarting"}
  BY DEF Restart, SkipRestart, Restarted
<1>4. FleetTypeOK' /\ \A e \in Deployers : e # d => job'[e] = job[e]
  BY <1>1, <1>2, <1>3 DEF IInv, TypeOK, FleetTypeOK, Runners
<1>5. store' \in [Releases -> Dirs] /\ inPlace' \subseteq Releases
      /\ \A r \in Releases : Whole(r) => Whole(r)'
  BY <1>3 DEF IInv, TypeOK, Whole
<1> QED BY <1>1, <1>3, <1>4, <1>5, GoKeeps

LEMMA PlanKeeps ==
  ASSUME IInv, NEW d \in Deployers, Plan(d)
  PROVE  IInv'
<1>1. PICK kept \in SUBSET {r \in Releases : store[r] # "absent"} :
        deploy' = [deploy EXCEPT ![d] = [@ EXCEPT !.pc = "gc", !.doomed = Doomed(d, kept)]]
  BY DEF Plan
<1> DEFINE x == [deploy[d] EXCEPT !.pc = "gc", !.doomed = Doomed(d, kept)]
<1>2. /\ deploy[d] \in Deploys /\ deploy[d].release \in Releases /\ deploy[d].release # None
      /\ lock = d /\ \A e \in Deployers : e # d => deploy[e] = Out
      /\ deploy[d].pc = "reaping" /\ job[d] = Idle
  BY Alone DEF IInv, Plan
<1>3. /\ UNCHANGED <<fleetVars, store, lock, client, rollback, inPlace, deploys>>
      /\ UNCHANGED <<current, proc, job>> /\ InUse' = InUse
  BY DEF Plan, fleetVars, InUse, Alive
<1>4. Doomed(d, kept) \in SUBSET Releases
      /\ Doomed(d, kept) \cap ({current, deploy[d].previous} \cup InUse) = {}
  BY DEF Doomed
<1>5. /\ x \in Deploys /\ x.pc = "gc" /\ x.release = deploy[d].release
      /\ x.previous = deploy[d].previous /\ x.doomed = Doomed(d, kept)
  BY <1>2, <1>4 DEF Deploys
<1>6. deploy' = [deploy EXCEPT ![d] = x] /\ deploy'[d] = x
  BY <1>1 DEF IInv, TypeOK
<1> HIDE DEF x
<1>7. current = deploy[d].release /\ rollback = deploy[d].previous
  BY <1>2 DEF IInv, DeployerOK
<1>8. DeployerOK(d)'
  BY <1>3, <1>4, <1>5, <1>6, <1>7 DEF DeployerOK
<1>9. FleetTypeOK'
  BY <1>3 DEF IInv, TypeOK, FleetTypeOK, fleetVars
<1>10. \A r \in (InUse \ {None}) \cup {current', rollback'} : Whole(r)'
  BY <1>3 DEF IInv, InUseKept, CurrentWhole, RollbackKept, Whole
<1>11. x.pc # "out" /\ x.release # None /\ lock' = d
  BY <1>2, <1>3, <1>5
<1> QED BY <1>2, <1>3, <1>5, <1>6, <1>8, <1>9, <1>10, <1>11, DeployKeeps DEF IInv, TypeOK

LEMMA DeleteKeeps ==
  ASSUME IInv, NEW d \in Deployers, Delete(d) \/ DeletePartly(d)
  PROVE  IInv'
<1>1. PICK r \in deploy[d].doomed :
        /\ store' \in {[store EXCEPT ![r] = "absent"],
                       [store EXCEPT ![r] = IF store[r] = "built" THEN "gutted" ELSE store[r]]}
        /\ deploy' = [deploy EXCEPT ![d] = [deploy[d] EXCEPT !.doomed = @ \ {r}]]
  BY DEF Delete, DeletePartly
<1> DEFINE x == [deploy[d] EXCEPT !.doomed = @ \ {r}]
<1>2. /\ deploy[d] \in Deploys /\ deploy[d].release \in Releases /\ deploy[d].release # None
      /\ lock = d /\ \A e \in Deployers : e # d => deploy[e] = Out
      /\ deploy[d].pc = "gc" /\ job[d] = Idle
  BY Alone DEF IInv, Delete, DeletePartly, TypeOK
<1>3. /\ UNCHANGED <<current, proc, pidfile, job, watch, misses>>
      /\ UNCHANGED <<lock, client, rollback, inPlace, deploys>> /\ InUse' = InUse
  BY DEF Delete, DeletePartly, fleetVars, InUse, Alive
<1>4. faults' \in 0 .. MaxFaults
  BY FaultCounts DEF Delete, DeletePartly, fleetVars, IInv, TypeOK, FleetTypeOK
<1>5. FleetTypeOK'
  BY <1>3, <1>4 DEF IInv, TypeOK, FleetTypeOK
<1>6. /\ x \in Deploys /\ x.pc = "gc" /\ x.release = deploy[d].release
      /\ x.previous = deploy[d].previous /\ x.doomed \subseteq deploy[d].doomed
  BY <1>2 DEF Deploys
<1>7. deploy' = [deploy EXCEPT ![d] = x] /\ deploy'[d] = x
  BY <1>1 DEF IInv, TypeOK
<1> HIDE DEF x
<1>8. r \in Releases /\ r \notin {current, rollback} \cup InUse
  BY <1>1, <1>2 DEF IInv, DeployerOK, Deploys
<1>9. store' \in [Releases -> Dirs] /\ \A q \in Releases : q # r => store'[q] = store[q]
  BY <1>1, <1>8 DEF IInv, TypeOK, Dirs
<1>10. DeployerOK(d)'
  BY <1>2, <1>3, <1>6, <1>7 DEF IInv, DeployerOK
<1>11. InUse \subseteq Releases \cup {None} /\ current \in Releases /\ rollback \in Releases
  BY DEF IInv, InUse, TypeOK, FleetTypeOK, Alive, Processes
<1>12. \A q \in (InUse \ {None}) \cup {current', rollback'} : Whole(q)'
  BY <1>3, <1>8, <1>9, <1>11 DEF IInv, InUseKept, CurrentWhole, RollbackKept, Whole
<1>13. x.pc # "out" /\ x.release # None /\ lock' = d
  BY <1>2, <1>3, <1>6
<1> QED BY <1>2, <1>3, <1>5, <1>6, <1>7, <1>9, <1>10, <1>12, <1>13, DeployKeeps DEF IInv, TypeOK

LEMMA NextKeeps ==
  ASSUME IInv, [Next]_vars
  PROVE  IInv'
<1>1. CASE FleetMoves
  BY <1>1, RestKeeps DEF FleetMoves, deployVars, Next
<1>2. ASSUME NEW c \in Clients, ClientStarts(c) \/ ClientExits(c) PROVE IInv'
  <2>1. UNCHANGED <<store, lock, deploy, rollback, inPlace, deploys>>
    BY <1>2 DEF ClientStarts, ClientExits
  <2> QED BY <1>2, <2>1, RestKeeps DEF Next
<1>3. ASSUME NEW d \in Deployers, DeployStep(d) PROVE IInv'
  BY <1>3, BeginKeeps, BuildKeeps, EndsKeep, FlipKeeps, RestartKeeps, PlanKeeps, DeleteKeeps
     DEF DeployStep
<1>4. CASE UNCHANGED vars
  BY <1>4 DEF vars, fleetVars, deployVars, IInv, TypeOK, FleetTypeOK, DeployerOK,
              InUseKept, CurrentWhole, RollbackKept, Whole, InUse, Alive
<1> QED BY <1>1, <1>2, <1>3, <1>4 DEF Next

-----------------------------------------------------------------------------
(* The debounce.                                                           *)

\* Whatever is in a watcher's debounce file failed its last poll.
Noted == \A w \in Watchers : \A s \in watch[w] : misses[w][s] # 0

\* What TwoStrikes says of one watcher.
Gives(w) ==
  job[w] = Idle /\ job'[w] # Idle => \E s \in Servers : misses'[w][s] = 2

LEMMA PollStrikes ==
  ASSUME FleetTypeOK, Noted, NEW w \in Watchers, Poll(w)
  PROVE  Noted' /\ \A v \in Watchers : Gives(v)
<1>1. PICK wrong \in SUBSET Servers :
        LET bad == {s \in Servers : ~Served(s)} \cup wrong IN
        /\ watch' = [watch EXCEPT ![w] = bad]
        /\ job' = [job EXCEPT ![w] = IF bad \cap watch[w] # {} THEN Repair ELSE @]
        /\ misses' = [misses EXCEPT ![w] = [s \in Servers |->
             IF s \notin bad THEN 0 ELSE IF @[s] = 2 THEN 2 ELSE @[s] + 1]]
  BY DEF Poll, Decide
<1> DEFINE bad == {s \in Servers : ~Served(s)} \cup wrong
           m == [s \in Servers |->
             IF s \notin bad THEN 0 ELSE IF misses[w][s] = 2 THEN 2 ELSE misses[w][s] + 1]
<1>2. /\ watch' = [watch EXCEPT ![w] = bad] /\ misses' = [misses EXCEPT ![w] = m]
      /\ job' = [job EXCEPT ![w] = IF bad \cap watch[w] # {} THEN Repair ELSE job[w]]
  BY <1>1
<1>3. bad \subseteq Servers
  OBVIOUS
<1>4. \A s \in bad : m[s] # 0 /\ (s \in watch[w] => m[s] = 2)
  <2>1. \A s \in bad : misses[w][s] \in 0 .. 2
    BY <1>3 DEF FleetTypeOK
  <2>2. \A s \in bad : s \in watch[w] => misses[w][s] # 0
    BY DEF Noted
  <2> HIDE DEF bad
  <2> QED BY <1>3, <2>1, <2>2
<1> HIDE DEF bad, m
<1>5. w \in Runners /\ \A v \in Watchers : v \in Runners
  BY DEF Runners
<1>6. \A v \in Watchers : IF v = w THEN watch'[v] = bad /\ misses'[v] = m
                          ELSE watch'[v] = watch[v] /\ misses'[v] = misses[v]
  BY <1>2 DEF FleetTypeOK
<1>7. Noted'
  BY <1>4, <1>6 DEF Noted
<1>8. \A v \in Watchers : v # w \/ bad \cap watch[w] = {} => job'[v] = job[v]
  BY <1>2, <1>5 DEF FleetTypeOK
<1>9. \A v \in Watchers : Gives(v)
  BY <1>3, <1>4, <1>6, <1>8 DEF Gives
<1> QED BY <1>7, <1>9

\* No other step touches a debounce file or gives an idle watcher a command.
LEMMA OthersStrikeNothing ==
  ASSUME TypeOK, [Next]_vars, \A w \in Watchers : ~Poll(w)
  PROVE  /\ UNCHANGED <<watch, misses>>
         /\ \A v \in Watchers : job[v] = Idle => job'[v] = Idle
<1>1. \A v \in Watchers : v \in Runners /\ v \notin Deployers
  BY FleetAssumption DEF Runners
<1>2. ASSUME NEW r \in Runners, NEW releases,
             CommandStep(r, releases) \/ SpawnFails(r) \/ ReapFails(r)
      PROVE  /\ UNCHANGED <<watch, misses>> /\ job[r] # Idle
             /\ \A q \in Runners : q # r => job'[q] = job[q]
  <2>1. job \in [Runners -> Jobs]
    BY DEF TypeOK, FleetTypeOK
  <2>2. job[r].pc # "idle" /\ UNCHANGED <<watch, misses>>
    BY <1>2 DEF CommandStep, StopRecorded, UnlinkPidfile, ReclaimPort, CheckRecorded, Spawn,
       RecordPid, ReapScan, ReapOne, ReapEnds, SpawnFails, ReapFails
  <2>3. ASSUME NEW q \in Runners, q # r PROVE job'[q] = job[q]
    <3>1. CASE StopRecorded(r)
      BY <2>1, <2>3, <3>1 DEF StopRecorded
    <3>2. CASE UnlinkPidfile(r)
      BY <2>1, <2>3, <3>2 DEF UnlinkPidfile
    <3>3. CASE ReclaimPort(r)
      BY <2>1, <2>3, <3>3 DEF ReclaimPort
    <3>4. CASE CheckRecorded(r)
      BY <2>1, <2>3, <3>4 DEF CheckRecorded
    <3>5. CASE RecordPid(r) \/ SpawnFails(r)
      BY <2>1, <2>3, <3>5 DEF RecordPid, SpawnFails
    <3>6. CASE Spawn(r, releases)
      BY <2>1, <2>3, <3>6 DEF Spawn
    <3>7. CASE ReapScan(r) \/ ReapEnds(r)
      BY <2>1, <2>3, <3>7 DEF ReapScan, ReapEnds
    <3>8. CASE ReapOne(r) \/ ReapFails(r)
      BY <2>1, <2>3, <3>8 DEF ReapOne, ReapFails
    <3> QED BY <1>2, <3>1, <3>2, <3>3, <3>4, <3>5, <3>6, <3>7, <3>8 DEF CommandStep
  <2> QED BY <2>2, <2>3 DEF Idle
<1>3. CASE FleetMoves
  <2>1. ASSUME NEW i \in Pids, Bind(i) \/ ServerFails(i)
        PROVE  UNCHANGED <<watch, misses, job>>
    BY <2>1 DEF Bind, ServerFails
  <2>2. ASSUME NEW w \in Watchers, WatcherDies(w) \/ RestartRefused(w)
        PROVE  /\ UNCHANGED <<watch, misses>> /\ job[w] # Idle
               /\ \A q \in Runners : q # w => job'[q] = job[q]
    <3>1. UNCHANGED <<watch, misses>>
      BY <2>2 DEF WatcherDies, RestartRefused
    <3>2. job[w] # Idle
      <4>1. RestartJob(FALSE).pc = "kill" /\ Idle.pc = "idle"
        BY DEF RestartJob, StartJob, Idle
      <4> QED BY <2>2, <4>1 DEF WatcherDies, RestartRefused
    <3>3. \A q \in Runners : q # w => job'[q] = job[q]
      BY <2>2 DEF WatcherDies, RestartRefused, TypeOK, FleetTypeOK
    <3> QED BY <3>1, <3>2, <3>3
  <2> QED BY <1>1, <1>2, <1>3, <2>1, <2>2 DEF FleetMoves, FleetNext
<1>4. ASSUME NEW d \in Deployers, DeployStep(d)
      PROVE  UNCHANGED <<watch, misses>> /\ \A v \in Watchers : job'[v] = job[v]
  <2>1. CASE \/ Begin(d) \/ SkipBuild(d) \/ Wipe(d) \/ Install(d) \/ BuildEnds(d)
             \/ BuildFails(d) \/ SmokeFails(d) \/ VerifyFails(d) \/ RestartFails(d)
             \/ Plan(d) \/ Delete(d) \/ DeployEnds(d) \/ Flip(d) \/ DeletePartly(d)
    BY <2>1 DEF Begin, SkipBuild, Wipe, Install, BuildEnds, BuildFails, SmokeFails,
       VerifyFails, RestartFails, Plan, Delete, DeployEnds, Flip, DeletePartly, fleetVars
  <2>2. CASE Restart(d) \/ SkipRestart(d) \/ Restarted(d) \/ ReapRefused(d) \/ Kill(d)
    BY <1>1, <2>2 DEF Restart, SkipRestart, Restarted, ReapRefused, Kill, TypeOK, FleetTypeOK
  <2> QED BY <1>4, <2>1, <2>2 DEF DeployStep
<1>5. CASE UNCHANGED vars
  BY <1>5 DEF vars, fleetVars
<1>6. ASSUME NEW c \in Clients, ClientStarts(c) \/ ClientExits(c)
      PROVE  UNCHANGED <<watch, misses, job>>
  BY <1>6 DEF ClientStarts, ClientExits, fleetVars
<1> QED BY <1>3, <1>4, <1>5, <1>6 DEF Next

LEMMA StrikesKeep ==
  ASSUME TypeOK, Noted, [Next]_vars
  PROVE  Noted' /\ \A v \in Watchers : Gives(v)
<1>1. CASE \A w \in Watchers : ~Poll(w)
  BY <1>1, OthersStrikeNothing DEF Noted, Gives
<1> QED BY <1>1, PollStrikes DEF TypeOK

-----------------------------------------------------------------------------
(* The reap.                                                               *)

\* What a process is by then: the one it was, or one with a pid nobody knew.
Recognised ==
  \A i \in Pids : proc'[i] # None =>
    \/ proc[i] # None /\ proc'[i].release = proc[i].release
    \/ i \in Unused

FewerStrays == \A d \in Deployers : job'[d].strays \subseteq job[d].strays

\* Strays stay superseded while current stays and no reap adds to them.
LEMMA StraysStay ==
  ASSUME TypeOK, StraysSuperseded, current' = current, Recognised, FewerStrays
  PROVE  StraysSuperseded'
<1> SUFFICES ASSUME NEW d \in Deployers, NEW i \in job'[d].strays, proc'[i] # None
             PROVE  proc'[i].release # current
  BY DEF StraysSuperseded, Alive
<1>1. d \in Runners /\ i \in job[d].strays
  BY DEF FewerStrays, Runners
<1>2. i \in Pids /\ i \notin Unused /\ i # None
  BY <1>1, FleetAssumption DEF TypeOK, FleetTypeOK, Jobs, Unused, Pids
<1> QED BY <1>1, <1>2 DEF Recognised, StraysSuperseded, Alive

LEMMA TurnedStrays ==
  ASSUME NEW j \in Jobs
  PROVE  Turned(j).strays \subseteq j.strays
BY DEF Turned, StartJob, Idle, Jobs

\* A command that changes one job, and only takes from its strays.
LEMMA OneJob ==
  ASSUME FleetTypeOK, NEW r \in Runners, NEW j, job' = [job EXCEPT ![r] = j],
         j.strays \subseteq job[r].strays
  PROVE  FewerStrays
<1> SUFFICES ASSUME NEW d \in Deployers PROVE job'[d].strays \subseteq job[d].strays
  BY DEF FewerStrays
<1>1. d \in Runners
  BY DEF Runners
<1> QED BY <1>1 DEF FleetTypeOK

\* Processes that only end are the ones they were.
LEMMA EndsRecognised ==
  ASSUME FleetTypeOK, proc' = proc \/ \E i \in Pids : proc' = [proc EXCEPT ![i] = None]
  PROVE  Recognised
BY DEF FleetTypeOK, Recognised

LEMMA CommandStrays ==
  ASSUME FleetTypeOK, NEW r \in Runners, NEW releases,
         \/ CommandStep(r, releases) \/ SpawnFails(r) \/ ReapFails(r),
         ~ReapScan(r)
  PROVE  Recognised /\ FewerStrays
<1>1. job[r] \in Jobs
  BY DEF FleetTypeOK
<1>2. CASE StopRecorded(r)
  <2>1. PICK s : /\ s \in IF job[r].phase = "stop" THEN job[r].todo ELSE {job[r].at}
                 /\ job' = [job EXCEPT ![r] =
                      [job[r] EXCEPT !.pc = "unlink", !.at = s, !.todo = @ \ {s},
                                     !.pid = pidfile[s]]]
                 /\ proc' = IF Alive(pidfile[s]) THEN [proc EXCEPT ![pidfile[s]] = None] ELSE proc
    BY <1>2 DEF StopRecorded
  <2> DEFINE j == [job[r] EXCEPT !.pc = "unlink", !.at = s, !.todo = @ \ {s}, !.pid = pidfile[s]]
  <2>2. job' = [job EXCEPT ![r] = j] /\ j.strays \subseteq job[r].strays
    BY <1>1, <2>1 DEF Jobs
  <2>3. s \in Servers
    BY <1>1, <1>2, <2>1 DEF Jobs, StopRecorded
  <2>4. pidfile[s] \in Pids \cup {None}
    BY <2>3 DEF FleetTypeOK
  <2>5. Recognised
    BY <2>1, <2>4, EndsRecognised DEF Alive
  <2> HIDE DEF j
  <2> QED BY <2>2, <2>5, OneJob
<1>3. CASE UnlinkPidfile(r)
  <2> DEFINE j == [job[r] EXCEPT !.pc = "reclaim"]
  <2>1. job' = [job EXCEPT ![r] = j] /\ j.strays \subseteq job[r].strays /\ proc' = proc
    BY <1>1, <1>3 DEF Jobs, UnlinkPidfile
  <2> HIDE DEF j
  <2> QED BY <2>1, OneJob, EndsRecognised
<1>4. CASE ReclaimPort(r)
  <2> DEFINE j == IF job[r].phase = "stop" THEN Turned(job[r])
                  ELSE [job[r] EXCEPT !.pc = "spawn", !.pid = None]
  <2>1. job' = [job EXCEPT ![r] = j]
    BY <1>4 DEF ReclaimPort
  <2>2. [job[r] EXCEPT !.pc = "spawn", !.pid = None].strays = job[r].strays
    BY <1>1 DEF Jobs
  <2>3. j.strays \subseteq job[r].strays
    BY <1>1, <2>2, TurnedStrays
  <2>4. proc' = proc \/ \E i \in Pids : proc' = [proc EXCEPT ![i] = None]
    BY <1>4 DEF ReclaimPort, Owners
  <2> HIDE DEF j
  <2> QED BY <2>1, <2>3, <2>4, OneJob, EndsRecognised
<1>5. CASE CheckRecorded(r)
  <2>1. PICK s \in job[r].todo :
          job' = [job EXCEPT ![r] =
            LET j == [job[r] EXCEPT !.at = s, !.todo = @ \ {s}] IN
            IF ~Alive(pidfile[s]) THEN [j EXCEPT !.pc = "spawn"]
            ELSE IF j.force THEN [j EXCEPT !.pc = "kill"] ELSE Turned(j)]
    BY <1>5 DEF CheckRecorded
  <2> DEFINE j == [job[r] EXCEPT !.at = s, !.todo = @ \ {s}]
             next == IF ~Alive(pidfile[s]) THEN [j EXCEPT !.pc = "spawn"]
                     ELSE IF j.force THEN [j EXCEPT !.pc = "kill"] ELSE Turned(j)
  <2>2. j \in Jobs /\ j.strays = job[r].strays
    BY <1>1, <1>5, <2>1 DEF Jobs, CheckRecorded
  <2>3. job' = [job EXCEPT ![r] = next]
    BY <2>1
  <2> HIDE DEF j
  <2>4. next.strays \subseteq job[r].strays
    <3>1. [j EXCEPT !.pc = "spawn"].strays = j.strays
          /\ [j EXCEPT !.pc = "kill"].strays = j.strays
      BY <2>2 DEF Jobs
    <3> QED BY <2>2, <3>1, TurnedStrays
  <2>5. proc' = proc
    BY <1>5 DEF CheckRecorded
  <2> HIDE DEF next
  <2> QED BY <2>3, <2>4, <2>5, OneJob, EndsRecognised
<1>6. CASE Spawn(r, releases)
  <2>1. PICK i \in Unused, release \in releases :
          /\ proc' = [proc EXCEPT ![i] =
               [server |-> job[r].at, release |-> release, state |-> "starting"]]
          /\ job' = [job EXCEPT ![r] = [job[r] EXCEPT !.pc = "record", !.pid = i]]
    BY <1>6 DEF Spawn
  <2> DEFINE j == [job[r] EXCEPT !.pc = "record", !.pid = i]
  <2>2. job' = [job EXCEPT ![r] = j] /\ j.strays \subseteq job[r].strays
    BY <1>1, <2>1 DEF Jobs
  <2>3. Recognised
    BY <2>1 DEF FleetTypeOK, Recognised
  <2> HIDE DEF j
  <2> QED BY <2>2, <2>3, OneJob
<1>7. CASE RecordPid(r) \/ SpawnFails(r)
  <2>1. job' = [job EXCEPT ![r] = Turned(job[r])] /\ proc' = proc
    BY <1>7 DEF RecordPid, SpawnFails
  <2> QED BY <1>1, <2>1, TurnedStrays, OneJob, EndsRecognised
<1>8. CASE ReapOne(r)
  <2>1. PICK i \in job[r].strays :
          /\ job' = [job EXCEPT ![r] = [job[r] EXCEPT !.strays = @ \ {i},
                                                     !.ok = @ /\ Alive(i)]]
          /\ proc' = [proc EXCEPT ![i] = None]
    BY <1>8 DEF ReapOne
  <2> DEFINE j == [job[r] EXCEPT !.strays = @ \ {i}, !.ok = @ /\ Alive(i)]
  <2>2. job' = [job EXCEPT ![r] = j] /\ j.strays \subseteq job[r].strays /\ i \in Pids
    BY <1>1, <2>1 DEF Jobs
  <2> HIDE DEF j
  <2> QED BY <2>1, <2>2, OneJob, EndsRecognised
<1>9. CASE ReapFails(r)
  <2>1. PICK i \in job[r].strays :
          job' = [job EXCEPT ![r] = [job[r] EXCEPT !.strays = @ \ {i}, !.ok = FALSE]]
    BY <1>9 DEF ReapFails
  <2> DEFINE j == [job[r] EXCEPT !.strays = @ \ {i}, !.ok = FALSE]
  <2>2. job' = [job EXCEPT ![r] = j] /\ j.strays \subseteq job[r].strays /\ proc' = proc
    BY <1>1, <1>9, <2>1 DEF Jobs, ReapFails
  <2> HIDE DEF j
  <2> QED BY <2>2, OneJob, EndsRecognised
<1>10. CASE ReapEnds(r)
  <2> DEFINE j == [Idle EXCEPT !.ok = job[r].ok]
  <2>1. job' = [job EXCEPT ![r] = j] /\ j.strays \subseteq job[r].strays /\ proc' = proc
    BY <1>10 DEF Idle, ReapEnds
  <2> HIDE DEF j
  <2> QED BY <2>1, OneJob, EndsRecognised
<1> QED BY <1>2, <1>3, <1>4, <1>5, <1>6, <1>7, <1>8, <1>9, <1>10 DEF CommandStep

LEMMA ScanStrays ==
  ASSUME TypeOK, StraysSuperseded, NEW r \in Runners, ReapScan(r)
  PROVE  StraysSuperseded'
<1> DEFINE found == Strays({pidfile[s] : s \in Servers})
<1>1. job' = [job EXCEPT ![r] = [job[r] EXCEPT !.pc = "reap", !.strays = found]]
      /\ UNCHANGED <<current, proc>>
  BY DEF ReapScan
<1>2. \A i \in found : proc[i].release # current
  BY DEF Strays
<1> HIDE DEF found
<1>3. \A d \in Deployers : job'[d].strays \in {job[d].strays, found}
  BY <1>1 DEF TypeOK, FleetTypeOK, Jobs, Runners
<1> QED BY <1>1, <1>2, <1>3 DEF StraysSuperseded, Alive

LEMMA FleetStrays ==
  ASSUME TypeOK, StraysSuperseded, FleetMoves
  PROVE  StraysSuperseded'
<1>1. Runnable \in SUBSET (Releases \cup {None})
  BY DEF Runnable, TypeOK, FleetTypeOK
<1>2. current' = current
  BY <1>1, FleetStepKeeps DEF FleetMoves, TypeOK, FleetKeeps
<1>3. ASSUME NEW i \in Pids, Bind(i) \/ ServerFails(i) PROVE StraysSuperseded'
  <2>1. FewerStrays
    BY <1>3 DEF Bind, ServerFails, FewerStrays
  <2>2. /\ proc' = [proc EXCEPT ![i] = None]
           \/ \E st \in {"up", "hung"} : proc' = [proc EXCEPT ![i] = [@ EXCEPT !.state = st]]
        /\ proc[i] \in Processes /\ proc[i] # None
    BY <1>3 DEF Bind, ServerFails, Alive, TypeOK, FleetTypeOK
  <2>3. Recognised
    <3>1. CASE proc' = [proc EXCEPT ![i] = None]
      BY <3>1, EndsRecognised DEF TypeOK
    <3>2. ASSUME NEW st, proc' = [proc EXCEPT ![i] = [@ EXCEPT !.state = st]] PROVE Recognised
      BY <2>2, <3>2 DEF Recognised, TypeOK, FleetTypeOK, Processes
    <3> QED BY <2>2, <3>1, <3>2
  <2> QED BY <1>2, <2>1, <2>3, StraysStay
<1>4. ASSUME NEW r \in Runners, CommandStep(r, Runnable) \/ SpawnFails(r) \/ ReapFails(r)
      PROVE  StraysSuperseded'
  BY <1>2, <1>4, CommandStrays, ScanStrays, StraysStay DEF TypeOK
<1>5. ASSUME NEW w \in Watchers, Poll(w) \/ WatcherDies(w) \/ RestartRefused(w)
      PROVE  StraysSuperseded'
  <2>1. \A d \in Deployers : d # w /\ d \in Runners
    BY FleetAssumption DEF Runners
  <2>2. \E j : job' = [job EXCEPT ![w] = j]
    <3>1. CASE Poll(w)
      <4>1. PICK bad : job' = [job EXCEPT ![w] = IF bad \cap watch[w] # {} THEN Repair ELSE @]
        BY <3>1 DEF Poll, Decide
      <4> QED BY <4>1
    <3>2. CASE WatcherDies(w) \/ RestartRefused(w)
      BY <3>2 DEF WatcherDies, RestartRefused
    <3> QED BY <1>5, <3>1, <3>2
  <2>3. FewerStrays
    BY <2>1, <2>2 DEF FewerStrays, TypeOK, FleetTypeOK
  <2>4. proc' = proc
    BY <1>5 DEF Poll, WatcherDies, RestartRefused
  <2> QED BY <1>2, <2>3, <2>4, StraysStay, EndsRecognised DEF TypeOK
<1> QED BY <1>3, <1>4, <1>5 DEF FleetMoves, FleetNext

\* Whoever flips is alone in a deploy, and nobody is reaping.
LEMMA FlipStrays ==
  ASSUME TypeOK, NEW d \in Deployers, Flip(d)
  PROVE  StraysSuperseded'
<1>1. \A e \in Deployers : deploy[e].pc \notin {"restarting", "reaping"}
  BY Alone DEF Flip, Out
<1>2. \A e \in Deployers : job'[e] = Idle
  BY <1>1 DEF TypeOK, Flip
<1> QED BY <1>2 DEF StraysSuperseded, Idle

LEMMA StraysKeep ==
  ASSUME TypeOK, StraysSuperseded, [Next]_vars
  PROVE  StraysSuperseded'
<1>1. ASSUME NEW d \in Deployers, DeployStep(d), ~Flip(d) PROVE StraysSuperseded'
  <2>1. UNCHANGED <<current, proc>>
    BY <1>1 DEF DeployStep, Begin, SkipBuild, Wipe, Install, BuildEnds, BuildFails, SmokeFails,
       VerifyFails, Restart, SkipRestart, Restarted, RestartFails, ReapRefused, Plan, Delete,
       DeletePartly, DeployEnds, Kill, fleetVars
  <2>2. FewerStrays
    <3>1. CASE \/ Begin(d) \/ SkipBuild(d) \/ Wipe(d) \/ Install(d) \/ BuildEnds(d)
               \/ BuildFails(d) \/ SmokeFails(d) \/ VerifyFails(d) \/ RestartFails(d)
               \/ Plan(d) \/ Delete(d) \/ DeployEnds(d) \/ DeletePartly(d)
      <4>1. job' = job
        BY <3>1 DEF Begin, SkipBuild, Wipe, Install, BuildEnds, BuildFails, SmokeFails,
           VerifyFails, RestartFails, Plan, Delete, DeployEnds, DeletePartly, fleetVars
      <4> QED BY <4>1 DEF FewerStrays
    <3>2. CASE Restart(d) \/ SkipRestart(d) \/ Restarted(d) \/ ReapRefused(d) \/ Kill(d)
      <4>1. \E j \in {RestartJob(TRUE), ReapJob, Idle} : job' = [job EXCEPT ![d] = j]
        BY <3>2 DEF Restart, SkipRestart, Restarted, ReapRefused, Kill
      <4>2. \A j \in {RestartJob(TRUE), ReapJob, Idle} : j.strays = {}
        <5>1. Idle \in Jobs /\ Idle.strays = {}
          BY DEF Idle, Jobs
        <5>2. ReapJob.strays = {}
          BY <5>1 DEF ReapJob, Jobs
        <5>3. StartJob(TRUE) \in Jobs /\ StartJob(TRUE).strays = {}
          BY <5>1 DEF StartJob, Jobs
        <5>4. RestartJob(TRUE).strays = {}
          BY <5>3 DEF RestartJob, Jobs
        <5> QED BY <5>1, <5>2, <5>4
      <4>3. d \in Runners
        BY DEF Runners
      <4> QED BY <4>1, <4>2, <4>3, OneJob DEF TypeOK
    <3> QED BY <1>1, <3>1, <3>2 DEF DeployStep
  <2> QED BY <2>1, <2>2, StraysStay, EndsRecognised DEF TypeOK
<1>2. ASSUME NEW c \in Clients, ClientStarts(c) \/ ClientExits(c) PROVE StraysSuperseded'
  BY <1>2 DEF ClientStarts, ClientExits, fleetVars, StraysSuperseded, Alive
<1>3. CASE UNCHANGED vars
  BY <1>3 DEF vars, fleetVars, StraysSuperseded, Alive
<1> QED BY <1>1, <1>2, <1>3, FleetStrays, FlipStrays DEF Next

-----------------------------------------------------------------------------
(* The promise of ReleaseStore.                                            *)

OneProcess == \E i \in Pids : \A k \in Pids : k # i => proc'[k] = proc[k]

LEMMA ProcessesEnd ==
  ASSUME FleetTypeOK, proc' = proc \/ \E i \in Pids : proc' = [proc EXCEPT ![i] = None]
  PROVE  proc' = proc \/ OneProcess
BY DEF FleetTypeOK, OneProcess

\* A step of the fleet starts or ends one process at most.
LEMMA FleetProcess ==
  ASSUME TypeOK, FleetMoves
  PROVE  Recognised /\ (proc' = proc \/ OneProcess)
<1>1. FleetTypeOK
  BY DEF TypeOK
<1>2. ASSUME NEW i \in Pids, Bind(i) \/ ServerFails(i)
      PROVE  Recognised /\ OneProcess
  <2>1. /\ proc' = [proc EXCEPT ![i] = None]
           \/ \E st \in {"up", "hung"} : proc' = [proc EXCEPT ![i] = [@ EXCEPT !.state = st]]
        /\ proc[i] \in Processes /\ proc[i] # None
    BY <1>2 DEF Bind, ServerFails, Alive, TypeOK, FleetTypeOK
  <2>2. CASE proc' = [proc EXCEPT ![i] = None]
    BY <1>1, <2>2 DEF Recognised, OneProcess, FleetTypeOK
  <2>3. ASSUME NEW st, proc' = [proc EXCEPT ![i] = [@ EXCEPT !.state = st]]
        PROVE  Recognised /\ OneProcess
    BY <1>1, <2>1, <2>3 DEF Recognised, OneProcess, FleetTypeOK, Processes
  <2> QED BY <2>1, <2>2, <2>3
<1>3. ASSUME NEW r \in Runners, CommandStep(r, Runnable) \/ SpawnFails(r) \/ ReapFails(r)
      PROVE  Recognised /\ (proc' = proc \/ OneProcess)
  <2>1. CASE ReapScan(r)
    BY <1>1, <2>1, EndsRecognised DEF ReapScan
  <2>2. CASE StopRecorded(r)
    <3>1. PICK s : /\ s \in IF job[r].phase = "stop" THEN job[r].todo ELSE {job[r].at}
                   /\ proc' = IF Alive(pidfile[s]) THEN [proc EXCEPT ![pidfile[s]] = None] ELSE proc
      BY <2>2 DEF StopRecorded
    <3>2. s \in Servers
      BY <1>1, <2>2, <3>1 DEF Jobs, StopRecorded, FleetTypeOK
    <3>3. pidfile[s] \in Pids \cup {None}
      BY <1>1, <3>2 DEF FleetTypeOK
    <3>4. proc' = proc \/ \E i \in Pids : proc' = [proc EXCEPT ![i] = None]
      BY <3>1, <3>3 DEF Alive
    <3> QED BY <1>1, <3>4, EndsRecognised, ProcessesEnd
  <2>3. CASE ReclaimPort(r)
    <3>1. proc' = proc \/ \E i \in Pids : proc' = [proc EXCEPT ![i] = None]
      BY <2>3 DEF ReclaimPort, Owners
    <3> QED BY <1>1, <3>1, EndsRecognised, ProcessesEnd
  <2>4. CASE Spawn(r, Runnable)
    <3>1. PICK i \in Unused, release \in Runnable :
            proc' = [proc EXCEPT ![i] =
              [server |-> job[r].at, release |-> release, state |-> "starting"]]
      BY <2>4 DEF Spawn
    <3>2. i \in Pids /\ OneProcess
      BY <1>1, <3>1 DEF Unused, FleetTypeOK, OneProcess
    <3>3. Recognised
      BY <1>1, <3>1 DEF FleetTypeOK, Recognised
    <3> QED BY <3>2, <3>3
  <2>5. CASE ReapOne(r)
    <3>1. PICK i \in job[r].strays : proc' = [proc EXCEPT ![i] = None]
      BY <2>5 DEF ReapOne
    <3>2. i \in Pids
      BY <1>1, <3>1 DEF FleetTypeOK, Jobs
    <3> QED BY <1>1, <3>1, <3>2, EndsRecognised, ProcessesEnd
  <2>6. CASE \/ UnlinkPidfile(r) \/ CheckRecorded(r) \/ RecordPid(r) \/ ReapEnds(r)
             \/ SpawnFails(r) \/ ReapFails(r)
    BY <1>1, <2>6, EndsRecognised
       DEF UnlinkPidfile, CheckRecorded, RecordPid, ReapEnds, SpawnFails, ReapFails
  <2> QED BY <1>3, <2>1, <2>2, <2>3, <2>4, <2>5, <2>6 DEF CommandStep
<1>4. ASSUME NEW w \in Watchers, Poll(w) \/ WatcherDies(w) \/ RestartRefused(w)
      PROVE  Recognised /\ proc' = proc
  BY <1>1, <1>4, EndsRecognised DEF Poll, WatcherDies, RestartRefused
<1> QED BY <1>2, <1>3, <1>4 DEF FleetMoves, FleetNext

\* What a step of the fleet or a client does to the releases in use.
UsedStep ==
  \/ Used' = Used
  \/ Used' = Used \cup {current}
  \/ \E r \in Releases : Used' = Used \ {r}

LEMMA UsedMoves ==
  ASSUME IInv, FleetMoves \/ \E c \in Clients : ClientStarts(c) \/ ClientExits(c)
  PROVE  UsedStep
<1>1. TypeOK /\ FleetTypeOK
  BY DEF IInv, TypeOK
<1>2. CASE FleetMoves
  <2>1. Runnable \in SUBSET (Releases \cup {None}) /\ Runnable \subseteq {current, None}
    BY <1>1 DEF Runnable, FleetTypeOK
  <2>2. FleetKeeps(Runnable) /\ Recognised
    BY <1>1, <1>2, <2>1, FleetStepKeeps, FleetProcess DEF FleetMoves
  <2>3. client' = client
    BY <1>2 DEF FleetMoves, deployVars
  <2>4. CASE proc' = proc
    BY <2>3, <2>4 DEF UsedStep, Used, InUse, Alive
  <2>5. ASSUME NEW i \in Pids, \A k \in Pids : k # i => proc'[k] = proc[k]
        PROVE  UsedStep
    <3> DEFINE rest == ({proc[k].release : k \in {j \in Pids : j # i /\ Alive(j)}}
                          \cup {client[c] : c \in Clients}) \ {None}
               mine == IF Alive(i) THEN {proc[i].release} \ {None} ELSE {}
               next == IF Alive(i)' THEN {proc'[i].release} \ {None} ELSE {}
    <3>1. Used = rest \cup mine
      BY DEF Used, InUse
    <3>2. Used' = rest \cup next
      BY <2>3, <2>5 DEF Used, InUse, Alive
    <3>3. mine \in {{}} \cup {{r} : r \in Releases}
      <4>1. Alive(i) => proc[i].release \in Releases \cup {None}
        BY <1>1 DEF Alive, FleetTypeOK, Processes
      <4> QED BY <4>1
    <3>4. next = {} \/ next = mine \/ (mine = {} /\ next = {current})
      <4>1. CASE proc'[i] = None
        BY <4>1 DEF Alive
      <4>2. CASE proc'[i] # None /\ proc[i] # None /\ proc'[i].release = proc[i].release
        BY <4>2 DEF Alive
      <4>3. CASE proc'[i] # None /\ i \in Unused
        <5>1. proc[i] = None /\ i # None
          BY <4>3, FleetAssumption DEF Unused, Alive, Pids
        <5>2. proc'[i].release \in {current, None}
          BY <2>1, <2>2, <4>3, <5>1 DEF FleetKeeps
        <5> QED BY <5>1, <5>2 DEF Alive
      <4> QED BY <2>2, <4>1, <4>2, <4>3 DEF Recognised
    <3> HIDE DEF rest, mine, next
    <3>5. CASE next = mine
      BY <3>1, <3>2, <3>5 DEF UsedStep
    <3>6. CASE mine = {} /\ next = {current}
      BY <3>1, <3>2, <3>6 DEF UsedStep
    <3>7. CASE next = {} /\ mine # {}
      <4>1. PICK r \in Releases : mine = {r}
        BY <3>3, <3>7
      <4>2. Used' = Used \/ Used' = Used \ {r}
        BY <3>1, <3>2, <3>7, <4>1
      <4> QED BY <4>2 DEF UsedStep
    <3> QED BY <3>4, <3>5, <3>6, <3>7
  <2> QED BY <1>1, <1>2, <2>4, <2>5, FleetProcess DEF OneProcess
<1>3. ASSUME NEW c \in Clients, ClientStarts(c) \/ ClientExits(c)
      PROVE  UsedStep
  <2>1. UNCHANGED proc
    BY <1>3 DEF ClientStarts, ClientExits, fleetVars
  <2> DEFINE rest == ({proc[k].release : k \in {j \in Pids : Alive(j)}}
                        \cup {client[k] : k \in Clients \ {c}}) \ {None}
  <2>2. Used = rest \cup ({client[c]} \ {None})
    BY DEF Used, InUse
  <2>3. client[c] \in Releases \cup {None} /\ current \in Releases
    BY <1>1 DEF TypeOK, FleetTypeOK
  <2>4. CASE ClientStarts(c)
    <3>1. client[c] = None /\ client' = [client EXCEPT ![c] = current]
      BY <2>4 DEF ClientStarts
    <3>2. Used' = rest \cup ({current} \ {None})
      BY <1>1, <2>1, <3>1 DEF Used, InUse, Alive, TypeOK
    <3> HIDE DEF rest
    <3>3. current # None
      BY <2>3, FleetAssumption
    <3> QED BY <2>2, <3>1, <3>2, <3>3 DEF UsedStep
  <2>5. CASE ClientExits(c)
    <3>1. client[c] # None /\ client' = [client EXCEPT ![c] = None]
      BY <2>5 DEF ClientExits
    <3>2. Used' = rest
      BY <1>1, <2>1, <3>1 DEF Used, InUse, Alive, TypeOK
    <3> HIDE DEF rest
    <3>3. Used' = Used \/ Used' = Used \ {client[c]}
      BY <2>2, <3>1, <3>2
    <3> QED BY <2>3, <3>1, <3>3 DEF UsedStep
  <2> QED BY <1>3, <2>4, <2>5
<1> QED BY <1>2, <1>3

LEMMA StoreStutters ==
  ASSUME UNCHANGED <<current, rollback>>, Available' = Available, Used' = Used
  PROVE  UNCHANGED Store!vars
BY DEF Store!vars

LEMMA RestImplements ==
  ASSUME IInv, UNCHANGED <<store, rollback, inPlace>>,
         FleetMoves \/ \E c \in Clients : ClientStarts(c) \/ ClientExits(c)
  PROVE  Store!Next \/ UNCHANGED Store!vars
<1>1. current' = current
  <2>1. CASE FleetMoves
    <3>1. Runnable \in SUBSET (Releases \cup {None})
      BY DEF Runnable, IInv, TypeOK, FleetTypeOK
    <3> QED BY <2>1, <3>1, FleetStepKeeps DEF FleetMoves, IInv, TypeOK, FleetKeeps
  <2>2. ASSUME NEW c \in Clients, ClientStarts(c) \/ ClientExits(c)
        PROVE  current' = current
    BY <2>2 DEF ClientStarts, ClientExits, fleetVars
  <2> QED BY <2>1, <2>2
<1>2. Available' = Available
  BY DEF Available, Whole
<1>3. current \in Available
  BY DEF IInv, CurrentWhole, Available, TypeOK, FleetTypeOK
<1>4. CASE Used' = Used
  BY <1>1, <1>2, <1>4, StoreStutters
<1>5. CASE Used' = Used \cup {current}
  BY <1>1, <1>2, <1>3, <1>5 DEF Store!Next, Store!Start
<1>6. ASSUME NEW r \in Releases, Used' = Used \ {r} PROVE Store!Next
  BY <1>1, <1>2, <1>6 DEF Store!Next, Store!Stop
<1> QED BY <1>4, <1>5, <1>6, UsedMoves DEF UsedStep

LEMMA FlipImplements ==
  ASSUME IInv, NEW d \in Deployers, Flip(d)
  PROVE  Store!Flip(Target(d)) /\ Target(d) \in Releases
<1>1. Target(d) \in Releases
  BY Alone DEF IInv, Flip, Target
<1>2. Target(d) \in Available
  BY <1>1 DEF Flip, Available, Whole
<1>3. Available' = Available
  BY DEF Flip, Available, Whole
<1>4. Used' = Used
  BY DEF Flip, Used, InUse, Alive
<1>5. current' = Target(d) /\ rollback' = current
  BY DEF Flip
<1> QED BY <1>1, <1>2, <1>3, <1>4, <1>5 DEF Store!Flip

\* The build only ever adds its target.
LEMMA BuildImplements ==
  ASSUME IInv, NEW d \in Deployers,
         Wipe(d) \/ Install(d) \/ BuildEnds(d) \/ BuildFails(d)
  PROVE  Store!Next \/ UNCHANGED Store!vars
<1>1. Target(d) \in Releases /\ store \in [Releases -> Dirs] /\ inPlace \subseteq Releases
  BY Alone DEF IInv, TypeOK, Wipe, Install, BuildEnds, BuildFails, Target
<1>2. UNCHANGED <<current, rollback, proc, client>>
  BY DEF Wipe, Install, BuildEnds, BuildFails, fleetVars
<1>3. Used' = Used
  BY <1>2 DEF Used, InUse, Alive
<1>4. CASE Wipe(d)
  <2>1. Available' = Available
    BY <1>1, <1>4 DEF Wipe, Available, Whole
  <2> QED BY <1>2, <1>3, <2>1, StoreStutters
<1>5. CASE BuildEnds(d)
  <2>1. Available' = Available \cup {Target(d)}
    BY <1>1, <1>5 DEF BuildEnds, Available, Whole
  <2> QED BY <1>1, <1>2, <1>3, <2>1 DEF Store!Next, Store!Build
<1>6. CASE Install(d) \/ BuildFails(d)
  <2>1. store[Target(d)] # "built"
    BY <1>6 DEF IInv, DeployerOK, Install, BuildFails, Target
  <2>2. store' \in {[store EXCEPT ![Target(d)] = "partial"], [store EXCEPT ![Target(d)] = "absent"]}
        /\ inPlace' = inPlace
    BY <1>6 DEF Install, BuildFails
  <2>3. Available' = Available
    BY <1>1, <2>1, <2>2 DEF Available, Whole
  <2> QED BY <1>2, <1>3, <2>3, StoreStutters
<1> QED BY <1>4, <1>5, <1>6

\* What is deleted was doomed: it is not current, not the rollback target, and
\* nobody runs from it.
LEMMA DeleteImplements ==
  ASSUME IInv, NEW d \in Deployers, Delete(d) \/ DeletePartly(d)
  PROVE  Store!Next \/ UNCHANGED Store!vars
<1>1. PICK r \in deploy[d].doomed :
        store' \in {[store EXCEPT ![r] = "absent"],
                    [store EXCEPT ![r] = IF store[r] = "built" THEN "gutted" ELSE store[r]]}
  BY DEF Delete, DeletePartly
<1>2. r \in Releases /\ r \notin {current, rollback} \cup InUse
  BY <1>1 DEF IInv, TypeOK, Deploys, DeployerOK
<1>3. UNCHANGED <<current, rollback, proc, client, inPlace>>
  BY DEF Delete, DeletePartly, fleetVars
<1>4. Used' = Used
  BY <1>3 DEF Used, InUse, Alive
<1>5. \A q \in Releases : q # r => store'[q] = store[q]
  BY <1>1, <1>2 DEF IInv, TypeOK
<1>6. store[r] # "built" => store'[r] # "built"
  BY <1>1, <1>2 DEF IInv, TypeOK
<1>7. Available' = Available \/ Available' = Available \ {r}
  BY <1>2, <1>3, <1>5, <1>6 DEF Available, Whole
<1>8. r \notin {current, rollback} \cup Used
  BY <1>2 DEF Used
<1>9. CASE Available' = Available \ {r}
  BY <1>2, <1>3, <1>4, <1>8, <1>9 DEF Store!Next, Store!Collect
<1> QED BY <1>3, <1>4, <1>7, <1>9, StoreStutters

LEMMA StepImplements ==
  ASSUME IInv, [Next]_vars
  PROVE  Store!Next \/ UNCHANGED Store!vars
<1>1. CASE FleetMoves
  BY <1>1, RestImplements DEF FleetMoves, deployVars
<1>2. ASSUME NEW c \in Clients, ClientStarts(c) \/ ClientExits(c)
      PROVE  Store!Next \/ UNCHANGED Store!vars
  <2>1. UNCHANGED <<store, rollback, inPlace>>
    BY <1>2 DEF ClientStarts, ClientExits
  <2> QED BY <1>2, <2>1, RestImplements
<1>3. ASSUME NEW d \in Deployers, DeployStep(d)
      PROVE  Store!Next \/ UNCHANGED Store!vars
  <2>1. CASE Flip(d)
    BY <2>1, FlipImplements DEF Store!Next
  <2>2. CASE Wipe(d) \/ Install(d) \/ BuildEnds(d) \/ BuildFails(d)
    BY <2>2, BuildImplements
  <2>3. CASE Delete(d) \/ DeletePartly(d)
    BY <2>3, DeleteImplements
  <2>4. CASE \/ Begin(d) \/ SkipBuild(d) \/ SmokeFails(d) \/ VerifyFails(d) \/ Restart(d)
             \/ SkipRestart(d) \/ Restarted(d) \/ RestartFails(d) \/ ReapRefused(d)
             \/ Plan(d) \/ DeployEnds(d) \/ Kill(d)
    <3>1. UNCHANGED <<current, rollback, proc, client, store, inPlace>>
      BY <2>4 DEF Begin, SkipBuild, SmokeFails, VerifyFails, Restart, SkipRestart, Restarted,
         RestartFails, ReapRefused, Plan, DeployEnds, Kill, fleetVars
    <3>2. Available' = Available /\ Used' = Used
      BY <3>1 DEF Available, Whole, Used, InUse, Alive
    <3> QED BY <3>1, <3>2, StoreStutters
  <2> QED BY <1>3, <2>1, <2>2, <2>3, <2>4 DEF DeployStep
<1>4. CASE UNCHANGED vars
  <2>1. UNCHANGED <<current, rollback, proc, client, store, inPlace>>
    BY <1>4 DEF vars, fleetVars, deployVars
  <2>2. Available' = Available /\ Used' = Used
    BY <2>1 DEF Available, Whole, Used, InUse, Alive
  <2> QED BY <2>1, <2>2, StoreStutters
<1> QED BY <1>1, <1>2, <1>3, <1>4 DEF Next

-----------------------------------------------------------------------------
(* The theorems.                                                           *)

\* The strengthened invariant holds in every state of the system.
THEOREM Invariance == Spec => []IInv
<1>1. Init => IInv
  BY InitEstablishes
<1>2. IInv /\ [Next]_vars => IInv'
  BY NextKeeps
<1> QED BY <1>1, <1>2, PTL DEF Spec

\* Every variable keeps its type, and whoever is in a deploy holds the lock
\* (deploy_lock), for any number of deployers.
THEOREM TypeCorrect == Spec => []TypeOK
<1>1. IInv => TypeOK
  BY DEF IInv
<1> QED BY <1>1, Invariance, PTL

\* gc_releases and build_release never take a directory away from a process
\* that runs from it, but for --force-build.
THEOREM ReleasesInUseKept == Spec => []InUseKept
<1>1. IInv => InUseKept
  BY DEF IInv
<1> QED BY <1>1, Invariance, PTL

\* `current` always names a whole release, but for --force-build: whatever step
\* of _deploy_under_lock fails and wherever it is killed.
THEOREM CurrentIsWhole == Spec => []CurrentWhole
<1>1. IInv => CurrentWhole
  BY DEF IInv
<1> QED BY <1>1, Invariance, PTL

\* The release that the last flip replaced survives the garbage collection of
\* every deploy until the next flip.
THEOREM RollbackIsKept == Spec => []RollbackKept
<1>1. IInv => RollbackKept
  BY DEF IInv
<1> QED BY <1>1, Invariance, PTL

\* A watcher of the fleet gives a restart only when some server has missed two
\* of its own polls in a row, whatever others poll, restart and kill meanwhile.
THEOREM RestartsNeedTwoStrikes == Spec => TwoStrikes
<1>1. Init => Noted
  BY DEF Init, FleetInit, Noted
<1>2. TypeOK /\ Noted /\ [Next]_vars => Noted'
  BY StrikesKeep
<1>3. TypeOK /\ Noted /\ [Next]_vars =>
        [\A w \in Watchers : job[w] = Idle /\ job'[w] # Idle =>
           \E s \in Servers : misses'[w][s] = 2]_vars
  BY StrikesKeep DEF Gives
<1> QED BY <1>1, <1>2, <1>3, TypeCorrect, PTL DEF Spec, TwoStrikes

\* reap_superseded_fleet never terminates a server of the current release: what
\* it has found stays superseded until it is reaped, whatever the watchdog, the
\* servers and clients do meanwhile, since only a deploy that holds the lock flips.
THEOREM ReapIsSafe == Spec => []StraysSuperseded
<1>1. Init => StraysSuperseded
  BY DEF Init, FleetInit, Idle, StraysSuperseded, Runners
<1>2. TypeOK /\ StraysSuperseded /\ [Next]_vars => StraysSuperseded'
  BY StraysKeep
<1> QED BY <1>1, <1>2, TypeCorrect, PTL DEF Spec

\* The deploys implement the abstract release store: current moves to whole
\* releases only, processes start from current only, and gc_releases collects
\* nothing that is current, was current before the last flip, or is in use.
THEOREM DeployImplementsStore == Spec => ImplementsReleaseStore
<1>1. Init => Store!Init
  <2> SUFFICES ASSUME Init PROVE Store!Init
    OBVIOUS
  <2>1. PICK q \in Releases :
          /\ FleetInit(q)
          /\ store = [p \in Releases |-> IF p = q THEN "built" ELSE "absent"]
          /\ client = [c \in Clients |-> None]
          /\ rollback = q
          /\ inPlace = {}
    BY DEF Init
  <2>2. Available = {q}
    BY <2>1 DEF Available, Whole
  <2>3. Used = {}
    BY <2>1 DEF FleetInit, Used, InUse, Alive
  <2> QED BY <2>1, <2>2, <2>3 DEF Store!Init, FleetInit
<1>2. IInv /\ [Next]_vars => [Store!Next]_(Store!vars)
  BY StepImplements
<1> QED BY <1>1, <1>2, Invariance, PTL DEF Spec, Store!Spec, ImplementsReleaseStore
=============================================================================
