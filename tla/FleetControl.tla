----------------------------- MODULE FleetControl -----------------------------
(***************************************************************************)
(* The shared HTTP fleet: server processes, the pidfiles that claim them,  *)
(* and the commands that start, stop and watch them.  The commands run in  *)
(* separate processes with no lock between them; a step is what a command  *)
(* does between two looks at the world.                                    *)
(***************************************************************************)
EXTENDS Naturals, FiniteSets

CONSTANTS
  Servers,    \* server ids, each with a port of its own
  Releases,   \* release directories
  Watchers,   \* who runs `fleet ensure`, each with a debounce file of its own
  Timer,      \* the one of them that the systemd timer runs
  Deployers,  \* runs of `deploy-local`
  Systemd,    \* is the canonical unit there to restart the fleet?
  MaxPids,    \* bound: processes alive or remembered at a time
  MaxFaults,  \* bound: servers that die or hang, wrong polls, failed spawns, kills
  None

Runners == Watchers \cup Deployers
Pids == 1 .. MaxPids

ASSUME FleetAssumption ==
  /\ MaxPids \in Nat /\ MaxFaults \in Nat
  /\ Systemd \in BOOLEAN
  /\ Watchers \cap Deployers = {} /\ Timer \in Watchers
  /\ None \notin Servers \cup Releases \cup Runners \cup Nat

VARIABLES
  current,  \* the release the `current` symlink names
  proc,     \* the processes alive: server, release and state; None elsewhere
  pidfile,  \* per server: the pid its pidfile claims, or None
  job,      \* per runner: the fleet command it is in
  watch,    \* per watcher: the servers in its debounce file
  misses,   \* per watcher and server: bad polls in a row, up to two (history)
  faults    \* faults spent

fleetVars == <<current, proc, pidfile, job, watch, misses, faults>>

\* A runner in no command; ok says whether the last one reported an error.
Idle == [pc |-> "idle", phase |-> "start", todo |-> {}, at |-> None,
         pid |-> None, force |-> FALSE, strays |-> {}, ok |-> TRUE]

FleetInit(release) ==
  /\ current = release
  /\ proc = [i \in Pids |-> None]
  /\ pidfile = [s \in Servers |-> None]
  /\ job = [r \in Runners |-> Idle]
  /\ watch = [w \in Watchers |-> {}]
  /\ misses = [w \in Watchers |-> [s \in Servers |-> 0]]
  /\ faults = 0

-----------------------------------------------------------------------------
(* Processes.                                                              *)

Alive(i) == i # None /\ proc[i] # None

\* The fleet processes whose command line names the port of server s.
Owners(s) == {i \in Pids : Alive(i) /\ proc[i].server = s}

\* Does the port of s answer an initialize?
Served(s) == \E i \in Owners(s) : proc[i].state = "up"

\* Pids that no process has and nobody remembers.
Unused ==
  {i \in Pids : /\ ~Alive(i)
                /\ \A s \in Servers : pidfile[s] # i
                /\ \A r \in Runners : job[r].pid # i /\ i \notin job[r].strays}

Fault == faults < MaxFaults /\ faults' = faults + 1

\* A process that starts binds its port; it dies when another one holds it.
Bind(i) ==
  /\ Alive(i) /\ proc[i].state = "starting"
  /\ proc' = [proc EXCEPT ![i] =
       IF \E j \in Owners(proc[i].server) : proc[j].state # "starting"
       THEN None
       ELSE [@ EXCEPT !.state = "up"]]
  /\ UNCHANGED <<current, pidfile, job, watch, misses, faults>>

\* A server dies, or its event loop starves: TCP is up, /mcp does not answer.
ServerFails(i) ==
  /\ Fault
  /\ Alive(i)
  /\ \/ proc' = [proc EXCEPT ![i] = None]
     \/ proc[i].state = "up" /\ proc' = [proc EXCEPT ![i] = [@ EXCEPT !.state = "hung"]]
  /\ UNCHANGED <<current, pidfile, job, watch, misses>>

-----------------------------------------------------------------------------
(* stop_fleet and start_fleet, for one server after the other.             *)

\* The commands a runner can be given: a start of every server, forced (each is
\* stopped right before) or not; a restart stops them all first.
StartJob(force) == [Idle EXCEPT !.pc = "check", !.todo = Servers, !.force = force]
RestartJob(force) == [StartJob(force) EXCEPT !.pc = "kill", !.phase = "stop"]

\* The command j once it is through with the server it is at.
Turned(j) ==
  IF j.todo # {}
  THEN [j EXCEPT !.at = None, !.pid = None,
          !.pc = IF j.phase = "stop" THEN "kill" ELSE "check"]
  ELSE IF j.phase = "stop" THEN StartJob(j.force) ELSE Idle

\* stop_fleet terminates the process the pidfile claims; within start_fleet
\* the server is given.
StopRecorded(r) ==
  /\ job[r].pc = "kill"
  /\ \E s \in IF job[r].phase = "stop" THEN job[r].todo ELSE {job[r].at} :
       LET i == pidfile[s] IN
       /\ job' = [job EXCEPT ![r] =
            [job[r] EXCEPT !.pc = "unlink", !.at = s, !.todo = @ \ {s}, !.pid = i]]
       /\ proc' = IF Alive(i) THEN [proc EXCEPT ![i] = None] ELSE proc
  /\ UNCHANGED <<current, pidfile, watch, misses, faults>>

\* It deletes the pidfile, whoever has written it since.
UnlinkPidfile(r) ==
  /\ job[r].pc = "unlink"
  /\ pidfile' = [pidfile EXCEPT ![job[r].at] = None]
  /\ job' = [job EXCEPT ![r] = [@ EXCEPT !.pc = "reclaim"]]
  /\ UNCHANGED <<current, proc, watch, misses, faults>>

\* Mutant: only the recorded process is stopped.
ReclaimNothing(r) ==
  /\ job[r].pc = "reclaim"
  /\ job' = [job EXCEPT ![r] =
       IF @.phase = "stop" THEN Turned(@) ELSE [@ EXCEPT !.pc = "spawn", !.pid = None]]
  /\ UNCHANGED <<current, proc, pidfile, watch, misses, faults>>

\* It terminates one process that still owns the port, if there is any.
ReclaimPort(r) ==
  /\ job[r].pc = "reclaim"
  /\ LET s == job[r].at IN
     \/ \E i \in Owners(s) : proc' = [proc EXCEPT ![i] = None]
     \/ Owners(s) = {} /\ UNCHANGED proc
  /\ job' = [job EXCEPT ![r] =
       IF @.phase = "stop" THEN Turned(@) ELSE [@ EXCEPT !.pc = "spawn", !.pid = None]]
  /\ UNCHANGED <<current, pidfile, watch, misses, faults>>

\* start_fleet turns to a server and looks at the recorded process: alive, it
\* is skipped, or stopped first under force.
CheckRecorded(r) ==
  /\ job[r].pc = "check"
  /\ \E s \in job[r].todo :
       job' = [job EXCEPT ![r] =
         LET j == [job[r] EXCEPT !.at = s, !.todo = @ \ {s}] IN
         IF ~Alive(pidfile[s]) THEN [j EXCEPT !.pc = "spawn"]
         ELSE IF j.force THEN [j EXCEPT !.pc = "kill"] ELSE Turned(j)]
  /\ UNCHANGED <<current, proc, pidfile, watch, misses, faults>>

\* Popen of current/bin/...: the process is pinned to the release that
\* current names now, or to none when that has no such binary and the one on
\* the PATH is started instead.
Spawn(r, releases) ==
  /\ job[r].pc = "spawn"
  /\ \E i \in Unused, release \in releases :
       /\ \A j \in Unused : i <= j
       /\ proc' = [proc EXCEPT ![i] =
            [server |-> job[r].at, release |-> release, state |-> "starting"]]
       /\ job' = [job EXCEPT ![r] = [@ EXCEPT !.pc = "record", !.pid = i]]
  /\ UNCHANGED <<current, pidfile, watch, misses, faults>>

\* Popen raises: the error is noted and the loop goes on.
SpawnFails(r) ==
  /\ Fault
  /\ job[r].pc = "spawn"
  /\ job' = [job EXCEPT ![r] = Turned(@)]
  /\ UNCHANGED <<current, proc, pidfile, watch, misses>>

\* The pidfile is written.
RecordPid(r) ==
  /\ job[r].pc = "record"
  /\ pidfile' = [pidfile EXCEPT ![job[r].at] = job[r].pid]
  /\ job' = [job EXCEPT ![r] = Turned(@)]
  /\ UNCHANGED <<current, proc, watch, misses, faults>>

-----------------------------------------------------------------------------
(* reap_superseded_fleet.                                                  *)

ReapJob == [Idle EXCEPT !.pc = "scan"]

\* Mutant: what no pidfile claims is a stray, whatever its release.
StraysUnclaimed(claimed) ==
  {i \in Pids : Alive(i) /\ i \notin claimed /\ proc[i].release # None}

\* Processes of a superseded release that no pidfile claims.
Strays(claimed) ==
  {i \in Pids : Alive(i) /\ i \notin claimed /\ proc[i].release \notin {current, None}}

\* The pidfiles and the process table are read.
ReapScan(r) ==
  /\ job[r].pc = "scan"
  /\ job' = [job EXCEPT ![r] =
       [@ EXCEPT !.pc = "reap", !.strays = Strays({pidfile[s] : s \in Servers})]]
  /\ UNCHANGED <<current, proc, pidfile, watch, misses, faults>>

\* One stray after the other is terminated; one that has ended meanwhile
\* makes kill raise, which counts as an error of the reap.
ReapOne(r) ==
  /\ job[r].pc = "reap"
  /\ \E i \in job[r].strays :
       /\ job' = [job EXCEPT ![r] = [job[r] EXCEPT !.strays = @ \ {i}, !.ok = @ /\ Alive(i)]]
       /\ proc' = [proc EXCEPT ![i] = None]
  /\ UNCHANGED <<current, pidfile, watch, misses, faults>>

\* kill is refused.
ReapFails(r) ==
  /\ Fault
  /\ job[r].pc = "reap"
  /\ \E i \in job[r].strays :
       job' = [job EXCEPT ![r] = [job[r] EXCEPT !.strays = @ \ {i}, !.ok = FALSE]]
  /\ UNCHANGED <<current, proc, pidfile, watch, misses>>

ReapEnds(r) ==
  /\ job[r].pc = "reap" /\ job[r].strays = {}
  /\ job' = [job EXCEPT ![r] = [Idle EXCEPT !.ok = job[r].ok]]
  /\ UNCHANGED <<current, proc, pidfile, watch, misses, faults>>

CommandStep(r, releases) ==
  \/ StopRecorded(r) \/ UnlinkPidfile(r) \/ ReclaimPort(r)
  \/ CheckRecorded(r) \/ Spawn(r, releases) \/ RecordPid(r)
  \/ ReapScan(r) \/ ReapOne(r) \/ ReapEnds(r)

-----------------------------------------------------------------------------
(* ensure_fleet_running: one poll of a watcher.                            *)

\* systemctl restart of the unit, whose commands are a stop and a start, or
\* else a forced start.
Repair == IF Systemd THEN RestartJob(FALSE) ELSE StartJob(TRUE)

\* Mutant: all runs share one debounce file.
DecideShared(w, bad) ==
  /\ watch' = [v \in Watchers |-> bad]
  /\ job' = [job EXCEPT ![w] = IF bad \cap watch[w] # {} THEN Repair ELSE @]

\* The debounce file becomes what this poll found; what was already in it is
\* confirmed, and the fleet restarted.
Decide(w, bad) ==
  /\ watch' = [watch EXCEPT ![w] = bad]
  /\ job' = [job EXCEPT ![w] = IF bad \cap watch[w] # {} THEN Repair ELSE @]

\* A poll finds the servers that do not answer; under overload (a fault) also
\* some that would.  The timer leaves servers the time to boot between polls;
\* a person who polls in between counts as a fault too.
Poll(w) ==
  /\ job[w] = Idle
  /\ \E wrong \in SUBSET Servers :
       LET bad == {s \in Servers : ~Served(s)} \cup wrong IN
       /\ IF wrong = {}
               /\ w = Timer
               /\ \A i \in Pids : Alive(i) => proc[i].state # "starting"
          THEN UNCHANGED faults
          ELSE Fault
       /\ Decide(w, bad)
       /\ misses' = [misses EXCEPT ![w] = [s \in Servers |->
            IF s \notin bad THEN 0 ELSE IF @[s] = 2 THEN 2 ELSE @[s] + 1]]
  /\ UNCHANGED <<current, proc, pidfile>>

\* A watcher is killed in the middle of its command.
WatcherDies(w) ==
  /\ Fault
  /\ job[w] # Idle
  /\ job' = [job EXCEPT ![w] = Idle]
  /\ UNCHANGED <<current, proc, pidfile, watch, misses>>

\* systemctl fails: a forced start instead.
RestartRefused(w) ==
  /\ Fault
  /\ Systemd /\ job[w] = RestartJob(FALSE)
  /\ job' = [job EXCEPT ![w] = StartJob(TRUE)]
  /\ UNCHANGED <<current, proc, pidfile, watch, misses>>

FleetNext(releases) ==
  \/ \E i \in Pids : Bind(i) \/ ServerFails(i)
  \/ \E r \in Runners : CommandStep(r, releases) \/ SpawnFails(r) \/ ReapFails(r)
  \/ \E w \in Watchers : Poll(w) \/ WatcherDies(w) \/ RestartRefused(w)

-----------------------------------------------------------------------------
(* Properties.                                                             *)

Jobs ==
  {j \in [pc : {"idle", "kill", "unlink", "reclaim", "check", "spawn", "record",
                "scan", "reap"},
          phase : {"stop", "start"}, todo : SUBSET Servers, at : Servers \cup {None},
          pid : Pids \cup {None}, force : BOOLEAN, strays : SUBSET Pids, ok : BOOLEAN] :
     /\ j.pc \in {"unlink", "reclaim", "spawn", "record"} => j.at # None
     /\ j.pc = "kill" /\ j.phase = "start" => j.at # None
     /\ j.pc = "record" => j.pid # None}

Processes ==
  [server : Servers, release : Releases \cup {None}, state : {"starting", "up", "hung"}]

FleetTypeOK ==
  /\ current \in Releases
  /\ proc \in [Pids -> Processes \cup {None}]
  /\ pidfile \in [Servers -> Pids \cup {None}]
  /\ job \in [Runners -> Jobs]
  /\ watch \in [Watchers -> SUBSET Servers]
  /\ misses \in [Watchers -> [Servers -> 0 .. 2]]
  /\ faults \in 0 .. MaxFaults
=============================================================================
