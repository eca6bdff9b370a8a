------------------------------- MODULE BlueGreen -------------------------------
(***************************************************************************)
(* deploy-local: a release is built, smoked, made current, the fleet       *)
(* restarted on it, strays of the old one reaped and old releases          *)
(* collected.  Deploys exclude each other by a lock file; the fleet's own  *)
(* commands and the clients that start from `current` do not take it.      *)
(***************************************************************************)
EXTENDS FleetControl

CONSTANTS
  Clients,    \* stdio servers, which run from the release they started from
  Keep,       \* --keep-releases
  MaxDeploys  \* bound: deploys that begin

ASSUME DeployAssumption ==
  /\ Keep \in Nat /\ MaxDeploys \in Nat
  /\ None \notin Deployers

VARIABLES
  store,     \* per release: its directory
  lock,      \* who holds the deploy lock
  deploy,    \* per deployer: where it is
  client,    \* per client: the release it runs from, or None
  rollback,  \* what `current` named before the last flip (history)
  inPlace,   \* releases being rebuilt where they are, by --force-build (history)
  deploys    \* deploys begun

deployVars == <<store, lock, deploy, client, rollback, inPlace, deploys>>
vars == <<fleetVars, deployVars>>

\* A directory is absent, partial (no manifest), built, or gutted: its manifest
\* is there and some of its files are not.
Dirs == {"absent", "partial", "built", "gutted"}

\* A deployer outside a deploy.
Out == [pc |-> "out", release |-> None, force |-> FALSE, previous |-> None, doomed |-> {}]

Init ==
  \E r \in Releases :
    /\ FleetInit(r)
    /\ store = [q \in Releases |-> IF q = r THEN "built" ELSE "absent"]
    /\ lock = None
    /\ deploy = [d \in Deployers |-> Out]
    /\ client = [c \in Clients |-> None]
    /\ rollback = r
    /\ inPlace = {}
    /\ deploys = 0

Target(d) == deploy[d].release

\* The deploy goes on to pc, or ends and releases the lock.
Goes(d, pc) == deploy' = [deploy EXCEPT ![d] = [@ EXCEPT !.pc = pc]] /\ UNCHANGED lock
Ends(d) == deploy' = [deploy EXCEPT ![d] = Out] /\ lock' = None

\* The releases some process runs from.
InUse == {proc[i].release : i \in {j \in Pids : Alive(j)}} \cup {client[c] : c \in Clients}

-----------------------------------------------------------------------------
(* Up to the flip.                                                         *)

\* Mutant: a deploy does not wait for the lock.
BeginUnlocked(d) ==
  /\ deploy[d] = Out /\ deploys < MaxDeploys
  /\ \E r \in Releases, force \in BOOLEAN :
       deploy' = [deploy EXCEPT ![d] =
         [Out EXCEPT !.pc = "build", !.release = r, !.force = force]]
  /\ lock' = d /\ deploys' = deploys + 1
  /\ UNCHANGED <<fleetVars, store, client, rollback, inPlace>>

\* A deploy begins when it gets the lock.
Begin(d) ==
  /\ deploy[d] = Out /\ deploys < MaxDeploys
  /\ lock = None
  /\ \E r \in Releases, force \in BOOLEAN :
       deploy' = [deploy EXCEPT ![d] =
         [Out EXCEPT !.pc = "build", !.release = r, !.force = force]]
  /\ lock' = d /\ deploys' = deploys + 1
  /\ UNCHANGED <<fleetVars, store, client, rollback, inPlace>>

\* A release with a manifest is taken as it is, unless --force-build.
SkipBuild(d) ==
  /\ deploy[d].pc = "build"
  /\ store[Target(d)] \in {"built", "gutted"} /\ ~deploy[d].force
  /\ Goes(d, "smoke")
  /\ UNCHANGED <<fleetVars, store, client, rollback, inPlace, deploys>>

\* What is there is deleted first; this step is the state half way.
Wipe(d) ==
  /\ deploy[d].pc = "build"
  /\ store[Target(d)] = "partial" \/ deploy[d].force \/ store[Target(d)] = "absent"
  /\ store' = [store EXCEPT ![Target(d)] = IF @ = "built" THEN "gutted" ELSE @]
  /\ inPlace' = IF store[Target(d)] = "built" THEN inPlace \cup {Target(d)} ELSE inPlace
  /\ Goes(d, "install")
  /\ UNCHANGED <<fleetVars, client, rollback, deploys>>

\* uv venv has made a new directory.
Install(d) ==
  /\ deploy[d].pc = "install"
  /\ store' = [store EXCEPT ![Target(d)] = "partial"]
  /\ Goes(d, "manifest")
  /\ UNCHANGED <<fleetVars, client, rollback, inPlace, deploys>>

\* The packages are in and the manifest is written.
BuildEnds(d) ==
  /\ deploy[d].pc = "manifest"
  /\ store' = [store EXCEPT ![Target(d)] = "built"]
  /\ inPlace' = inPlace \ {Target(d)}
  /\ Goes(d, "smoke")
  /\ UNCHANGED <<fleetVars, client, rollback, deploys>>

\* uv fails: there is no new directory, or the installation takes it with it.
BuildFails(d) ==
  /\ deploy[d].pc \in {"install", "manifest"}
  /\ store' = [store EXCEPT ![Target(d)] = "absent"]
  /\ Ends(d)
  /\ UNCHANGED <<fleetVars, client, rollback, inPlace, deploys>>

\* One of the gates before the flip refuses the release: its binaries, the
\* reap of orphaned serves, the profile smoke.
SmokeFails(d) ==
  /\ deploy[d].pc = "smoke"
  /\ Ends(d)
  /\ UNCHANGED <<fleetVars, store, client, rollback, inPlace, deploys>>

\* Mutant: the outgoing release is looked up after the flip.
FlipFirst(d) ==
  /\ deploy[d].pc = "smoke" /\ store[Target(d)] = "built"
  /\ current' = Target(d)
  /\ rollback' = current
  /\ deploy' = [deploy EXCEPT ![d] = [@ EXCEPT !.pc = "flipped", !.previous = Target(d)]]
  /\ UNCHANGED <<proc, pidfile, job, watch, misses, faults>>
  /\ UNCHANGED <<store, lock, client, inPlace, deploys>>

\* Mutant: whatever has a manifest passes.
FlipUnsmoked(d) ==
  /\ deploy[d].pc = "smoke"
  /\ current' = Target(d)
  /\ rollback' = current
  /\ deploy' = [deploy EXCEPT ![d] = [@ EXCEPT !.pc = "flipped", !.previous = current]]
  /\ UNCHANGED <<proc, pidfile, job, watch, misses, faults>>
  /\ UNCHANGED <<store, lock, client, inPlace, deploys>>

\* Only a whole release passes the gates: the outgoing one is noted and
\* `current` replaced.
Flip(d) ==
  /\ deploy[d].pc = "smoke" /\ store[Target(d)] = "built"
  /\ current' = Target(d)
  /\ rollback' = current
  /\ deploy' = [deploy EXCEPT ![d] = [@ EXCEPT !.pc = "flipped", !.previous = current]]
  /\ UNCHANGED <<proc, pidfile, job, watch, misses, faults>>
  /\ UNCHANGED <<store, lock, client, inPlace, deploys>>

-----------------------------------------------------------------------------
(* After the flip.                                                         *)

\* The smoke test after the flip calls the release sick: the deploy ends with
\* `current` on it.
VerifyFails(d) ==
  /\ deploy[d].pc = "flipped"
  /\ Ends(d)
  /\ UNCHANGED <<fleetVars, store, client, rollback, inPlace, deploys>>

AnyRunning == \E s \in Servers : Alive(pidfile[s])

\* The fleet is restarted if a pidfile names a live process.
Restart(d) ==
  /\ deploy[d].pc = "flipped"
  /\ AnyRunning
  /\ job' = [job EXCEPT ![d] = RestartJob(TRUE)]
  /\ Goes(d, "restarting")
  /\ UNCHANGED <<current, proc, pidfile, watch, misses, faults>>
  /\ UNCHANGED <<store, client, rollback, inPlace, deploys>>

SkipRestart(d) ==
  /\ deploy[d].pc = "flipped"
  /\ ~AnyRunning
  /\ job' = [job EXCEPT ![d] = ReapJob]
  /\ Goes(d, "reaping")
  /\ UNCHANGED <<current, proc, pidfile, watch, misses, faults>>
  /\ UNCHANGED <<store, client, rollback, inPlace, deploys>>

\* Every server answers its smoke test, and the strays are reaped.
Restarted(d) ==
  /\ deploy[d].pc = "restarting" /\ job[d] = Idle
  /\ \A s \in Servers : Served(s)
  /\ job' = [job EXCEPT ![d] = ReapJob]
  /\ Goes(d, "reaping")
  /\ UNCHANGED <<current, proc, pidfile, watch, misses, faults>>
  /\ UNCHANGED <<store, client, rollback, inPlace, deploys>>

\* Some server is not ready in time, or fails its smoke test.
RestartFails(d) ==
  /\ deploy[d].pc = "restarting" /\ job[d] = Idle
  /\ Ends(d)
  /\ UNCHANGED <<fleetVars, store, client, rollback, inPlace, deploys>>

\* An error of the reap: nothing is collected.
ReapRefused(d) ==
  /\ deploy[d].pc = "reaping"
  /\ job[d].pc = "idle" /\ ~job[d].ok
  /\ job' = [job EXCEPT ![d] = Idle]
  /\ Ends(d)
  /\ UNCHANGED <<current, proc, pidfile, watch, misses, faults>>
  /\ UNCHANGED <<store, client, rollback, inPlace, deploys>>

\* Mutant: who uses a release is not asked.
DoomedInUse(d, kept) ==
  {r \in Releases : store[r] # "absent"} \ (kept \cup {current, Target(d), deploy[d].previous})

\* What _plan_gc deletes, besides the newest: neither current nor incoming nor
\* outgoing, and used by nobody.
Doomed(d, kept) ==
  {r \in Releases : store[r] # "absent"}
    \ (kept \cup {current, Target(d), deploy[d].previous} \cup InUse)

\* The plan is made.  Which releases are the newest, their mtimes say.
Plan(d) ==
  /\ deploy[d].pc = "reaping" /\ job[d] = Idle
  /\ \E kept \in SUBSET {r \in Releases : store[r] # "absent"} :
       /\ \/ Cardinality(kept) = Keep
          \/ Cardinality(kept) < Keep /\ \A r \in Releases \ kept : store[r] = "absent"
       /\ deploy' = [deploy EXCEPT ![d] = [@ EXCEPT !.pc = "gc", !.doomed = Doomed(d, kept)]]
  /\ UNCHANGED <<fleetVars, store, lock, client, rollback, inPlace, deploys>>

\* One release after the other is deleted.
Delete(d) ==
  /\ deploy[d].pc = "gc"
  /\ \E r \in deploy[d].doomed :
       /\ store' = [store EXCEPT ![r] = "absent"]
       /\ deploy' = [deploy EXCEPT ![d] = [deploy[d] EXCEPT !.doomed = @ \ {r}]]
  /\ UNCHANGED <<fleetVars, lock, client, rollback, inPlace, deploys>>

\* A deletion stops half way; rmtree ignores errors.
DeletePartly(d) ==
  /\ Fault
  /\ deploy[d].pc = "gc"
  /\ \E r \in deploy[d].doomed :
       /\ store' = [store EXCEPT ![r] = IF @ = "built" THEN "gutted" ELSE @]
       /\ deploy' = [deploy EXCEPT ![d] = [deploy[d] EXCEPT !.doomed = @ \ {r}]]
  /\ UNCHANGED <<current, proc, pidfile, job, watch, misses>>
  /\ UNCHANGED <<lock, client, rollback, inPlace, deploys>>

DeployEnds(d) ==
  /\ deploy[d].pc = "gc" /\ deploy[d].doomed = {}
  /\ Ends(d)
  /\ UNCHANGED <<fleetVars, store, client, rollback, inPlace, deploys>>

\* The deployer is killed; the operating system drops its lock.
Kill(d) ==
  /\ Fault
  /\ deploy[d] # Out
  /\ Ends(d)
  /\ job' = [job EXCEPT ![d] = Idle]
  /\ UNCHANGED <<current, proc, pidfile, watch, misses>>
  /\ UNCHANGED <<store, client, rollback, inPlace, deploys>>

-----------------------------------------------------------------------------
(* The rest of the system.                                                 *)

\* An editor starts a stdio server from `current`.
ClientStarts(c) ==
  /\ client[c] = None /\ store[current] = "built"
  /\ client' = [client EXCEPT ![c] = current]
  /\ UNCHANGED <<fleetVars, store, lock, deploy, rollback, inPlace, deploys>>

ClientExits(c) ==
  /\ client[c] # None
  /\ client' = [client EXCEPT ![c] = None]
  /\ UNCHANGED <<fleetVars, store, lock, deploy, rollback, inPlace, deploys>>

\* Mutant: the launcher resolved `current` some time ago.
RunnableResolved == {r \in Releases : store[r] = "built"}

\* What a server may be started from: current, and when that is not whole,
\* perhaps the binary on the PATH.
Runnable == IF store[current] = "built" THEN {current} ELSE {current, None}

FleetMoves == FleetNext(Runnable) /\ UNCHANGED deployVars

DeployStep(d) ==
  \/ Begin(d) \/ SkipBuild(d) \/ Wipe(d) \/ Install(d) \/ BuildEnds(d) \/ BuildFails(d)
  \/ SmokeFails(d) \/ Flip(d) \/ VerifyFails(d)
  \/ Restart(d) \/ SkipRestart(d) \/ Restarted(d) \/ RestartFails(d) \/ ReapRefused(d)
  \/ Plan(d) \/ Delete(d) \/ DeletePartly(d) \/ DeployEnds(d) \/ Kill(d)

Next ==
  \/ FleetMoves
  \/ \E d \in Deployers : DeployStep(d)
  \/ \E c \in Clients : ClientStarts(c) \/ ClientExits(c)

\* Servers come up, commands go on and the timer fires again and again.
Fairness ==
  /\ \A i \in Pids : WF_vars(Bind(i) /\ UNCHANGED deployVars)
  /\ \A r \in Runners : WF_vars(CommandStep(r, Runnable) /\ UNCHANGED deployVars)
  /\ WF_vars(Poll(Timer) /\ UNCHANGED deployVars)

Spec == Init /\ [][Next]_vars /\ Fairness

-----------------------------------------------------------------------------
(* Properties.                                                             *)

Deploys ==
  [pc : {"out", "build", "install", "manifest", "smoke", "flipped", "restarting",
         "reaping", "gc"},
   release : Releases \cup {None}, force : BOOLEAN,
   previous : Releases \cup {None}, doomed : SUBSET Releases]

\* Every variable keeps its type.  Whoever is in a deploy holds the lock: this
\* is the mutual exclusion of deploy_lock.
TypeOK ==
  /\ FleetTypeOK
  /\ store \in [Releases -> Dirs]
  /\ lock \in Deployers \cup {None}
  /\ deploy \in [Deployers -> Deploys]
  /\ \A d \in Deployers :
       /\ deploy[d].pc # "out" => deploy[d].release # None /\ lock = d
       /\ deploy[d].pc = "out" => deploy[d] = Out
       /\ deploy[d].pc \notin {"restarting", "reaping"} => job[d] = Idle
  /\ client \in [Clients -> Releases \cup {None}]
  /\ rollback \in Releases
  /\ inPlace \subseteq Releases
  /\ deploys \in 0 .. MaxDeploys

Whole(r) == store[r] = "built" \/ r \in inPlace

Available == {r \in Releases : Whole(r)}
Used == InUse \ {None}

\* No process loses the directory it runs from, except to a rebuild in place.
\* This is about gc_releases, which asks who uses a release and deletes it later.
InUseKept == \A r \in InUse \ {None} : Whole(r)

\* `current` names a whole release, except during a rebuild in place: whatever
\* fails or is killed, servers and clients can be started.
CurrentWhole == Whole(current)

\* The release an operator would roll back to is there until the next flip,
\* whatever redeploys, failures and kills come in between (TAP-6895).
RollbackKept == Whole(rollback)

\* No reap terminates a server of the current release: what find_superseded_fleet_pids
\* has found is still superseded when its turn comes, whoever starts and stops
\* servers meanwhile.
StraysSuperseded ==
  \A d \in Deployers : \A i \in job[d].strays : Alive(i) => proc[i].release # current

\* Builds, flips, starts, stops and collections keep the promises of ReleaseStore,
\* whatever fails or is killed in between; a rebuild in place counts as whole.
Store == INSTANCE ReleaseStore WITH available <- Available, used <- Used
ImplementsReleaseStore == Store!Spec

\* A watcher gives a restart only after some server has missed two of its polls
\* in a row (ensure_fleet_running's debounce), whatever others did in between.
TwoStrikes ==
  [][\A w \in Watchers : job[w] = Idle /\ job'[w] # Idle =>
       \E s \in Servers : misses'[w][s] = 2]_vars

\* When faults and deploys have ceased, the watchdog brings every server up for
\* good.
FleetServed == <>[](\A s \in Servers : Served(s))
=============================================================================
