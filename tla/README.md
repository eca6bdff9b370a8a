# A verification project for TappsMCP

TLA+ models of the stateful, concurrent parts of TappsMCP (`src/packages/`),
TLC runs that check them on small instances, and TLAPS proofs of their most
important invariants for every value of the constants. Read this with the
source open: every definition is mapped to the lines it models in
`PROJECT.json` ("map").

Paths below are relative to `src/packages/tapps-core/src/tapps_core/` (`core/`)
and `src/packages/tapps-mcp/src/tapps_mcp/` (`mcp/`).

## 1. Inventory

| Component | State | Operations | Hard behaviour | Correct when | Status |
|---|---|---|---|---|---|
| BrainBridge resilience core, `core/brain_bridge_inprocess_core.py`, `..._ops.py` | `_failures`, `_open_at`, `_write_queue`, `_drain_task` | calls with retries, save, queue, drain, exit flush, status | concurrent coroutines around one breaker; a brain that comes and goes; exit in the middle of a drain | every accepted write is accounted for once; one drain; breaker opens and recovers | `BrainBridge`, proved |
| HTTP bridge: KG events, exit flush, `core/brain_bridge_http_kg_hive.py`, `..._health.py` | the same | `record_kg_event`, its queueing and replay, `drain_blocking`, `close` | replay of two kinds of entries; flush without an event loop | the same | `BrainBridge` (`Http = TRUE`) |
| HTTP bridge: MCP session, `core/brain_bridge_http_session.py` | `_session_id`, `_negotiated`, `_session_lock` | handshake, negotiation, tools/call, rejection and retry | callers sharing a session across a restart of the brain; cancelled callers | one handshake at a time; nobody uses a rejected session again; every call ends | `BrainSession`, proved |
| Context7 breaker, `core/knowledge/circuit_breaker.py` | `CircuitBreakerStats` | check, record success/failure, force_open, reset | results that arrive in a later state | bounded opening, no stale probe | `CircuitBreaker`, proved |
| Session handoff guard, `mcp/tools/handoff_guard.py` | the handoff files (slots), the archive | `guarded_write` | no lock between processes; failures and kills between file operations; one archive for all slots | nothing replaced is lost; no partial or duplicate document | `HandoffGuard`, proved |
| Blue/green deploy, `mcp/distribution/blue_green.py`, `blue_green_proc.py`, `fleet_ownership.py` | `current`, `releases/`, deploy lock, processes | build, smoke, flip, restart, reap, GC | GC against processes that start; failure or kill after the flip | nothing in use, current or the rollback target is deleted | `BlueGreen`, proved |
| HTTP fleet watchdog, `mcp/distribution/fleet_control.py` | per-source strike files, pidfiles, processes | `ensure_fleet_running`, start, stop, reap | two-strike debounce with manual runs between polls; servers nobody recorded | no restart on one bad poll; a dead server is restarted | `FleetControl`; debounce proved |
| Checklist call tracker, `mcp/tools/checklist.py` | ledger, markers, registry of claimed ids; a window id per process | `begin_session`, `record`, `evaluate` | sibling processes on one ledger, with one lock on one of the files | an evaluation counts what its session made; no session adopts one on record | `Checklist`, proved |
| Documentation cache and lookup, `core/knowledge/cache.py`, `lookup.py` | content and sidecar files, access times, refresh tasks | get, put, remove, evict, refresh | several processes; a file lock that `remove` deletes | | not modelled |
| Linear gate, `mcp/tools/linear_list_gateway.py`, `mcp/server_linear_tools_*.py` | sentinels, snapshots | gate, snapshot get/put/invalidate, GC | ages of two files that stand for one thing | | not modelled |

Section 5 says what is not modelled and why.

**Interactions.** Every memory operation of the MCP servers goes through one
`BrainBridge`. The HTTP bridge is the same object with another transport: its
calls go through the session, and each attempt that fails there is one failure
of the breaker, so `BrainSession` and `BrainBridge` share `BrainBreaker`. The
lookup engine has a breaker of its own kind around Context7. The handoff file,
the release directories, the caches and the checklist ledger are shared through
the file system by processes that never talk to each other.

## 2. Modules

```
BrainBreaker <--- BrainBridge <--- BrainBridgeProofs        MCBrainBridge
      ^               | INSTANCE
      |               v
      |          OfflineQueue  (abstract: what the queue promises)
      +---------- BrainSession <-- BrainSessionProofs       MCBrainSession
CircuitBreaker <-- CircuitBreakerProofs                     MCCircuitBreaker
      | INSTANCE
      v
BreakerStates    (abstract: the transitions the docstring names)
HandoffGuard <--- HandoffGuardProofs                        MCHandoffGuard
      | INSTANCE
      v
HandoffVault     (abstract: where a handoff may be)
FleetControl <--- BlueGreen <--- BlueGreenProofs            MCBlueGreen
                      | INSTANCE
                      v
                 ReleaseStore  (abstract: what may be run and collected)
Checklist <--- ChecklistProofs                              MCChecklist
```

**BrainBreaker.** The breaker as operators on its state. Python reads the clock
in `circuit_open`, which also closes a breaker whose window has passed; the
model splits this into `Blocking(b)` (the answer) and `Checked(b)` (the side
effect), so that every place where the code reads `circuit_open` says so.
`_open_at` is represented as open/not and the ticks since, capped at the window.

**BrainBridge.** One action per stretch of code between two awaits: `Start`,
`CallSucceeds`, `CallFails`, `CallAborted` for `_call` and `_http_mcp_call`;
`EnqueueWrite`, `Refuse` for the open breaker; `DrainStarts`, `ReplaySucceeds`,
`ReplayFails`, `ReplayGated` for the drain task, each ending with `ContinueDrain`,
the loop up to its next await; `Exit`, `FlushEntry`, `FlushEnds` for the
shutdown hooks; `Status` for the diagnostics, which close the breaker too.
`Saves` start a drain when they succeed, `Events` (KG events, HTTP only) do not,
`Calls` are everything else. A write is made once, so that it identifies itself.
`delivered`, `lost` and `drained` are history: what became of accepted writes
and what `drain_blocking` counts. Back-off sleeps are part of the attempt that
follows, since nothing is read between the two.

**OfflineQueue.** The promise: a bounded FIFO, one write in replay, each
accepted write settled once. `BrainBridge` implements it under
`pending <- queue, taken <- InFlight`.

**BrainSession.** Session ids are numbered as the brain issues them; `issued` says
which incarnation (`epoch`) of the brain issued each, and a brain knows the sessions
of its own incarnation only. One incarnation issues several: a brain refuses posts
with 400 or 404 for other reasons too (a project it does not know), and the code
drops whatever session is current on any of them, a live one included (`Rejected`).
`lockq` is the asyncio lock: its holder first, then the waiters in order.
`Ensure` is `_ensure_session` up to its first await; `LockGranted`,
`InitSucceeds`, `InitFails` and `Negotiated` are what follows each of them;
`PostRejected` is the branch of `_post_tools_call` for 400/404 with its two
outcomes. `Abandon` cancels a caller anywhere. Brains that issue no ids (the
`__no_session__` sentinel) are below the version floor and left out.
`RetryUsesFreshSession` compares the serial numbers, which is the order of issue;
the code never compares ids, so the order is free of assumptions about them.

**CircuitBreaker.** The check, the record and the call itself are separate
steps, since the lock is not held while the call runs. The counters saturate at
their thresholds, and the time since the last failure at the reset timeout:
the code only compares them. `openFor` is history.

**BreakerStates.** The four transitions of the class docstring, without clocks,
as a user of the breaker thinks of them. What the docstring leaves unsaid, and the
10 s call timeout within the 30 s window brings about: the circuit goes half open
only when no call from before is running. `streak` is the failures in a row
while closed and the successes in a row while half open.

**HandoffGuard.** Each file operation of `guarded_write` is an action; with
`Faulty` each may fail and the process may be killed before it. `Uses` gives
each process its slots: the slots share one archive, which every writer prunes.
Documents are numbers in the order they were offered, and `program` says which
program offered each (block mode compares programs). The archive is a function from
names to documents. A name is a stamp, a counter and the slot's label, and is chosen
(`ChooseName`) in a step before the move (`Archive`), which replaces whatever has it by
then. The stamp is any of `Stamps`: nothing orders the readings of the wall clock of
two processes, or of one whose clock is set back. `Later` is the order of the sort
in `prune_archive`: under one stamp the names with a counter come before the plain
one (`+` sorts before `-`), with counters of one digit in their order. The loop that looks for a free name is one
step. A slot's label is its name; no slot has the label `default`
(`handoff_guard.py:45`), and so has a slot called `default`: `Label` may
give two slots one place. `given` and `pruned` are history.

What the names bring about, and no property states: the prune keeps the last *names*,
and those are the handoffs replaced last only while the clock goes forward and
nobody is slow between naming and moving. After a clock is set back, after another
process has archived in between, or under a `+n` name, the handoff just replaced can be
the first to be pruned, although the docstring of `prune_archive` (357-358) calls the
order chronological; with 20 names kept, that takes 20 later ones. A name can be taken by
two processes between the test and the move only if their slots share a label or
they write one slot; then the second move replaces what the first archived, which
neither the code nor `Recoverable` under these hypotheses covers.

**HandoffVault.** The handoffs without processes, temp files and failures: a slot
takes a new handoff only when it is empty, is emptied only into the archive, under a name nothing there has, gets
one back as a move, and only names with at least `Keep` later ones are dropped.
`HandoffGuard` implements it under `shelf <- path, kept <- archive`
as long as no two processes write slots of one label.

**FleetControl.** The commands of the fleet (`stop_fleet`, `start_fleet`,
`reap_superseded_fleet`, `ensure_fleet_running`) as jobs of runners, one step
per look at the world, since no lock excludes one command from another. A server
is a process that starts, then binds its port or dies because another one holds
it; it may die or hang. A restart through systemd is a stop of all and a start
of all, as its unit says; without the unit it is a forced start.
`misses` is history: bad polls of a watcher in a row.

**BlueGreen.** `_deploy_under_lock` around FleetControl's commands: build, gates,
flip, restart, smoke, reap, GC, with a kill or a failure anywhere, and stdio
clients that start from `current` at any moment. A release directory is absent,
partial, built or gutted (half deleted, its manifest still there). `rollback` and
`inPlace` are history. Gates that only refuse are one action. Simplifications:
only a whole release passes the gates before the flip (they run its binaries); a
pid is not used again while anyone remembers it; a server is started from
what `current` names at `Popen`, where the code looks the path up when
`start_fleet` begins; children that have ended count as gone at once; a timeout of
uv, which escapes as an exception, is a kill.

What a reader may stumble over, and what the model has because the code does it:
redeploying the current release makes it its own outgoing release, so that
the older one loses its protection (`rollback` follows); a restart clears nobody's
strikes; manual polls that overlap share one debounce file; a stray that ends
before it is reaped makes `os.kill` raise, which counts as an error of the reap and
blocks that deploy's GC; a deploy that looks while the watchdog has everything
stopped skips its own restart.

**ReleaseStore.** The releases without deployers, lock, faults and fleet: only an
available release becomes current, processes start from the current one, and what
is collected is neither current, nor the one before it, nor in use. `BlueGreen`
implements it with the whole releases (a rebuild in place counts) as available, and
those some server or client runs from as used: how many processes run
from a release is not visible, only that one does.

**Checklist.** One step per file operation. In production every operation names
its project, so it begins by reading marker and ledger afresh: `_active_session_id`
and `_adopted_window_ids` are no state between operations, and only the window
id is (`windows` stands for `_window_id` and `_window_id_by_key`). Writing the
marker truncates it first, and the registry is created before it is filled: both are
states another process can see. Ids have equal length, so of two overlapping
writes of a marker the last lines of the longer stay. Any write may fail, and so may
the read of the registry, which then counts as empty (449); reads of ledger and
marker do not fail. Calls are
numbered; `hourOld` says which are beyond the adoption window, and moves only when a
`begin_session` is about to ask for ages.
`for`, `inForce`, `begun` and `unregistered` are history: a session is *in force* for
its Claude session when its `begin_session` ran alone there and wrote the marker, and
until the next one begins. `begun` holds every session whose `begin_session` has
returned, `unregistered` those of them whose registry write failed: the code logs the
error (462) and returns normally. The `prior` of a session are the earlier ones
there is a record of: those begun and registered when it began, and the one its marker
named; only the latter if its `begin_session` could not read the registry.
`SessionsNotAdopted` and `EarlierCallsDoNotCount` protect exactly these. The
properties promise nothing to overlapping `begin_session`s of one Claude session:
the code does not either.

What the model also shows, and no property states: a session whose registry write
failed is an unclaimed id, which another Claude session adopts and whose calls it
counts, and so is every registered session but its own marker's for a
`begin_session` that cannot read the registry, although the docstring (583-585)
says that an unrelated prior session's rows cannot leak; `begin_session` adopts its
own window without asking the registry (line 593), so that two Claude sessions
may count the calls of one window, although the docstring (583-585) says that an
adopted id is never adopted again; the marker is written (637) before the id is
registered (638), so that a `begin_session` of another Claude session, which finds a
sibling's first call of the new session in between, adopts the live session and
counts its calls, although the docstring (575-576) says that what it adopts was never
an active session id (the properties speak of the sessions that were past
this gap); the gap between creating and filling the
registry lets a second `begin_session` miss that the registry is new; under a
registry that is new the windows of several siblings are registered and
adopted by nobody, as the comment at 619-629 has it.

Definitions whose comment begins with *Mutant* are plausible bugs. No
specification uses them; with one of them in place of the definition it varies,
TLC finds the property listed with it in `PROJECT.json` violated.

## 3. Runs

| Run | Instance | Shows |
|---|---|---|
| `bridge_safety` | 3 saves, 1 event, 1 repeatable call, cap 2, threshold 3, 3 attempts, 2 drain identities | `TypeOK`, `BreakerSane`, `SingleDrain`, `AcceptedOnce`, `SaveStartsDrain`, and that the bridge implements `OfflineQueue` |
| `bridge_live` | in-process bridge, 3 saves, 1 call, window of 2 ticks, fairness | `BreakerRecovers`, `DrainCompletes`, `RestampsUseUpCalls` |
| `bridge_undrained` | fairness; violation | queued writes wait for ever for another save although the brain is back |
| `bridge_exit` | HTTP bridge; violation | the exit flush counts writes as drained that no supported brain accepts |
| `session` | 3 callers, 2 attempts, threshold 2, 2 incarnations, 3 sessions, failing and refused requests, fairness | `HandshakeHoldsLock`, `NegotiatesWithSession`, `NoRedundantHandshake`, `RetryUsesFreshSession`, `CallsEnd`, `CallProgress` |
| `session_restart` | 4 callers, the code's thresholds, one restart, no other fault; violation | the restart opens the breaker |
| `context7_breaker` | 4 callers, thresholds 3 and 2, timeouts 2 and 6 ticks | `NoStragglers`, `BoundedOpening`, and that the breaker implements `BreakerStates` |
| `handoff` | 2 processes with a slot each, archive of 1, 4 documents, 2 stamps, faults | `TypeOK`, `CompleteOnce`, `PrunesOldest`, `Recoverable`, and that the guard implements `HandoffVault` |
| `handoff_race` | 2 processes on one slot, 3 documents, no faults; violation | a first write is replaced and in no archive |
| `deploy` | 1 server, 3 releases, 2 deployers, 1 client, 3 deploys, 1 fault, no systemd | `TypeOK`, `InUseKept`, `CurrentWhole`, `RollbackKept`, `StraysSuperseded`, and that deploys implement `ReleaseStore` |
| `fleet` | 1 server, 2 releases, timer and a person polling, 1 deploy, 2 faults, systemd, fairness | `TwoStrikes`, `FleetServed` |
| `checklist` | 2 servers of one Claude session, 1 of another, 1 project, 3 ids, 2 calls, 1 fault | `TypeOK`, `SessionCallsCount`, `EarlyCallsCount`, `SessionsNotAdopted`, `EarlierCallsDoNotCount` |

The four violations are findings: `PROJECT.json` quotes the sentence each one
contradicts. The counterexamples, in short:

* *undrained*: three failures open the breaker, a save is queued, the brain
  returns, the window passes, and nobody saves again. Only a successful save
  calls `_maybe_start_drain`.
* *exit*: a write is queued, the process exits while the brain is up;
  `drain_blocking` posts without `Mcp-Session-Id`, does not read the status and
  counts the entry.
* *restart*: four calls are under way when the brain restarts. The first 404
  sets `_session_id` to `None` and waits for the new handshake; the other three
  404s find `None`, skip the retry, and are three failures of the breaker.
* *race*: two processes read an empty path, so neither archives; the second
  `os.replace` destroys what the first one wrote.

**Bounds.** The retry limit and the thresholds of `bridge_safety` and
`context7_breaker` are the code's. Cap 2 with four writes fills the queue, drops
a write and leaves an order to get wrong; two drain identities are one more than
`SingleDrain` allows; the reset window needs one tick for safety (passed or
not) and two for liveness (so that it can be restarted half way). Three callers
are a lock holder, a waiter and one that interferes; a restart and three sessions
let a retry's session be stale again or be dropped, alive, by another caller (a
session is issued per handshake, so a bound on sessions stops further handshakes from
succeeding; they may still fail, time out or be cancelled); `session` uses two attempts and threshold two to
keep three callers tractable: retries happen, and the breaker opens with and
without a success in between. The restart needs three failures besides the
caller that shakes hands, hence four. For the Context7 breaker only
`TimeoutTicks < ResetTicks` matters (10 s and 30 s). Four documents on two slots
over an archive of one prune from both sides; two stamps make a clock that goes on,
stands still (and needs a counter) or is set back. `deploy` has three releases and
three deploys, so that a later deploy collects what an earlier one superseded,
with one fault anywhere; a second deployer shows the lock. `fleet` needs
two watchers to confuse their strikes and two faults, so that a start can be
killed before its pidfile is written and the unrecorded server can hang;
four pids hold its server, its replacement and what two commands at once leave
behind. One server suffices for both: commands treat servers one after the
other and ports do not interact. `checklist` needs two siblings and a
stranger; three ids are two sessions and a window; the same instance with two
servers and two projects passes too and adds nothing, since projects share no
file. In `FleetControl` a wrong poll and a person polling during a boot count as
faults. `MaxDocs`, `MaxDeploys` and `MaxFaults`, `MaxIds` and `MaxCalls` stop the
`handoff`, `deploy`, `fleet` and `checklist` runs, which therefore do not check
deadlock; all other runs do. `deploy` takes releases and deployers, and
`checklist` the two siblings, as symmetric; both check invariants and steps only, never
liveness, and so does `handoff`, which takes the programs as symmetric.
`checklist` lets one evaluation run at a time (`OneEvaluates`): an evaluation writes
nothing, so that two of them at once see nothing that one alone would not.

**Fairness.** Time passes (`WF(Tick)`), the event loop runs what is ready, and
each await on the brain ends: in-process calls return, HTTP has a 30 s timeout.
These are weak fairness of the continuation of each task, never of the
environment's choices: no brain has to come back, no caller has to call, no
process has to exit. `DrainsAfterReset` assumes a brain that answers from some
point on, as part of the property. For the fleet: a server that starts comes up or
dies, a command that has begun goes on, and the timer fires again and again; the
faults and the deploys are bounded, so that `FleetServed` says what happens when
they have ceased. It holds with the systemd unit, whose restart reclaims every
port. Without it, it does not: a start killed between `Popen` and the pidfile leaves
a server that `start_fleet(force=True)` does not know of (it stops a server only
if the recorded process is alive, `fleet_control.py:312-315`, although the docstring
of `stop_fleet`, 409-411, speaks of ports that no pidfile covers); if it
hangs, every later start dies on its port. In-process, `asyncio.to_thread` has no
timeout; that the store's calls return is an assumption.

## 4. Proofs

TLAPS checks, for every value of the constants that the modules' named
assumptions allow:

* `BrainBridgeProofs`: `TypeOK`, `BreakerSane`, `SingleDrain`, `AcceptedOnce`,
  `SaveStartsDrain`, and the refinement `Spec => Offline!Spec`. The inductive
  invariant adds `Quiet` (after exit has begun no task is alive, which is why
  the flush may take the head) to the four invariants. `AcceptedOnce`
  needs `SingleDrain`: with two drains alive `InFlight` could hold two writes.
  `BreakerSane` is needed so that a failure which does not open the breaker
  stays below the threshold. The step proofs have one lemma per group of
  actions and cite lemmas about the breaker's operators and about the elements
  of `Append` and `Tail`. Every step of the bridge maps to a step of
  `OfflineQueue` or leaves its variables alone. `RestampsUseUpCalls` is the safety
  core of `BreakerRecovers`: while the breaker blocks nothing new gets under way,
  and only the end of something that was sets its window back; what is left to
  fairness is that time passes.
* `BrainSessionProofs`: `TypeOK`, `HandshakeHoldsLock`, `NegotiatesWithSession`,
  `NoRedundantHandshake`, `RetryUsesFreshSession`, `CallProgress`. The inductive
  invariant adds `SessionKnown` (who initializes finds no session; who negotiates has
  one, and negotiation is not over; who posts, or has been rejected, does so after it)
  and `RejectedIsOld` (until a retry posts, the current session, if any, was issued
  after the rejected one: the rejection drops the session, whoever set it up, and
  only a handshake, which brings an id never issued before, sets it again).
  `NegotiatesWithSession` follows because only a rejected post drops the session,
  and there is no post before negotiation is over. `CallProgress` is the safety
  core of `CallsEnd`: a measure that every step of a call increases and that is
  bounded, so that no sequence of restarts, rejections and failures keeps a call
  going; it rests on a rejected post being retried once per attempt. Fairness only
  has to keep each caller moving.
* `HandoffGuardProofs`: all five properties of the guard. `TypeOK`, `CompleteOnce` and
  `PrunesOldest` hold whoever writes which slot, races and shared labels included, and
  whatever the clock shows: a temp file is its
  writer's own, every move is a rename, and what a task is about to prune has enough
  later names however long ago it made its list, since names once given stay given.
  `Recoverable` and the refinement of `HandoffVault` are proved when no two processes
  write slots of one label (`DisjointUse`, an assumption of these theorems
  alone; without it `handoff_race` shows the loss). They need `OwnInv` on top: what was
  read is still at the path until it is archived, the path is empty after that, and the
  name chosen stays free until the move, because only names of the own label could
  take it.
* `BlueGreenProofs`: `TypeOK`, `InUseKept`, `CurrentWhole`, `RollbackKept`,
  `TwoStrikes`, `StraysSuperseded`, and the refinement of `ReleaseStore`. The
  inductive invariant adds `DeployerOK`: after the flip `current` is the
  deployer's release and the rollback target what it saw before; what it is
  about to delete is neither, and nobody runs from it; what it builds is not whole.
  Processes may start while GC deletes because they start from `current`, and
  `current` is never doomed. `TwoStrikes` rests on `Noted`: what is in a watcher's
  debounce file failed its last poll. It is what
  `docs/operations/FLEET-SILENT-DEATHS-2026-08-13.md:258-262` asks of the watchdog.
  `StraysSuperseded` is inductive with `TypeOK`: only the holder of the deploy lock
  flips and only it reaps. It rests on the model's assumption that a pid is not
  used again while somebody remembers it; of `os.kill` on a recycled pid it says
  nothing. The refinement maps every step of deployer, watchdog, server and client to
  one step of the store or to none.
* `ChecklistProofs`: `TypeOK`, `SessionCallsCount`, `EarlyCallsCount`,
  `SessionsNotAdopted`, `EarlierCallsDoNotCount`. The inductive invariant adds
  `Standing` (the marker of a session in force names it and its early windows),
  `Apart` (a live window is no session's id), that sessions begun are in the registry
  unless that write failed (`FilesOK`), `Alone` (whose `begin_session` is clean is
  alone in its Claude session) and what each operation remembers of the files it has
  read (`JobOK`, `FilesOK`). `EarlierCallsDoNotCount` needs a second invariant on
  top, `Past`: from the decision of `begin_session` over its marker to the reading of
  an evaluation, adopted ids and earlier sessions are apart; it holds across the write
  of the marker because a process that is alone finds it as it truncated it, so that
  no line of an earlier text stays.
* `CircuitBreakerProofs`: `TypeOK`, `BoundedOpening`, `NoStragglers`, and the
  refinement of `BreakerStates`. The inductive invariant adds `OpenClocks`, which
  relates the clocks: while the circuit is open every running call started before it
  opened, so its age is at least the time the circuit has been open, and the time
  since the last failure lags behind by at most the call timeout. The refinement needs
  it where the circuit goes half open: nothing is running then.

Assumptions: `BreakerAssumption`, `BridgeAssumption`, `SessionAssumption`,
`ConfigAssumption`,
`GuardAssumption`, `FleetAssumption`, `DeployAssumption`, `ChecklistAssumption` (counts are positive, the sets of requests are disjoint, a
call is given up before a breaker resets). TLC evaluates each of them in the
runs.

Only model-checked: the liveness properties (`BreakerRecovers`, `DrainCompletes`,
`CallsEnd`, `FleetServed`), since liveness under fairness is out of the
prover's reach. Of the first and the third the part that is not about fairness is
proved (`RestampsUseUpCalls`, `CallProgress`). For `DrainCompletes` there is no such
bound without fairness: other saves may refill the queue while it is drained.

## 5. Not modelled

* *Documentation cache and lookup.* A file cache whose entries may be lost, halved
  or stale at any time; a lookup then fetches again, and neither the code nor its
  docs promise more. Its breaker is `CircuitBreaker`.
* *Linear gate and snapshots.* Lookups by key, limit and age in files that one call
  writes whole. The hard part, the order in which an agent lists, puts and
  invalidates, is decided outside the code.
* *Scoring, validators, gates, ratchet.* Arithmetic on the output of external
  tools, without state of their own.
* *Init and upgrade pipeline, docs-mcp, platform hooks and skills.* The bulk of the
  repository: generators of text and analysers of a source tree. Their substance is
  the text; there is no control for a model to get wrong.
* *Metrics, adaptive weights, benchmark.* Statistics whose loss is tolerated.
* *Security helpers, settings, HTTP context.* No shared state: contextvars isolate
  requests.
* *Experts, insights, playbooks, memory facade.* Thin calls on the bridge.
* *Call graph, profile caches, session notes, release backups.* Files that are
  rebuilt from what they were computed from.

Left out of modelled parts: payloads and keys of the brain's writes (so nothing is
said of a replay that overwrites a newer save), the warm cache of `tools/list`
and `profile_status`, `--dry-run` and the quiescence gate of a deploy, the
installation of the systemd units, `reset` and `set_persist_path` of the call
tracker (tests only) and its grading of tool names.

What would come next: a measure for `FleetServed` like that of `CallProgress`; a
reading of the call tracker in which two sessions never count one window, the
property the docstring asks for; keys in `BrainBridge`.
