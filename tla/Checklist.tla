------------------------------ MODULE Checklist ------------------------------
(***************************************************************************)
(* CallTracker: MCP server processes that share, per project, a ledger of  *)
(* tool calls, a registry of claimed ids, and one marker per Claude        *)
(* session naming the checklist session in force and the ids it adopted.   *)
(* A process does one operation at a time (its lock) and opens each with a *)
(* read of the marker; only the ledger is locked between processes, so a   *)
(* step is one file operation.  Ids are numbered as they are minted.       *)
(***************************************************************************)
EXTENDS Naturals, FiniteSets

CONSTANTS
  Processes,  \* MCP servers
  Projects,   \* projects whose ledgers they serve
  Claudes,    \* values of CLAUDE_CODE_SESSION_ID; one for a fleet without it
  Claude,     \* the Claude session each process belongs to
  None,
  MaxFaults,  \* bound: writes and reads that fail and processes killed
  MaxIds,     \* bound: session and window ids minted
  MaxCalls    \* bound: tool calls recorded

Ids == 1 .. MaxIds
IdOrNone == Ids \cup {None}
Calls == 1 .. MaxCalls
Rows == [id : Ids, call : Calls, for : IdOrNone]
Markers == [active : IdOrNone, adopted : SUBSET Ids]
Sessions == [sid : Ids, early : SUBSET Rows, prior : SUBSET Ids]

ASSUME ChecklistAssumption ==
  /\ Claude \in [Processes -> Claudes]
  /\ None \notin Nat /\ None \notin Projects /\ None \notin Markers
  /\ \A s \in SUBSET Ids : s # None
  /\ MaxFaults \in Nat /\ MaxIds \in Nat /\ MaxCalls \in Nat

VARIABLES
  ledger,    \* per project: the rows, each the id that owns a call, the call,
             \* and (history) the session in force when the call was made
  marker,    \* per project and Claude session: what its marker file says
  registry,  \* per project: the ids in the claimed-ids file, or None
  windows,   \* per process and project: the process's window id, or None
  job,       \* per process: the operation it is in
  ids,       \* ids minted so far
  calls,     \* calls made so far, numbered in order
  hourOld,   \* calls up to this one are older than the adoption window
  faults,    \* writes and reads that failed and processes killed so far
  inForce,   \* per project and Claude session (history): the session begun
             \* last, and the early calls its process brought; None while a
             \* begin_session is under way, or overlapped another, or could
             \* not write the marker
  begun,     \* per project (history): sessions whose begin_session is over
  unregistered \* per project (history): those of them whose begin_session
             \* could not write their ids to the registry, and returned

vars == <<ledger, marker, registry, windows, job, ids, calls, hourOld,
          faults, inForce, begun, unregistered>>
files == <<ledger, marker, registry>>
clocks == <<ids, calls, hourOld>>
history == <<inForce, begun, unregistered>>
rest == <<clocks, faults, history>>

\* An empty marker, and what a process takes an absent one for.
Blank == [active |-> None, adopted |-> {}]

Free == [pc |-> "free", project |-> None, sid |-> None, read |-> Blank,
         row |-> None, seen |-> {}, new |-> FALSE, adopted |-> {},
         append |-> {}, seeding |-> FALSE, clean |-> FALSE,
         first |-> FALSE, prior |-> {}, session |-> None]

Init ==
  /\ ledger = [j \in Projects |-> {}]
  /\ marker = [j \in Projects |-> [c \in Claudes |-> None]]
  /\ registry = [j \in Projects |-> None]
  /\ windows = [p \in Processes |-> [j \in Projects |-> None]]
  /\ job = [p \in Processes |-> Free]
  /\ ids = 0 /\ calls = 0 /\ hourOld = 0 /\ faults = 0
  /\ inForce = [j \in Projects |-> [c \in Claudes |-> None]]
  /\ begun = [j \in Projects |-> {}]
  /\ unregistered = [j \in Projects |-> {}]

-----------------------------------------------------------------------------
\* Mutant: one marker for the project.
KeyUnscoped(p) == CHOOSE c \in Claudes : TRUE

\* The marker file of a process: one per Claude session.
Key(p) == Claude[p]

\* Mutant: a restart forgets what the session adopted.
LoadActive(p, j) ==
  IF marker[j][Key(p)] = None THEN Blank
  ELSE [marker[j][Key(p)] EXCEPT !.adopted = {}]

\* _load_active_session_id, done again by every bind.
Load(p, j) ==
  IF marker[j][Key(p)] = None THEN Blank ELSE marker[j][Key(p)]

Window(p) == windows[p][job[p].project]

\* _owning_session_ids
Owners(read, window) ==
  IF read.active # None THEN {read.active} \cup read.adopted
                        ELSE {window} \ {None}

\* A write or a read fails, or a process dies.
Fault == faults < MaxFaults /\ faults' = faults + 1

Is(p, pc) == job[p].pc = pc
Ends(p) == job' = [job EXCEPT ![p] = Free]

-----------------------------------------------------------------------------
\* record: the call belongs to the session the marker names, or to the
\* process's window, minted when it is first needed.
Record(p, j) ==
  /\ job[p] = Free
  /\ calls < MaxCalls
  /\ LET active == Load(p, j).active
         fresh == active = None /\ windows[p][j] = None
         id == IF active # None THEN active
               ELSE IF fresh THEN ids + 1 ELSE windows[p][j]
         now == inForce[j][Claude[p]]
     IN /\ fresh => ids < MaxIds
        /\ ids' = IF fresh THEN ids + 1 ELSE ids
        /\ windows' = IF fresh THEN [windows EXCEPT ![p][j] = id] ELSE windows
        /\ job' = [job EXCEPT ![p] = [Free EXCEPT
             !.pc = "append", !.project = j,
             !.row = [id |-> id, call |-> calls + 1,
                      for |-> IF now = None THEN None ELSE now.sid]]]
  /\ calls' = calls + 1
  /\ UNCHANGED <<files, hourOld, faults, history>>

\* _persist_record appends the row, or fails and the call is forgotten.
Append(p) ==
  /\ Is(p, "append")
  /\ \/ /\ ledger' = [ledger EXCEPT ![job[p].project] = @ \cup {job[p].row}]
        /\ UNCHANGED faults
     \/ Fault /\ UNCHANGED ledger
  /\ Ends(p)
  /\ UNCHANGED <<marker, registry, windows, clocks, history>>

-----------------------------------------------------------------------------
Beginning(p, j, c) ==
  /\ job[p].pc \in {"scan", "look", "decide", "open", "flush", "truncate", "write"}
  /\ job[p].project = j /\ Claude[p] = c

\* begin_session mints an id and reads the marker.  The earlier sessions there
\* is a record of are those in the registry and the one the marker names.
Begin(p, j) ==
  /\ job[p] = Free
  /\ ids < MaxIds
  /\ ids' = ids + 1
  /\ LET c == Claude[p]
         read == Load(p, j)
         mine == [Free EXCEPT
           !.pc = "scan", !.project = j, !.sid = ids + 1, !.read = read,
           !.clean = \A q \in Processes : ~Beginning(q, j, c),
           !.first = marker[j][c] = None,
           !.prior = ((begun[j] \ unregistered[j]) \cup {read.active}) \ {None}]
     IN /\ job' = [q \in Processes |->
             IF q = p THEN mine
             ELSE IF Beginning(q, j, c) THEN [job[q] EXCEPT !.clean = FALSE]
             ELSE job[q]]
        /\ inForce' = [inForce EXCEPT ![j][c] = None]
  /\ UNCHANGED <<files, windows, calls, hourOld, faults, begun, unregistered>>

\* The ledger is reloaded.
Scan(p) ==
  /\ Is(p, "scan")
  /\ job' = [job EXCEPT ![p].pc = "look", ![p].seen = ledger[job[p].project]]
  /\ UNCHANGED <<files, windows, rest>>

\* registry_is_new
Look(p) ==
  /\ Is(p, "look")
  /\ job' = [job EXCEPT ![p].pc = "decide",
                        ![p].new = registry[job[p].project] = None]
  /\ UNCHANGED <<files, windows, rest>>

\* What _load_claimed_ids finds, unless the file cannot be read.
Registered(p) ==
  LET known == registry[job[p].project] IN IF known = None THEN {} ELSE known

\* Mutant: only the registry tells.
ClaimedInRegistry(p, known) == known \cup {job[p].sid}

\* The ids that no session can have orphaned: those known from the registry,
\* the new one, and the one the marker named.
Claimed(p, known) ==
  known \cup {job[p].sid} \cup ({job[p].read.active} \ {None})

\* Unclaimed ids with a call inside the adoption window.
Candidates(p, known) ==
  {r.id : r \in {x \in job[p].seen : x.call > hourOld}} \ Claimed(p, known)

\* Under a registry that is new, several candidates are older history: they
\* are registered and none is adopted.
Seeding(p, known) == job[p].new /\ \E a, b \in Candidates(p, known) : a # b

\* Mutant: a process without a window of its own adopts it all the same.
AdoptsAnyWindow(p, known) ==
  (IF job[p].read.active = None THEN {Window(p)} ELSE {})
    \cup (IF Seeding(p, known) THEN {} ELSE Candidates(p, known))

\* The session takes the process's own window when the marker named no
\* session, and the candidates.
Adopts(p, known) ==
  (IF job[p].read.active = None THEN {Window(p)} \ {None} ELSE {})
    \cup (IF Seeding(p, known) THEN {} ELSE Candidates(p, known))

\* From here on only a clean begin_session needs its prior sessions (history).
Decides(p, known, prior) ==
  job' = [job EXCEPT ![p] =
    [@ EXCEPT !.read = Blank, !.seen = {}, !.new = FALSE,
              !.prior = IF job[p].clean THEN prior ELSE {},
              !.pc = IF Seeding(p, known) THEN "open" ELSE "truncate",
              !.seeding = Seeding(p, known),
              !.append = IF Seeding(p, known) THEN Candidates(p, known) ELSE {},
              !.adopted = Adopts(p, known)]]

\* A registry that cannot be read counts as empty: of the earlier sessions only
\* the one the marker named is then on record.
Decide(p) ==
  /\ Is(p, "decide")
  /\ \/ Decides(p, Registered(p), job[p].prior) /\ UNCHANGED faults
     \/ /\ Fault /\ registry[job[p].project] # None
        /\ Decides(p, {}, job[p].prior \cap {job[p].read.active})
  /\ UNCHANGED <<files, windows, clocks, history>>

\* Mutant: only the adopted windows are registered.
RegistersAdopted(p) == [job EXCEPT ![p].pc = "open",
                                   ![p].append = job[p].adopted,
                                   ![p].adopted = {}]

\* What the last append writes.
Registers(p) == [job EXCEPT ![p].pc = "open",
                            ![p].append = {job[p].sid} \cup job[p].adopted,
                            ![p].adopted = {}]
SkipMarker(p) == job' = [Registers(p) EXCEPT ![p].clean = FALSE]

\* Writing the marker truncates it first ...
Truncate(p) ==
  /\ Is(p, "truncate")
  /\ \/ /\ marker' = [marker EXCEPT ![job[p].project][Key(p)] = Blank]
        /\ job' = [job EXCEPT ![p].pc = "write"]
        /\ UNCHANGED faults
     \/ Fault /\ SkipMarker(p) /\ UNCHANGED marker
  /\ UNCHANGED <<ledger, registry, windows, clocks, history>>

\* ... and then fills it.  Of a longer text that another process has written
\* meanwhile, the last lines stay.
WriteMarker(p) ==
  /\ Is(p, "write")
  /\ \/ /\ LET old == Load(p, job[p].project).adopted
               new == job[p].adopted
           IN \E tail \in SUBSET old :
                /\ Cardinality(tail) = IF Cardinality(old) > Cardinality(new)
                     THEN Cardinality(old) - Cardinality(new) ELSE 0
                /\ marker' = [marker EXCEPT ![job[p].project][Key(p)] =
                     [active |-> job[p].sid, adopted |-> new \cup tail]]
        /\ job' = Registers(p)
        /\ UNCHANGED faults
     \/ Fault /\ SkipMarker(p) /\ UNCHANGED marker
  /\ UNCHANGED <<ledger, registry, windows, clocks, history>>

\* After its first append begin_session writes the marker, after the second it
\* is over, whether the append failed or not.  A session begun alone, whose marker
\* is written (clean), is in force, and its process brings the calls it made
\* before any session.
Appended(p, failed) ==
  LET j == job[p].project
      early == {r \in ledger[j] : r.id = Window(p)}
  IN IF job[p].seeding
     THEN /\ job' = [job EXCEPT ![p].pc = "truncate", ![p].seeding = FALSE,
                                ![p].append = {}]
          /\ UNCHANGED history
     ELSE /\ Ends(p)
          /\ begun' = [begun EXCEPT ![j] = @ \cup {job[p].sid}]
          /\ unregistered' = IF failed
               THEN [unregistered EXCEPT ![j] = @ \cup {job[p].sid}]
               ELSE unregistered
          /\ inForce' =
               IF job[p].clean
               THEN [inForce EXCEPT ![j][Claude[p]] =
                      [sid |-> job[p].sid,
                       early |-> IF job[p].first THEN early ELSE {},
                       prior |-> job[p].prior]]
               ELSE inForce

\* _append_claimed_ids: opening the registry creates it, still empty ...
Open(p) ==
  /\ Is(p, "open")
  /\ \/ /\ registry' = [registry EXCEPT ![job[p].project] =
                          IF @ = None THEN {} ELSE @]
        /\ job' = [job EXCEPT ![p].pc = "flush"]
        /\ UNCHANGED <<faults, history>>
     \/ Fault /\ Appended(p, TRUE) /\ UNCHANGED registry
  /\ UNCHANGED <<ledger, marker, windows, clocks>>

\* ... and closing it writes the lines.
Flush(p) ==
  /\ Is(p, "flush")
  /\ \/ /\ registry' = [registry EXCEPT ![job[p].project] = @ \cup job[p].append]
        /\ Appended(p, FALSE)
        /\ UNCHANGED faults
     \/ Fault /\ Appended(p, TRUE) /\ UNCHANGED registry
  /\ UNCHANGED <<ledger, marker, windows, clocks>>

-----------------------------------------------------------------------------
\* evaluate: reads the marker ...
Evaluate(p, j) ==
  /\ job[p] = Free
  /\ job' = [job EXCEPT ![p] = [Free EXCEPT
       !.pc = "count", !.project = j, !.read = Load(p, j),
       !.session = inForce[j][Claude[p]]]]
  /\ UNCHANGED <<files, windows, rest>>

\* ... and counts the rows of the ids it owns ...
Counted(p) ==
  {r.call : r \in {x \in ledger[job[p].project] :
                     x.id \in Owners(job[p].read, Window(p))}}

\* ... in the ledger it loads.
Count(p) ==
  /\ Is(p, "count")
  /\ Ends(p)
  /\ UNCHANGED <<files, windows, rest>>

-----------------------------------------------------------------------------
\* The process dies, and with it what it remembers; its replacement starts
\* with nothing.
Kill(p) ==
  /\ Fault
  /\ job[p] # Free \/ \E j \in Projects : windows[p][j] # None
  /\ Ends(p)
  /\ windows' = [windows EXCEPT ![p] = [j \in Projects |-> None]]
  /\ UNCHANGED <<files, clocks, history>>

\* A call becomes too old to be adopted.  Only a begin_session that decides asks
\* for ages: the time since the last decision passes just before the next.
TimePasses ==
  /\ \E p \in Processes : Is(p, "decide") /\ \E r \in job[p].seen : hourOld' = r.call
  /\ hourOld' \in hourOld + 1 .. calls
  /\ UNCHANGED <<files, windows, job, ids, calls, faults, history>>

Next ==
  \/ \E p \in Processes :
       \/ \E j \in Projects : Record(p, j) \/ Begin(p, j) \/ Evaluate(p, j)
       \/ Append(p)
       \/ Scan(p) \/ Look(p) \/ Decide(p)
       \/ Truncate(p) \/ WriteMarker(p) \/ Open(p) \/ Flush(p)
       \/ Count(p)
       \/ Kill(p)
  \/ TimePasses

Spec == Init /\ [][Next]_vars

-----------------------------------------------------------------------------
\* Type correctness: what ledgers, markers and the registry hold are ids that
\* were minted and calls that were made.
TypeOK ==
  /\ ids \in 0 .. MaxIds /\ calls \in 0 .. MaxCalls /\ hourOld \in 0 .. calls
  /\ faults \in 0 .. MaxFaults
  /\ ledger \in [Projects -> SUBSET Rows]
  /\ marker \in [Projects -> [Claudes -> Markers \cup {None}]]
  /\ registry \in [Projects -> (SUBSET Ids) \cup {None}]
  /\ windows \in [Processes -> [Projects -> IdOrNone]]
  /\ job \in [Processes ->
       [pc : {"free", "append", "scan", "look", "decide", "truncate", "write",
              "open", "flush", "count"},
        project : Projects \cup {None}, sid : IdOrNone, read : Markers,
        row : Rows \cup {None}, seen : SUBSET Rows, new : BOOLEAN,
        adopted : SUBSET Ids, append : SUBSET Ids, seeding : BOOLEAN,
        clean : BOOLEAN, first : BOOLEAN,
        prior : SUBSET Ids, session : Sessions \cup {None}]]
  /\ inForce \in [Projects -> [Claudes -> Sessions \cup {None}]]
  /\ begun \in [Projects -> SUBSET Ids]
  /\ unregistered \in [Projects -> SUBSET Ids]

\* An evaluation that starts with a session in force counts every call that
\* any process of that Claude session made since the session began, whatever
\* other Claude sessions begin, adopt and restart meanwhile.
SessionCallsCount ==
  \A p \in Processes : Is(p, "count") /\ job[p].session # None =>
    \A r \in ledger[job[p].project] :
      r.for = job[p].session.sid => r.call \in Counted(p)

\* The calls a process made before its Claude session began one count towards
\* the session it begins, for any process of that Claude session that
\* evaluates, and after the process that made them was restarted.
EarlyCallsCount ==
  \A p \in Processes : Is(p, "count") /\ job[p].session # None =>
    \A r \in job[p].session.early : r.call \in Counted(p)

\* An evaluation counts no call of an earlier session, of its own Claude session
\* or another, if there was a record of that session when the one it evaluates
\* began: its begin_session was over and had written its id to the registry, or
\* the marker named it, even if it had died before it reached the registry.
\* Nothing is promised of a session whose begin_session could not write the
\* registry, or by one that could not read it, though both return normally.
EarlierCallsDoNotCount ==
  \A p \in Processes : Is(p, "count") /\ job[p].session # None =>
    \A r \in ledger[job[p].project] :
      r.id \in Owners(job[p].read, Window(p)) => r.for \notin job[p].session.prior

\* begin_session never adopts an earlier session it has a record of: with a
\* registry it can read, none that is registered; and, with or without it, not
\* the one its own marker names.
SessionsNotAdopted ==
  \A p \in Processes : Is(p, "decide") =>
    /\ Adopts(p, Registered(p)) \cap job[p].prior = {}
    /\ job[p].read.active \notin Adopts(p, {})
=============================================================================
