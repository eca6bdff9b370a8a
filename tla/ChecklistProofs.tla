--------------------------- MODULE ChecklistProofs ---------------------------
(***************************************************************************)
(* Proofs about Checklist, for any number of processes, projects and       *)
(* Claude sessions, with writes that fail and processes that die anywhere. *)
(***************************************************************************)
EXTENDS Checklist, TLAPS

-----------------------------------------------------------------------------
(* The invariant.                                                          *)

BeginPcs == {"scan", "look", "decide", "open", "flush", "truncate", "write"}

Begins(p) == job[p].pc \in BeginPcs
Reads(p) == job[p].pc \in {"scan", "look", "decide"}
Registering(p) == job[p].pc \in {"open", "flush"} /\ ~job[p].seeding

\* What an operation has at hand while it is under way.
ShapeOK(p) ==
  /\ job[p].pc # "free" => job[p].project \in Projects
  /\ Is(p, "append") => job[p].row \in Rows
  /\ Begins(p) => job[p].sid \in Ids
  /\ Is(p, "flush") => registry[job[p].project] # None
  /\ job[p].seeding => job[p].pc \in {"open", "flush"}

\* The ids a process holds were minted.
MintedOK(p) ==
  /\ job[p].sid # None => job[p].sid \in 1 .. ids
  /\ job[p].read.active # None => job[p].read.active \in 1 .. ids
  /\ \A j \in Projects : windows[p][j] # None => windows[p][j] \in 1 .. ids

\* A session that is over and registered.
Recorded(s, j) == s \in begun[j] /\ registry[j] # None /\ s \in registry[j]

\* What begin_session must not adopt it can recognise, and it registers its id.
PriorOK(p) ==
  /\ Registering(p) => job[p].sid \in job[p].append
  /\ Reads(p) => \A s \in job[p].prior :
       s # None /\ (s = job[p].read.active \/ Recorded(s, job[p].project))

\* A call made while a session is in force belongs to it.
RowOK(p) ==
  Is(p, "append") /\ job[p].row.for # None => job[p].row.id = job[p].row.for

\* What a clean begin_session has made of its marker so far.
CleanOK(p) ==
  Begins(p) /\ job[p].clean =>
    LET j == job[p].project
        w == windows[p][j]
        early == job[p].first /\ w # None
    IN /\ Reads(p) /\ job[p].first => job[p].read.active = None
       /\ (job[p].pc \in {"truncate", "write"} \/ job[p].seeding) /\ early
            => w \in job[p].adopted
       /\ Registering(p) =>
            /\ marker[j][Claude[p]] # None
            /\ marker[j][Claude[p]].active = job[p].sid
            /\ early => w \in marker[j][Claude[p]].adopted

\* What an evaluation that started with a session in force has read.
ReadingOK(p) ==
  Is(p, "count") /\ job[p].session # None =>
    /\ job[p].read.active = job[p].session.sid
    /\ \A r \in job[p].session.early :
         r \in ledger[job[p].project] /\ r.id \in job[p].read.adopted

JobOK(p) == /\ ShapeOK(p) /\ MintedOK(p) /\ PriorOK(p)
            /\ RowOK(p) /\ CleanOK(p) /\ ReadingOK(p)

\* The ids in the files were minted, sessions whose begin_session is over are
\* registered unless that write failed, and calls made while a session was in
\* force belong to it.
FilesOK ==
  /\ \A j \in Projects : begun[j] \subseteq 1 .. ids
  /\ \A j \in Projects, c \in Claudes :
       marker[j][c] # None /\ marker[j][c].active # None
         => marker[j][c].active \in 1 .. ids
  /\ \A j \in Projects : \A s \in begun[j] \ unregistered[j] : Recorded(s, j)
  /\ \A j \in Projects : \A r \in ledger[j] : r.for # None => r.id = r.for

\* The marker of a session in force is its own, and owns its early calls.
Standing ==
  \A j \in Projects, c \in Claudes : inForce[j][c] # None =>
    /\ marker[j][c] # None
    /\ marker[j][c].active = inForce[j][c].sid
    /\ \A r \in inForce[j][c].early :
         r \in ledger[j] /\ r.id \in marker[j][c].adopted

\* A live window is not the id of a session.
Session(w) ==
  \/ \E j \in Projects : w \in begun[j]
  \/ \E j \in Projects, c \in Claudes :
       marker[j][c] # None /\ marker[j][c].active = w
  \/ \E p \in Processes : job[p].sid = w \/ job[p].read.active = w

Apart ==
  \A p \in Processes, j \in Projects :
    windows[p][j] # None => ~Session(windows[p][j])

\* No other begin_session of its Claude session runs beside a clean one, and
\* none at all while a session is in force.
Alone ==
  /\ \A p, q \in Processes : Begins(p) /\ job[p].clean /\ q # p
       => ~Beginning(q, job[p].project, Claude[p])
  /\ \A p \in Processes, j \in Projects, c \in Claudes :
       inForce[j][c] # None => ~Beginning(p, j, c)

IInv == /\ TypeOK
        /\ \A p \in Processes : JobOK(p)
        /\ FilesOK /\ Standing /\ Apart /\ Alone

Jobs == [pc : {"free", "append", "scan", "look", "decide", "truncate", "write",
               "open", "flush", "count"},
         project : Projects \cup {None}, sid : IdOrNone, read : Markers,
         row : Rows \cup {None}, seen : SUBSET Rows, new : BOOLEAN,
         adopted : SUBSET Ids, append : SUBSET Ids, seeding : BOOLEAN,
         clean : BOOLEAN, first : BOOLEAN,
         prior : SUBSET Ids, session : Sessions \cup {None}]

LEMMA FreeTyped == Free \in Jobs
  BY ChecklistAssumption DEF Free, Jobs, Markers, IdOrNone, Blank

LEMMA TypeFacts ==
  ASSUME TypeOK
  PROVE  /\ ids \in Nat /\ ids <= MaxIds /\ calls \in Nat /\ calls <= MaxCalls
         /\ hourOld \in Nat /\ hourOld <= calls /\ faults \in 0 .. MaxFaults
         /\ ledger \in [Projects -> SUBSET Rows]
         /\ marker \in [Projects -> [Claudes -> Markers \cup {None}]]
         /\ registry \in [Projects -> (SUBSET Ids) \cup {None}]
         /\ windows \in [Processes -> [Projects -> IdOrNone]]
         /\ job \in [Processes -> Jobs]
         /\ inForce \in [Projects -> [Claudes -> Sessions \cup {None}]]
         /\ begun \in [Projects -> SUBSET Ids]
         /\ unregistered \in [Projects -> SUBSET Ids]
         /\ \A p \in Processes : Claude[p] \in Claudes
<1>1. ids \in 0 .. MaxIds /\ calls \in 0 .. MaxCalls /\ hourOld \in 0 .. calls
  BY DEF TypeOK
<1> QED BY <1>1, ChecklistAssumption DEF TypeOK, Jobs

LEMMA InitEstablishes == Init => IInv
<1> SUFFICES ASSUME Init PROVE IInv
  OBVIOUS
<1> USE ChecklistAssumption
<1>1. TypeOK
  <2>1. job \in [Processes -> Jobs]
    BY FreeTyped DEF Init
  <2> QED BY <2>1 DEF Init, TypeOK, Jobs, IdOrNone
<1>2. \A p \in Processes : JobOK(p)
  BY DEF Init, JobOK, ShapeOK, MintedOK, PriorOK, RowOK, CleanOK, ReadingOK, Is,
         Begins, BeginPcs, Reads, Registering, Free, Blank
<1>3. FilesOK /\ Standing /\ Apart /\ Alone
  BY DEF Init, FilesOK, Standing, Apart, Alone, Begins, BeginPcs, Beginning, Free
<1> QED BY <1>1, <1>2, <1>3 DEF IInv

-----------------------------------------------------------------------------
(* What a step of another process leaves.                                  *)

LEMMA OthersKeep ==
  ASSUME TypeOK, NEW q \in Processes, JobOK(q),
         \/ job'[q] = job[q]
         \/ job'[q] = [job[q] EXCEPT !.clean = FALSE],
         windows'[q] = windows[q],
         ids' \in Nat, ids <= ids',
         \A j \in Projects : /\ registry[j] # None =>
                                registry'[j] # None /\ registry[j] \subseteq registry'[j]
                             /\ begun[j] \subseteq begun'[j]
                             /\ ledger[j] \subseteq ledger'[j],
         Begins(q) /\ job[q].clean =>
           marker'[job[q].project][Claude[q]] = marker[job[q].project][Claude[q]]
  PROVE  JobOK(q)'
<1> USE DEF Is, Begins, BeginPcs, Reads, Registering
<1>1. job[q] \in Jobs /\ ids \in Nat
  BY DEF TypeOK, Jobs
<1>2. /\ job'[q].pc = job[q].pc /\ job'[q].project = job[q].project
      /\ job'[q].sid = job[q].sid /\ job'[q].read = job[q].read
      /\ job'[q].row = job[q].row /\ job'[q].adopted = job[q].adopted
      /\ job'[q].append = job[q].append /\ job'[q].seeding = job[q].seeding
      /\ job'[q].first = job[q].first /\ job'[q].prior = job[q].prior
      /\ job'[q].session = job[q].session
      /\ job'[q].clean => job[q].clean
  BY <1>1 DEF Jobs
<1>3. ShapeOK(q)'
  BY <1>2 DEF JobOK, ShapeOK
<1>4. MintedOK(q)'
  BY <1>1, <1>2 DEF JobOK, MintedOK
<1>5. PriorOK(q)'
  BY <1>2 DEF JobOK, ShapeOK, PriorOK, Recorded
<1>6. RowOK(q)'
  BY <1>2 DEF JobOK, RowOK
<1>7. CleanOK(q)'
  BY <1>2 DEF JobOK, CleanOK
<1>8. ReadingOK(q)'
  BY <1>2 DEF JobOK, ShapeOK, ReadingOK
<1> QED BY <1>3, <1>4, <1>5, <1>6, <1>7, <1>8 DEF JobOK

LEMMA AloneKeeps ==
  ASSUME Alone,
         \A q \in Processes :
           /\ Begins(q)' => Begins(q) /\ job'[q].project = job[q].project
           /\ Begins(q)' /\ job'[q].clean => job[q].clean,
         \A j \in Projects, c \in Claudes :
           inForce'[j][c] # None => inForce[j][c] # None
  PROVE  Alone'
  BY DEF Alone, Begins, BeginPcs, Beginning

\* A session id enters the files only from a job, so that no window becomes one.
LEMMA ApartKeeps ==
  ASSUME Apart,
         \A q \in Processes, j \in Projects :
           windows'[q][j] = None \/ windows'[q][j] = windows[q][j],
         \A w : Session(w)' => Session(w) \/ w = None
  PROVE  Apart'
  BY DEF Apart

\* A step in which one process moves on, and neither windows, markers, registry
\* nor history change.
LEMMA QuietStep ==
  ASSUME IInv, NEW p \in Processes,
         NEW new \in Jobs, job' = [job EXCEPT ![p] = new],
         windows' = windows, marker' = marker, registry' = registry,
         ids' = ids, calls' = calls, hourOld' = hourOld,
         faults' \in 0 .. MaxFaults, inForce' = inForce, begun' = begun,
         unregistered' = unregistered,
         ledger' \in [Projects -> SUBSET Rows],
         \A j \in Projects :
           /\ ledger[j] \subseteq ledger'[j]
           /\ \A r \in ledger'[j] : r.for # None => r.id = r.for,
         new.pc \in BeginPcs => /\ Begins(p) /\ new.project = job[p].project
                                /\ new.clean => job[p].clean,
         \/ new.sid = None \/ new.sid = job[p].sid,
         \/ new.read.active = None \/ new.read.active = job[p].read.active
         \/ \E j \in Projects, c \in Claudes :
              marker[j][c] # None /\ new.read.active = marker[j][c].active,
         ShapeOK(p)', PriorOK(p)', RowOK(p)', CleanOK(p)', ReadingOK(p)'
  PROVE  IInv'
<1>1. /\ job' \in [Processes -> Jobs] /\ job'[p] = new
      /\ \A q \in Processes : q # p => job'[q] = job[q]
      /\ job \in [Processes -> Jobs]
  BY DEF IInv, TypeOK, Jobs
<1>2. TypeOK'
  BY <1>1 DEF IInv, TypeOK, Jobs
<1>3. ids \in Nat
  BY DEF IInv, TypeOK
<1>4. ASSUME NEW q \in Processes, q # p PROVE JobOK(q)'
  <2>1. TypeOK /\ JobOK(q) /\ job'[q] = job[q] /\ windows'[q] = windows[q]
    BY <1>1, <1>4 DEF IInv
  <2>2. \A j \in Projects : /\ registry[j] # None =>
                               registry'[j] # None /\ registry[j] \subseteq registry'[j]
                            /\ begun[j] \subseteq begun'[j]
                            /\ ledger[j] \subseteq ledger'[j]
    OBVIOUS
  <2>3. marker'[job[q].project][Claude[q]] = marker[job[q].project][Claude[q]]
    OBVIOUS
  <2>4. ids' \in Nat /\ ids <= ids'
    BY <1>3
  <2> QED BY <2>1, <2>2, <2>3, <2>4, OthersKeep
<1>5. JobOK(p)'
  <2>1. MintedOK(p)'
    BY <1>1 DEF IInv, JobOK, MintedOK, FilesOK
  <2> QED BY <2>1 DEF JobOK
<1>6. FilesOK'
  BY DEF IInv, FilesOK, Recorded
<1>7. Standing'
  BY DEF IInv, Standing
<1>8. Apart'
  <2>1. \A w : Session(w)' => Session(w) \/ w = None
    BY <1>1 DEF Session
  <2> QED BY <2>1, ApartKeeps DEF IInv
<1>9. Alone'
  BY <1>1, AloneKeeps DEF IInv, Begins
<1> QED BY <1>2, <1>4, <1>5, <1>6, <1>7, <1>8, <1>9 DEF IInv

-----------------------------------------------------------------------------
(* record.                                                                 *)

LEMMA RecordStep ==
  ASSUME IInv, NEW p \in Processes, NEW j \in Projects, Record(p, j) PROVE IInv'
<1> USE ChecklistAssumption
<1> DEFINE active == Load(p, j).active
           fresh == active = None /\ windows[p][j] = None
           id == IF active # None THEN active
                 ELSE IF fresh THEN ids + 1 ELSE windows[p][j]
           now == inForce[j][Claude[p]]
           row == [id |-> id, call |-> calls + 1,
                   for |-> IF now = None THEN None ELSE now.sid]
           new == [Free EXCEPT !.pc = "append", !.project = j, !.row = row]
<1>t. /\ TypeOK /\ ids \in Nat /\ calls \in Nat /\ ids <= MaxIds /\ calls < MaxCalls
      /\ Claude[p] \in Claudes /\ hourOld \in 0 .. calls
  BY TypeFacts DEF IInv, Record
<1>a. active \in IdOrNone
  BY <1>t DEF TypeOK, Load, Key, Markers, Blank, IdOrNone
<1>w. windows[p][j] \in IdOrNone
  BY <1>t DEF TypeOK
<1>m. /\ fresh => ids < MaxIds
      /\ ids' = IF fresh THEN ids + 1 ELSE ids
      /\ windows' = IF fresh THEN [windows EXCEPT ![p][j] = id] ELSE windows
      /\ job' = [job EXCEPT ![p] = new]
      /\ calls' = calls + 1
      /\ UNCHANGED <<ledger, marker, registry, hourOld, faults, inForce, begun,
                     unregistered>>
  BY DEF Record, files, history
<1>i. id \in Ids /\ calls + 1 \in Calls
  BY <1>a, <1>w, <1>t, <1>m DEF IdOrNone, Ids, Calls
<1>f. now = None \/ now.sid \in Ids
  BY <1>t DEF TypeOK, Sessions
<1>r. row \in Rows
  BY <1>i, <1>f DEF Rows, IdOrNone
<1>n. new \in Jobs
  <2> HIDE DEF row
  <2> QED BY <1>r, FreeTyped DEF Jobs, Free
<1>1. /\ job' \in [Processes -> Jobs] /\ job'[p] = new
      /\ \A q \in Processes : q # p => job'[q] = job[q]
  <2> HIDE DEF new
  <2> QED BY <1>t, <1>m, <1>n DEF TypeOK, Jobs
<1>v. /\ windows' \in [Processes -> [Projects -> IdOrNone]]
      /\ \A q \in Processes : q # p => windows'[q] = windows[q]
      /\ \A k \in Projects : windows'[p][k] = windows[p][k]
           \/ (fresh /\ k = j /\ windows'[p][k] = ids + 1)
  <2>1. CASE fresh
    <3>1. windows' = [windows EXCEPT ![p][j] = ids + 1] /\ ids + 1 \in IdOrNone
      BY <2>1, <1>m, <1>t DEF IdOrNone, Ids
    <3> QED BY <3>1, <2>1, <1>t DEF TypeOK
  <2>2. CASE ~fresh
    BY <2>2, <1>m, <1>t DEF TypeOK
  <2> QED BY <2>1, <2>2
<1>2. TypeOK'
  <2> HIDE DEF new, fresh
  <2>1. ids' \in 0 .. MaxIds /\ calls' \in 0 .. MaxCalls /\ hourOld' \in 0 .. calls'
    BY <1>m, <1>t
  <2> QED BY <2>1, <1>1, <1>v, <1>m, <1>t DEF TypeOK, Jobs
<1>g. ids' \in Nat /\ ids <= ids'
  BY <1>m, <1>t
<1>3. \A q \in Processes : q # p => JobOK(q)'
  <2> HIDE DEF new, fresh
  <2> QED BY <1>1, <1>v, <1>m, <1>g, <1>t, OthersKeep DEF IInv
<1>4. JobOK(p)'
  <2>0. /\ job'[p].pc = "append" /\ job'[p].project = j /\ job'[p].row = row
        /\ job'[p].sid = None /\ job'[p].read = Blank /\ ~job'[p].seeding
    BY <1>1 DEF Free
  <2>1. ShapeOK(p)'
    <3> HIDE DEF row, new
    <3> QED BY <2>0, <1>r DEF ShapeOK, Is, Begins, BeginPcs
  <2>2. MintedOK(p)'
    <3> HIDE DEF new, fresh
    <3> QED BY <2>0, <1>v, <1>g, <1>m, <1>t DEF MintedOK, IInv, JobOK, Blank
  <2>3. RowOK(p)'
    <3>1. now # None => now.sid \in Ids /\ now.sid # None
      BY <1>f DEF Ids
    <3>2. now # None => active = now.sid
      BY <1>t DEF IInv, Standing, Load, Key
    <3> QED BY <2>0, <3>1, <3>2 DEF RowOK
  <2>4. PriorOK(p)' /\ CleanOK(p)' /\ ReadingOK(p)'
    BY <2>0 DEF PriorOK, CleanOK, ReadingOK, Is, Begins, BeginPcs, Reads, Registering
  <2> QED BY <2>1, <2>2, <2>3, <2>4 DEF JobOK
<1>5. FilesOK' /\ Standing'
  <2> HIDE DEF new, fresh
  <2> QED BY <1>m, <1>t, <1>g DEF IInv, FilesOK, Recorded, Standing
<1>6. Apart'
  <2>1. \A w : Session(w)' => Session(w) \/ w = None
    <3>1. job'[p].sid = None /\ job'[p].read.active = None
      BY <1>1 DEF Free, Blank
    <3> HIDE DEF new, fresh
    <3> QED BY <1>1, <1>m, <3>1 DEF Session
  <2>2. ~Session(ids + 1)
    BY <1>t DEF IInv, Session, FilesOK, JobOK, MintedOK
  <2> HIDE DEF new, fresh
  <2> QED BY <2>1, <2>2, <1>v, <1>t DEF IInv, Apart
<1>7. Alone'
  <2>1. job'[p].pc = "append"
    BY <1>1 DEF Free
  <2> HIDE DEF new, fresh
  <2> QED BY <1>1, <2>1, <1>m, AloneKeeps DEF IInv, Begins, BeginPcs
<1> QED BY <1>2, <1>3, <1>4, <1>5, <1>6, <1>7 DEF IInv

LEMMA AppendStep ==
  ASSUME IInv, NEW p \in Processes, Append(p) PROVE IInv'
<1> USE ChecklistAssumption
<1>1. /\ job' = [job EXCEPT ![p] = Free]
      /\ windows' = windows /\ marker' = marker /\ registry' = registry
      /\ ids' = ids /\ calls' = calls /\ hourOld' = hourOld
      /\ inForce' = inForce /\ begun' = begun /\ unregistered' = unregistered
  BY DEF Append, Ends, clocks, history
<1>2. faults' \in 0 .. MaxFaults
  BY DEF Append, Fault, IInv, TypeOK
<1>3. /\ job[p].row \in Rows /\ job[p].project \in Projects
      /\ job[p].row.for # None => job[p].row.id = job[p].row.for
      /\ ledger \in [Projects -> SUBSET Rows]
  BY DEF IInv, TypeOK, JobOK, ShapeOK, RowOK, Append, Is
<1>4. /\ ledger' \in [Projects -> SUBSET Rows]
      /\ \A k \in Projects :
           /\ ledger[k] \subseteq ledger'[k]
           /\ \A r \in ledger'[k] : r.for # None => r.id = r.for
  BY <1>3 DEF Append, IInv, FilesOK
<1>5. job'[p] = Free
  BY <1>1 DEF IInv, TypeOK
<1>6. ShapeOK(p)' /\ PriorOK(p)' /\ RowOK(p)' /\ CleanOK(p)' /\ ReadingOK(p)'
  BY <1>5 DEF Free, ShapeOK, PriorOK, RowOK, CleanOK, ReadingOK, Is, Begins,
              BeginPcs, Reads, Registering
<1>7. Free.pc \notin BeginPcs /\ Free.sid = None /\ Free.read.active = None
  BY DEF Free, Blank, BeginPcs
<1> QED BY <1>1, <1>2, <1>4, <1>6, <1>7, FreeTyped, QuietStep

-----------------------------------------------------------------------------
(* evaluate.                                                               *)

\* A process that gives up or finishes without touching the marker.
LEMMA FreedOK ==
  ASSUME NEW p \in Processes, job'[p] = Free
  PROVE  ShapeOK(p)' /\ PriorOK(p)' /\ RowOK(p)' /\ CleanOK(p)' /\ ReadingOK(p)'
  BY DEF Free, ShapeOK, PriorOK, RowOK, CleanOK, ReadingOK, Is, Begins,
         BeginPcs, Reads, Registering

LEMMA EvaluateStep ==
  ASSUME IInv, NEW p \in Processes, NEW j \in Projects, Evaluate(p, j) PROVE IInv'
<1> USE ChecklistAssumption
<1> DEFINE new == [Free EXCEPT !.pc = "count", !.project = j, !.read = Load(p, j),
                               !.session = inForce[j][Claude[p]]]
<1>1. /\ job' = [job EXCEPT ![p] = new]
      /\ windows' = windows /\ marker' = marker /\ registry' = registry
      /\ ids' = ids /\ calls' = calls /\ hourOld' = hourOld /\ faults' = faults
      /\ inForce' = inForce /\ begun' = begun /\ unregistered' = unregistered
      /\ ledger' = ledger
  BY DEF Evaluate, files, rest, clocks, history
<1>2. Load(p, j) \in Markers /\ inForce[j][Claude[p]] \in Sessions \cup {None}
  BY TypeFacts DEF IInv, Load, Key, Blank, Markers, IdOrNone
<1>3. new \in Jobs
  BY <1>2, FreeTyped DEF Free, Jobs
<1>4. /\ new.pc = "count" /\ new.project = j /\ new.read = Load(p, j) /\ new.sid = None
      /\ new.session = inForce[j][Claude[p]] /\ ~new.seeding
  BY DEF Free
<1>5. new.read.active = None \/ \E k \in Projects, c \in Claudes :
        marker[k][c] # None /\ new.read.active = marker[k][c].active
  BY <1>4 DEF Load, Key, Blank
<1> HIDE DEF new
<1>6. job'[p] = new
  BY <1>1, TypeFacts DEF IInv
<1>7. ShapeOK(p)' /\ PriorOK(p)' /\ RowOK(p)' /\ CleanOK(p)'
  BY <1>4, <1>6 DEF ShapeOK, PriorOK, RowOK, CleanOK, Is, Begins, BeginPcs, Reads,
                    Registering
<1>8. ReadingOK(p)'
  <2>1. Standing /\ Claude[p] \in Claudes
    BY DEF IInv
  <2>2. inForce[j][Claude[p]] # None =>
          /\ Load(p, j) = marker[j][Claude[p]]
          /\ marker[j][Claude[p]].active = inForce[j][Claude[p]].sid
          /\ \A r \in inForce[j][Claude[p]].early :
               r \in ledger[j] /\ r.id \in marker[j][Claude[p]].adopted
    BY <2>1 DEF Standing, Load, Key
  <2> QED BY <1>1, <1>4, <1>6, <2>2 DEF ReadingOK, Is
<1>9. faults' \in 0 .. MaxFaults
  BY <1>1, TypeFacts DEF IInv
<1>10. /\ ledger' \in [Projects -> SUBSET Rows]
       /\ \A k \in Projects : /\ ledger[k] \subseteq ledger'[k]
                              /\ \A r \in ledger'[k] : r.for # None => r.id = r.for
  BY <1>1, TypeFacts DEF IInv, FilesOK
<1>11. new.pc \notin BeginPcs
  BY <1>4 DEF BeginPcs
<1> QED BY <1>1, <1>3, <1>4, <1>5, <1>7, <1>8, <1>9, <1>10, <1>11, QuietStep

LEMMA CountStep ==
  ASSUME IInv, NEW p \in Processes, Count(p) PROVE IInv'
<1>1. /\ job' = [job EXCEPT ![p] = Free]
      /\ windows' = windows /\ marker' = marker /\ registry' = registry
      /\ ids' = ids /\ calls' = calls /\ hourOld' = hourOld /\ faults' = faults
      /\ inForce' = inForce /\ begun' = begun /\ unregistered' = unregistered
      /\ ledger' = ledger
  BY DEF Count, Ends, files, rest, clocks, history
<1>2. job'[p] = Free /\ faults' \in 0 .. MaxFaults
  BY <1>1, TypeFacts DEF IInv
<1>3. /\ ledger' \in [Projects -> SUBSET Rows]
      /\ \A k \in Projects : /\ ledger[k] \subseteq ledger'[k]
                             /\ \A r \in ledger'[k] : r.for # None => r.id = r.for
  BY <1>1, TypeFacts DEF IInv, FilesOK
<1>4. Free.pc \notin BeginPcs /\ Free.sid = None /\ Free.read.active = None
  BY DEF Free, Blank, BeginPcs
<1> QED BY <1>1, <1>2, <1>3, <1>4, FreedOK, FreeTyped, QuietStep

-----------------------------------------------------------------------------
(* begin_session up to its writes.                                         *)

LEMMA BeginStep ==
  ASSUME IInv, NEW p \in Processes, NEW j \in Projects, Begin(p, j) PROVE IInv'
<1> USE ChecklistAssumption
<1> DEFINE c == Claude[p]
           read == Load(p, j)
           mine == [Free EXCEPT
             !.pc = "scan", !.project = j, !.sid = ids + 1, !.read = read,
             !.clean = \A q \in Processes : ~Beginning(q, j, c),
             !.first = marker[j][c] = None,
             !.prior = ((begun[j] \ unregistered[j]) \cup {read.active}) \ {None}]
<1>t. /\ TypeOK /\ ids \in Nat /\ ids < MaxIds /\ c \in Claudes
      /\ job[p] = Free /\ ids' = ids + 1
  BY TypeFacts DEF IInv, Begin
<1>1. /\ job' = [q \in Processes |->
           IF q = p THEN mine
           ELSE IF Beginning(q, j, c) THEN [job[q] EXCEPT !.clean = FALSE]
           ELSE job[q]]
      /\ inForce' = [inForce EXCEPT ![j][c] = None]
      /\ UNCHANGED <<ledger, marker, registry, windows, calls, hourOld, faults, begun,
                     unregistered>>
  BY DEF Begin, files
<1>2. read \in Markers
  BY <1>t, TypeFacts DEF Load, Key, Blank, Markers, IdOrNone
<1>3. ((begun[j] \ unregistered[j]) \cup {read.active}) \ {None} \in SUBSET Ids
  BY <1>t, <1>2, TypeFacts DEF Markers, IdOrNone
<1>4. ids + 1 \in Ids
  BY <1>t DEF Ids
<1>5. mine \in Jobs
  <2> DEFINE clean == \A q \in Processes : ~Beginning(q, j, c)
             first == marker[j][c] = None
             prior == ((begun[j] \ unregistered[j]) \cup {read.active}) \ {None}
  <2>1. clean \in BOOLEAN /\ first \in BOOLEAN
    OBVIOUS
  <2>2. prior \in SUBSET Ids
    BY <1>3
  <2> HIDE DEF read, clean, first, prior
  <2>3. [Free EXCEPT !.pc = "scan", !.project = j, !.sid = ids + 1, !.read = read,
                     !.clean = clean, !.first = first, !.prior = prior] \in Jobs
    BY <2>1, <2>2, <1>2, <1>4, FreeTyped DEF Free, Jobs, IdOrNone
  <2> QED BY <2>3 DEF clean, first, prior
<1>6. /\ mine.pc = "scan" /\ mine.project = j /\ mine.sid = ids + 1
      /\ mine.read = read /\ mine.first = (marker[j][c] = None) /\ ~mine.seeding
      /\ mine.prior = ((begun[j] \ unregistered[j]) \cup {read.active}) \ {None}
      /\ mine.clean = (\A q \in Processes : ~Beginning(q, j, c))
  BY DEF Free
<1> HIDE DEF mine
<1>7. /\ job'[p] = mine /\ job' \in [Processes -> Jobs]
      /\ \A q \in Processes : q # p =>
           \/ job'[q] = job[q] /\ ~Beginning(q, j, c)
           \/ job'[q] = [job[q] EXCEPT !.clean = FALSE]
  <2>1. \A q \in Processes : job[q] \in Jobs /\ [job[q] EXCEPT !.clean = FALSE] \in Jobs
    <3>1. \A q \in Processes : job[q] \in Jobs
      BY <1>t, TypeFacts
    <3>2. \A x \in Jobs : [x EXCEPT !.clean = FALSE] \in Jobs
      BY DEF Jobs
    <3> QED BY <3>1, <3>2
  <2>2. job'[p] = mine
    BY <1>1
  <2>3. \A q \in Processes : q # p =>
           \/ job'[q] = job[q] /\ ~Beginning(q, j, c)
           \/ job'[q] = [job[q] EXCEPT !.clean = FALSE]
    BY <1>1
  <2>4. ASSUME NEW q \in Processes PROVE job'[q] \in Jobs
    <3>1. CASE q = p
      BY <3>1, <2>2, <1>5
    <3>2. CASE q # p
      BY <3>2, <2>1, <2>3
    <3> QED BY <3>1, <3>2
  <2>5. job' = [q \in Processes |-> job'[q]]
    BY <1>1
  <2>6. job' \in [Processes -> Jobs]
    BY <2>4, <2>5
  <2> QED BY <2>2, <2>3, <2>6
<1>8. inForce' \in [Projects -> [Claudes -> Sessions \cup {None}]]
  BY <1>1, <1>t, TypeFacts
<1>9. TypeOK'
  <2>1. ids' \in 0 .. MaxIds
    BY <1>t
  <2> QED BY <2>1, <1>7, <1>8, <1>1, <1>t DEF TypeOK, Jobs
<1>10. ASSUME NEW q \in Processes, q # p PROVE JobOK(q)'
  <2>1. /\ TypeOK /\ JobOK(q) /\ windows'[q] = windows[q]
        /\ job'[q] = job[q] \/ job'[q] = [job[q] EXCEPT !.clean = FALSE]
    BY <1>7, <1>10, <1>1 DEF IInv
  <2>2. \A k \in Projects : /\ registry[k] # None =>
                               registry'[k] # None /\ registry[k] \subseteq registry'[k]
                            /\ begun[k] \subseteq begun'[k]
                            /\ ledger[k] \subseteq ledger'[k]
    BY <1>1
  <2>3. marker'[job[q].project][Claude[q]] = marker[job[q].project][Claude[q]]
    BY <1>1
  <2>4. ids' \in Nat /\ ids <= ids'
    BY <1>t
  <2> QED BY <2>1, <2>2, <2>3, <2>4, OthersKeep
<1>11. read.active = None \/ read.active \in 1 .. ids
  BY <1>t DEF IInv, FilesOK, Load, Key, Blank
<1>12. JobOK(p)'
  <2> HIDE DEF read
  <2>1. ShapeOK(p)' /\ RowOK(p)' /\ ReadingOK(p)'
    BY <1>6, <1>7, <1>4, <1>1 DEF ShapeOK, RowOK, ReadingOK, Is, Begins, BeginPcs
  <2>6. PriorOK(p)'
    <3>1. \A s \in mine.prior : s # None /\ (s = read.active \/ Recorded(s, j))
      BY <1>6 DEF IInv, FilesOK
    <3>2. \A s \in mine.prior : s # None /\ (s = read.active \/ Recorded(s, j)')
      BY <3>1, <1>1 DEF Recorded
    <3> QED BY <3>2, <1>6, <1>7 DEF PriorOK, Registering
  <2>2. MintedOK(p)'
    BY <1>6, <1>7, <1>11, <1>1, <1>t DEF MintedOK, IInv, JobOK
  <2>3. mine.first => read.active = None
    BY <1>6 DEF read, Load, Key, Blank
  <2>4. CleanOK(p)'
    BY <1>6, <1>7, <2>3 DEF CleanOK, Reads, Registering
  <2> QED BY <2>1, <2>2, <2>4, <2>6 DEF JobOK
<1>13. FilesOK'
  BY <1>1, <1>t DEF IInv, FilesOK, Recorded
<1>14. Standing'
  <2>1. \A k \in Projects, d \in Claudes : inForce'[k][d] # None =>
          inForce'[k][d] = inForce[k][d] /\ (k # j \/ d # c)
    BY <1>1, <1>t, TypeFacts
  <2> QED BY <2>1, <1>1 DEF IInv, Standing
<1>15. Apart'
  <2>1. \A q \in Processes : q # p =>
          job'[q].sid = job[q].sid /\ job'[q].read = job[q].read
    BY <1>7, <1>t, TypeFacts DEF Jobs
  <2>2. read.active = None \/ Session(read.active)
    BY <1>t DEF Session, Load, Key, Blank
  <2>3. \A w : Session(w)' => Session(w) \/ w = None \/ w = ids + 1
    <3> HIDE DEF read
    <3>1. ASSUME NEW w, NEW q \in Processes,
                 job'[q].sid = w \/ job'[q].read.active = w
          PROVE  Session(w) \/ w = None \/ w = ids + 1
      <4>1. CASE q = p
        BY <4>1, <3>1, <1>6, <1>7, <2>2
      <4>2. CASE q # p
        BY <4>2, <3>1, <2>1 DEF Session
      <4> QED BY <4>1, <4>2
    <3> QED BY <3>1, <1>1 DEF Session
  <2>4. \A q \in Processes, k \in Projects :
          windows[q][k] # None => windows[q][k] \in 1 .. ids
    BY DEF IInv, JobOK, MintedOK
  <2>5. \A q \in Processes, k \in Projects : windows[q][k] # ids + 1
    BY <2>4, <1>t
  <2> QED BY <2>3, <2>5, <1>1 DEF IInv, Apart
<1>16. Alone'
  <2>1. \A q \in Processes : q # p =>
          /\ job'[q].pc = job[q].pc /\ job'[q].project = job[q].project
          /\ job'[q].clean => job[q].clean /\ ~Beginning(q, j, c)
    BY <1>7, <1>t, TypeFacts DEF Jobs
  <2>2. \A k \in Projects, d \in Claudes : inForce'[k][d] # None =>
          inForce[k][d] # None /\ (k # j \/ d # c)
    BY <1>1, <1>t, TypeFacts
  <2>3. ASSUME NEW a \in Processes, NEW b \in Processes,
               Begins(a)', job'[a].clean, b # a
        PROVE  ~Beginning(b, job[a].project, Claude[a])'
    <3>1. CASE a = p
      BY <3>1, <2>1, <2>3, <1>6, <1>7 DEF Beginning
    <3>2. CASE a # p /\ b = p
      BY <3>2, <2>1, <2>3, <1>6, <1>7 DEF Beginning, Begins, BeginPcs
    <3>3. CASE a # p /\ b # p
      BY <3>3, <2>1, <2>3 DEF IInv, Alone, Beginning, Begins
    <3> QED BY <3>1, <3>2, <3>3
  <2>4. ASSUME NEW q \in Processes, NEW k \in Projects, NEW d \in Claudes,
               inForce'[k][d] # None
        PROVE  ~Beginning(q, k, d)'
    BY <2>4, <2>1, <2>2, <1>6, <1>7 DEF IInv, Alone, Beginning
  <2> QED BY <2>3, <2>4 DEF Alone
<1> QED BY <1>9, <1>10, <1>12, <1>13, <1>14, <1>15, <1>16 DEF IInv

LEMMA ScanStep ==
  ASSUME IInv, NEW p \in Processes, Scan(p) PROVE IInv'
<1> DEFINE j == job[p].project
           new == [job[p] EXCEPT !.pc = "look", !.seen = ledger[j]]
<1>1. /\ job' = [job EXCEPT ![p] = new]
      /\ windows' = windows /\ marker' = marker /\ registry' = registry
      /\ ids' = ids /\ calls' = calls /\ hourOld' = hourOld /\ faults' = faults
      /\ inForce' = inForce /\ begun' = begun /\ unregistered' = unregistered
      /\ ledger' = ledger
  BY DEF Scan, files, rest, clocks, history
<1>2. /\ job[p] \in Jobs /\ job[p].pc = "scan" /\ j \in Projects /\ JobOK(p)
      /\ job \in [Processes -> Jobs] /\ ledger \in [Projects -> SUBSET Rows]
  BY TypeFacts DEF IInv, JobOK, ShapeOK, Scan, Is
<1>3. new \in Jobs
  BY <1>2 DEF Jobs
<1>4. /\ new.pc = "look" /\ new.project = j /\ new.sid = job[p].sid
      /\ new.read = job[p].read /\ new.clean = job[p].clean /\ new.row = job[p].row
      /\ new.first = job[p].first /\ new.prior = job[p].prior
      /\ new.seeding = job[p].seeding
  BY <1>2 DEF Jobs
<1> HIDE DEF new
<1>5. job'[p] = new
  BY <1>1, <1>2
<1>6. ShapeOK(p)' /\ PriorOK(p)' /\ RowOK(p)' /\ CleanOK(p)' /\ ReadingOK(p)'
  BY <1>1, <1>2, <1>4, <1>5 DEF JobOK, ShapeOK, PriorOK, Recorded, RowOK, CleanOK,
     ReadingOK, Is, Begins, BeginPcs, Reads, Registering
<1>7. faults' \in 0 .. MaxFaults
  BY <1>1, TypeFacts DEF IInv
<1>8. /\ ledger' \in [Projects -> SUBSET Rows]
      /\ \A k \in Projects : /\ ledger[k] \subseteq ledger'[k]
                             /\ \A r \in ledger'[k] : r.for # None => r.id = r.for
  BY <1>1, <1>2 DEF IInv, FilesOK
<1>9. /\ Begins(p) /\ new.project = job[p].project
      /\ new.clean => job[p].clean
  BY <1>2, <1>4 DEF Begins, BeginPcs
<1> QED BY <1>1, <1>3, <1>4, <1>6, <1>7, <1>8, <1>9, QuietStep

LEMMA LookStep ==
  ASSUME IInv, NEW p \in Processes, Look(p) PROVE IInv'
<1> DEFINE j == job[p].project
           isNew == registry[j] = None
           new == [job[p] EXCEPT !.pc = "decide", !.new = isNew]
<1>1. /\ job' = [job EXCEPT ![p] = new]
      /\ windows' = windows /\ marker' = marker /\ registry' = registry
      /\ ids' = ids /\ calls' = calls /\ hourOld' = hourOld /\ faults' = faults
      /\ inForce' = inForce /\ begun' = begun /\ unregistered' = unregistered
      /\ ledger' = ledger
  BY DEF Look, files, rest, clocks, history
<1>2. /\ job[p] \in Jobs /\ job[p].pc = "look" /\ j \in Projects /\ JobOK(p)
      /\ job \in [Processes -> Jobs] /\ ledger \in [Projects -> SUBSET Rows]
  BY TypeFacts DEF IInv, JobOK, ShapeOK, Look, Is
<1>n. isNew \in BOOLEAN
  OBVIOUS
<1> HIDE DEF isNew
<1>3. new \in Jobs
  BY <1>2, <1>n DEF Jobs
<1>4. /\ new.pc = "decide" /\ new.project = j /\ new.sid = job[p].sid
      /\ new.read = job[p].read /\ new.clean = job[p].clean /\ new.row = job[p].row
      /\ new.first = job[p].first /\ new.prior = job[p].prior
      /\ new.seeding = job[p].seeding
  BY <1>2 DEF Jobs
<1> HIDE DEF new
<1>5. job'[p] = new
  BY <1>1, <1>2
<1>6. ShapeOK(p)' /\ PriorOK(p)' /\ RowOK(p)' /\ CleanOK(p)' /\ ReadingOK(p)'
  BY <1>1, <1>2, <1>4, <1>5 DEF JobOK, ShapeOK, PriorOK, Recorded, RowOK, CleanOK,
     ReadingOK, Is, Begins, BeginPcs, Reads, Registering
<1>7. faults' \in 0 .. MaxFaults
  BY <1>1, TypeFacts DEF IInv
<1>8. /\ ledger' \in [Projects -> SUBSET Rows]
      /\ \A k \in Projects : /\ ledger[k] \subseteq ledger'[k]
                             /\ \A r \in ledger'[k] : r.for # None => r.id = r.for
  BY <1>1, <1>2 DEF IInv, FilesOK
<1>9. /\ Begins(p) /\ new.project = job[p].project
      /\ new.clean => job[p].clean
  BY <1>2, <1>4 DEF Begins, BeginPcs
<1> QED BY <1>1, <1>3, <1>4, <1>6, <1>7, <1>8, <1>9, QuietStep

\* Whatever the registry was found to hold.
LEMMA DecidesStep ==
  ASSUME IInv, NEW p \in Processes, job[p].pc = "decide",
         NEW known \in SUBSET Ids, NEW prior \in SUBSET Ids,
         Decides(p, known, prior), faults' \in 0 .. MaxFaults,
         UNCHANGED <<files, windows, clocks, history>>
  PROVE  IInv'
<1> USE ChecklistAssumption
<1> DEFINE j == job[p].project
           seeds == Seeding(p, known)
           orphans == Candidates(p, known)
           adopts == Adopts(p, known)
           kept == IF job[p].clean THEN prior ELSE {}
           new == [job[p] EXCEPT !.read = Blank, !.seen = {}, !.new = FALSE,
                     !.prior = kept,
                     !.pc = IF seeds THEN "open" ELSE "truncate",
                     !.seeding = seeds,
                     !.append = IF seeds THEN orphans ELSE {},
                     !.adopted = adopts]
<1>1. /\ job' = [job EXCEPT ![p] = new]
      /\ windows' = windows /\ marker' = marker /\ registry' = registry
      /\ ids' = ids /\ calls' = calls /\ hourOld' = hourOld
      /\ inForce' = inForce /\ begun' = begun /\ unregistered' = unregistered
      /\ ledger' = ledger
  BY DEF Decides, files, clocks, history
<1>2. /\ job[p] \in Jobs /\ job[p].pc = "decide" /\ j \in Projects /\ JobOK(p)
      /\ job \in [Processes -> Jobs] /\ ledger \in [Projects -> SUBSET Rows]
      /\ windows[p][j] \in IdOrNone
  <2>1. JobOK(p) /\ TypeOK
    BY DEF IInv
  <2>2. job \in [Processes -> Jobs] /\ ledger \in [Projects -> SUBSET Rows]
        /\ windows \in [Processes -> [Projects -> IdOrNone]]
    BY <2>1, TypeFacts
  <2>3. j \in Projects
    BY <2>1 DEF JobOK, ShapeOK
  <2> QED BY <2>1, <2>2, <2>3
<1>o. orphans \subseteq Ids
  BY <1>2 DEF Candidates, Jobs, Rows
<1>a. /\ adopts \subseteq Ids
      /\ job[p].read.active = None /\ windows[p][j] # None => windows[p][j] \in adopts
  BY <1>o, <1>2 DEF Adopts, Window, IdOrNone
<1>n. seeds \in BOOLEAN
  BY DEF Seeding, Jobs
<1>b. Blank \in Markers
  BY DEF Blank, Markers, IdOrNone
<1>k. kept \in SUBSET Ids
  BY <1>2 DEF Jobs
<1> HIDE DEF seeds, orphans, adopts, kept
<1>3. new \in Jobs
  BY <1>2, <1>n, <1>o, <1>a, <1>b, <1>k DEF Jobs
<1>4. /\ new.pc = (IF seeds THEN "open" ELSE "truncate") /\ new.project = j
      /\ new.sid = job[p].sid /\ new.read.active = None /\ new.clean = job[p].clean
      /\ new.row = job[p].row /\ new.first = job[p].first /\ new.adopted = adopts
      /\ new.seeding = seeds
  BY <1>2 DEF Jobs, Blank
<1> HIDE DEF new
<1>5. job'[p] = new
  BY <1>1, <1>2
<1>6. ShapeOK(p)' /\ PriorOK(p)' /\ RowOK(p)' /\ ReadingOK(p)'
  BY <1>1, <1>2, <1>4, <1>5 DEF JobOK, ShapeOK, PriorOK, RowOK, ReadingOK,
     Is, Begins, BeginPcs, Reads, Registering
<1>c. CleanOK(p)'
  BY <1>1, <1>2, <1>4, <1>5, <1>a DEF JobOK, CleanOK, Begins, BeginPcs, Reads, Registering
<1>8. /\ ledger' \in [Projects -> SUBSET Rows]
      /\ \A k \in Projects : /\ ledger[k] \subseteq ledger'[k]
                             /\ \A r \in ledger'[k] : r.for # None => r.id = r.for
  BY <1>1, <1>2 DEF IInv, FilesOK
<1>9. /\ Begins(p) /\ new.project = job[p].project
      /\ new.clean => job[p].clean
  BY <1>2, <1>4 DEF Begins, BeginPcs
<1> QED BY <1>1, <1>3, <1>4, <1>6, <1>c, <1>8, <1>9, QuietStep

LEMMA DecideStep ==
  ASSUME IInv, NEW p \in Processes, Decide(p) PROVE IInv'
<1>1. /\ job[p] \in Jobs /\ job[p].pc = "decide" /\ faults \in 0 .. MaxFaults
      /\ UNCHANGED <<files, windows, clocks, history>>
  BY TypeFacts DEF IInv, Decide, Is
<1>2. CASE Decides(p, Registered(p), job[p].prior) /\ UNCHANGED faults
  <2>1. Registered(p) \in SUBSET Ids
    BY <1>1, TypeFacts DEF IInv, JobOK, ShapeOK, Registered
  <2>2. job[p].prior \in SUBSET Ids
    BY <1>1 DEF Jobs
  <2> QED BY <1>1, <1>2, <2>1, <2>2, DecidesStep
<1>3. CASE Fault /\ Decides(p, {}, job[p].prior \cap {job[p].read.active})
  <2>1. faults' \in 0 .. MaxFaults
    BY <1>1, <1>3, ChecklistAssumption DEF Fault
  <2>2. job[p].prior \cap {job[p].read.active} \in SUBSET Ids
    BY <1>1 DEF Jobs
  <2>3. {} \in SUBSET Ids
    OBVIOUS
  <2> QED BY <1>1, <1>3, <2>1, <2>2, <2>3, DecidesStep
<1> QED BY <1>2, <1>3 DEF Decide

-----------------------------------------------------------------------------
(* The writes of begin_session.                                            *)

LEMMA MarkerStep ==
  ASSUME IInv, NEW p \in Processes, Begins(p),
         NEW new \in Jobs, job' = [job EXCEPT ![p] = new],
         new.pc \in BeginPcs, new.project = job[p].project,
         new.clean = job[p].clean, new.sid = job[p].sid, new.read = job[p].read,
         NEW m \in Markers, m.active = None \/ m.active = job[p].sid,
         marker' = [marker EXCEPT ![job[p].project][Claude[p]] = m],
         UNCHANGED <<ledger, registry, windows, ids, calls, hourOld, faults,
                     inForce, begun, unregistered>>,
         ShapeOK(p)', PriorOK(p)', RowOK(p)', CleanOK(p)', ReadingOK(p)'
  PROVE  IInv'
<1> DEFINE j == job[p].project
           c == Claude[p]
<1>t. /\ j \in Projects /\ c \in Claudes /\ ids \in Nat /\ job[p].sid \in 1 .. ids
      /\ Beginning(p, j, c) /\ TypeOK
  BY TypeFacts, ChecklistAssumption
  DEF IInv, JobOK, ShapeOK, MintedOK, Beginning, Begins, BeginPcs, Ids
<1>1. /\ job' \in [Processes -> Jobs] /\ job'[p] = new
      /\ \A q \in Processes : q # p => job'[q] = job[q]
  BY <1>t, TypeFacts
<1>2. /\ marker' \in [Projects -> [Claudes -> Markers \cup {None}]]
      /\ marker'[j][c] = m
      /\ \A k \in Projects, d \in Claudes :
           (k # j \/ d # c) => marker'[k][d] = marker[k][d]
  BY <1>t, TypeFacts
<1>3. TypeOK'
  BY <1>1, <1>2, <1>t DEF TypeOK, Jobs
<1>4. ASSUME NEW q \in Processes, q # p PROVE JobOK(q)'
  <2>1. TypeOK /\ JobOK(q) /\ job'[q] = job[q] /\ windows'[q] = windows[q]
    BY <1>1, <1>4, <1>t DEF IInv
  <2>2. \A k \in Projects : /\ registry[k] # None =>
                               registry'[k] # None /\ registry[k] \subseteq registry'[k]
                            /\ begun[k] \subseteq begun'[k]
                            /\ ledger[k] \subseteq ledger'[k]
    OBVIOUS
  <2>3. ASSUME Begins(q), job[q].clean
        PROVE  marker'[job[q].project][Claude[q]] = marker[job[q].project][Claude[q]]
    <3>1. job[q].project \in Projects /\ Claude[q] \in Claudes
      BY <2>1, <2>3, TypeFacts DEF JobOK, ShapeOK, Begins, BeginPcs
    <3>2. ~Beginning(p, job[q].project, Claude[q])
      BY <1>4, <2>3 DEF IInv, Alone
    <3>3. job[q].project # j \/ Claude[q] # c
      BY <3>2, <1>t
    <3> QED BY <3>1, <3>3, <1>2
  <2>4. ids' \in Nat /\ ids <= ids'
    BY <1>t
  <2> QED BY <2>1, <2>2, <2>3, <2>4, OthersKeep
<1>5. JobOK(p)'
  <2>1. MintedOK(p)'
    BY <1>1 DEF IInv, JobOK, MintedOK
  <2> QED BY <2>1 DEF JobOK
<1>6. FilesOK'
  BY <1>2, <1>t DEF IInv, FilesOK, Recorded
<1>7. Standing'
  <2>1. \A k \in Projects, d \in Claudes : inForce[k][d] # None =>
          marker'[k][d] = marker[k][d]
    BY <1>2, <1>t DEF IInv, Alone
  <2> QED BY <2>1 DEF IInv, Standing
<1>8. Apart'
  <2>1. \A w : Session(w)' => Session(w) \/ w = None
    BY <1>1, <1>2, <1>t DEF Session
  <2> QED BY <2>1, ApartKeeps DEF IInv
<1>9. Alone'
  BY <1>1, AloneKeeps DEF IInv, Begins
<1> QED BY <1>3, <1>4, <1>5, <1>6, <1>7, <1>8, <1>9 DEF IInv

\* What follows the marker, written or not.
LEMMA RegistersOK ==
  ASSUME IInv, NEW p \in Processes, job[p].pc \in {"truncate", "write"}
  PROVE  LET x == [job[p] EXCEPT !.pc = "open",
                     !.append = {job[p].sid} \cup job[p].adopted, !.adopted = {}]
         IN /\ x \in Jobs /\ x.pc = "open" /\ x.project = job[p].project
            /\ x.sid = job[p].sid /\ x.read = job[p].read /\ x.row = job[p].row
            /\ x.clean = job[p].clean /\ x.first = job[p].first
            /\ ~x.seeding /\ x.sid \in x.append
            /\ x.sid \in Ids /\ x.project \in Projects
<1>1. /\ job[p] \in Jobs /\ job[p].sid \in Ids /\ job[p].project \in Projects
      /\ ~job[p].seeding
  BY TypeFacts DEF IInv, JobOK, ShapeOK, Begins, BeginPcs
<1> QED BY <1>1 DEF Jobs

LEMMA SkipStep ==
  ASSUME IInv, NEW p \in Processes, job[p].pc \in {"truncate", "write"},
         SkipMarker(p), Fault, UNCHANGED <<files, windows, clocks, history>>
  PROVE  IInv'
<1> DEFINE x == [job[p] EXCEPT !.pc = "open",
                   !.append = {job[p].sid} \cup job[p].adopted, !.adopted = {}]
           new == [x EXCEPT !.clean = FALSE]
<1>1. /\ job' = [job EXCEPT ![p] = new]
      /\ windows' = windows /\ marker' = marker /\ registry' = registry
      /\ ids' = ids /\ calls' = calls /\ hourOld' = hourOld
      /\ inForce' = inForce /\ begun' = begun /\ unregistered' = unregistered
      /\ ledger' = ledger
  BY TypeFacts DEF IInv, SkipMarker, Registers, files, clocks, history
<1>2. /\ x \in Jobs /\ x.pc = "open" /\ x.project = job[p].project
      /\ x.sid = job[p].sid /\ x.read = job[p].read /\ x.row = job[p].row
      /\ ~x.seeding /\ x.sid \in x.append /\ x.sid \in Ids /\ x.project \in Projects
  BY RegistersOK
<1> HIDE DEF x
<1>3. /\ new \in Jobs /\ new.pc = "open" /\ new.project = job[p].project
      /\ new.sid = job[p].sid /\ new.read = job[p].read /\ new.row = job[p].row
      /\ ~new.seeding /\ new.sid \in new.append /\ new.clean = FALSE
      /\ new.sid \in Ids /\ new.project \in Projects
  BY <1>2 DEF Jobs
<1> HIDE DEF new
<1>4. job'[p] = new
  BY <1>1, TypeFacts DEF IInv
<1>5. ShapeOK(p)' /\ PriorOK(p)' /\ RowOK(p)' /\ CleanOK(p)' /\ ReadingOK(p)'
  BY <1>3, <1>4 DEF ShapeOK, PriorOK, RowOK, CleanOK, ReadingOK, Is, Begins,
     BeginPcs, Reads, Registering
<1>6. faults' \in 0 .. MaxFaults
  BY TypeFacts, ChecklistAssumption DEF IInv, Fault
<1>7. /\ ledger' \in [Projects -> SUBSET Rows]
      /\ \A k \in Projects : /\ ledger[k] \subseteq ledger'[k]
                             /\ \A r \in ledger'[k] : r.for # None => r.id = r.for
  BY <1>1, TypeFacts DEF IInv, FilesOK
<1>8. Begins(p) /\ new.project = job[p].project /\ (new.clean => job[p].clean)
  BY <1>3 DEF Begins, BeginPcs
<1> QED BY <1>1, <1>3, <1>5, <1>6, <1>7, <1>8, QuietStep

LEMMA TruncateStep ==
  ASSUME IInv, NEW p \in Processes, Truncate(p) PROVE IInv'
<1> DEFINE new == [job[p] EXCEPT !.pc = "write"]
<1>1. /\ job[p] \in Jobs /\ job[p].pc = "truncate" /\ JobOK(p)
      /\ job \in [Processes -> Jobs] /\ Blank \in Markers
      /\ UNCHANGED <<ledger, registry, windows, clocks, history>>
  BY TypeFacts, ChecklistAssumption
  DEF IInv, Truncate, Is, Blank, Markers, IdOrNone
<1>2. CASE SkipMarker(p) /\ Fault /\ UNCHANGED marker
  BY <1>1, <1>2, SkipStep DEF files
<1>3. CASE /\ marker' = [marker EXCEPT ![job[p].project][Key(p)] = Blank]
           /\ job' = [job EXCEPT ![p].pc = "write"] /\ UNCHANGED faults
  <2>1. job' = [job EXCEPT ![p] = new]
    BY <1>1, <1>3
  <2>2. /\ new \in Jobs /\ new.pc = "write" /\ new.project = job[p].project
        /\ new.sid = job[p].sid /\ new.read = job[p].read /\ new.row = job[p].row
        /\ new.clean = job[p].clean /\ new.first = job[p].first
        /\ new.seeding = job[p].seeding /\ new.adopted = job[p].adopted
    BY <1>1 DEF Jobs
  <2> HIDE DEF new
  <2>3. job'[p] = new
    BY <1>1, <2>1
  <2>4. UNCHANGED <<ledger, registry, windows, ids, calls, hourOld, faults,
                    inForce, begun, unregistered>>
    BY <1>1, <1>3 DEF clocks, history
  <2>5. ShapeOK(p)' /\ PriorOK(p)' /\ RowOK(p)' /\ CleanOK(p)' /\ ReadingOK(p)'
    BY <1>1, <2>2, <2>3, <2>4 DEF JobOK, ShapeOK, PriorOK, RowOK, CleanOK, ReadingOK,
       Is, Begins, BeginPcs, Reads, Registering
  <2>6. marker' = [marker EXCEPT ![job[p].project][Claude[p]] = Blank]
    BY <1>3 DEF Key
  <2>7. Begins(p) /\ new.pc \in BeginPcs /\ Blank.active = None
    BY <1>1, <2>2 DEF Begins, BeginPcs, Blank
  <2> QED BY <1>1, <2>1, <2>2, <2>4, <2>5, <2>6, <2>7, MarkerStep
<1> QED BY <1>2, <1>3 DEF Truncate

LEMMA WriteMarkerStep ==
  ASSUME IInv, NEW p \in Processes, WriteMarker(p) PROVE IInv'
<1> DEFINE new == [job[p] EXCEPT !.pc = "open",
                     !.append = {job[p].sid} \cup job[p].adopted, !.adopted = {}]
           j == job[p].project
           c == Claude[p]
<1>1. /\ job[p] \in Jobs /\ job[p].pc = "write" /\ JobOK(p) /\ TypeOK
      /\ job \in [Processes -> Jobs] /\ j \in Projects /\ c \in Claudes
      /\ UNCHANGED <<ledger, registry, windows, clocks, history>>
  BY TypeFacts DEF IInv, JobOK, ShapeOK, WriteMarker, Is
<1>2. CASE SkipMarker(p) /\ Fault /\ UNCHANGED marker
  BY <1>1, <1>2, SkipStep DEF files
<1>3. ASSUME NEW tail \in SUBSET Load(p, j).adopted,
             marker' = [marker EXCEPT ![j][Key(p)] =
               [active |-> job[p].sid, adopted |-> job[p].adopted \cup tail]],
             job' = Registers(p), UNCHANGED faults
      PROVE  IInv'
  <2> DEFINE m == [active |-> job[p].sid, adopted |-> job[p].adopted \cup tail]
  <2>1. job' = [job EXCEPT ![p] = new]
    BY <1>1, <1>3 DEF Registers
  <2>2. /\ new \in Jobs /\ new.pc = "open" /\ new.project = j
        /\ new.sid = job[p].sid /\ new.read = job[p].read /\ new.row = job[p].row
        /\ new.clean = job[p].clean /\ new.first = job[p].first
        /\ ~new.seeding /\ new.sid \in new.append /\ new.sid \in Ids
    BY <1>1, RegistersOK
  <2>3. Load(p, j).adopted \subseteq Ids
    BY <1>1, TypeFacts DEF Load, Key, Blank, Markers
  <2>4. m \in Markers
    BY <1>1, <2>2, <2>3 DEF Jobs, Markers, IdOrNone
  <2>5. m.active = job[p].sid /\ job[p].adopted \subseteq m.adopted
    OBVIOUS
  <2>6. marker' = [marker EXCEPT ![j][c] = m]
    BY <1>3 DEF Key
  <2> HIDE DEF new, m
  <2>7. job'[p] = new
    BY <1>1, <2>1
  <2>8. marker'[j][c] = m
    BY <1>1, <2>6, TypeFacts
  <2>9. UNCHANGED <<ledger, registry, windows, ids, calls, hourOld, faults,
                    inForce, begun, unregistered>>
    BY <1>1, <1>3 DEF clocks, history
  <2>10. ShapeOK(p)' /\ PriorOK(p)' /\ RowOK(p)' /\ ReadingOK(p)'
    BY <1>1, <2>2, <2>7, <2>9 DEF ShapeOK, PriorOK, RowOK, ReadingOK,
       Is, Begins, BeginPcs, Reads, Registering
  <2>11. CleanOK(p)'
    <3>1. m # None
      BY <2>4, ChecklistAssumption
    <3>2. windows'[p][j] = windows[p][j] /\ job'[p].project = j
      BY <2>2, <2>7, <2>9
    <3>3. job[p].clean /\ job[p].first /\ windows[p][j] # None
            => windows[p][j] \in job[p].adopted
      BY <1>1 DEF JobOK, CleanOK, Begins, BeginPcs
    <3> QED BY <1>1, <2>2, <2>5, <2>7, <2>8, <3>1, <3>2, <3>3
            DEF CleanOK, Begins, BeginPcs, Reads, Registering
  <2>12. Begins(p) /\ new.pc \in BeginPcs
    BY <1>1, <2>2 DEF Begins, BeginPcs
  <2> QED BY <2>1, <2>2, <2>4, <2>5, <2>6, <2>9, <2>10, <2>11, <2>12, MarkerStep
<1> QED BY <1>2, <1>3 DEF WriteMarker

\* What both appends share: the registry grows.
LEMMA AppendedStep ==
  ASSUME IInv, NEW p \in Processes, NEW failed \in BOOLEAN,
         job[p].pc \in {"open", "flush"}, Appended(p, failed),
         registry' \in [Projects -> (SUBSET Ids) \cup {None}],
         \A k \in Projects : registry[k] # None =>
           registry'[k] # None /\ registry[k] \subseteq registry'[k],
         ~failed => LET j == job[p].project
                    IN registry'[j] # None /\ job[p].append \subseteq registry'[j],
         faults' \in 0 .. MaxFaults,
         UNCHANGED <<ledger, marker, windows, clocks>>
  PROVE  IInv'
<1> DEFINE j == job[p].project
           c == Claude[p]
           new == IF job[p].seeding
                  THEN [job[p] EXCEPT !.pc = "truncate", !.seeding = FALSE, !.append = {}]
                  ELSE Free
           early == IF job[p].first THEN {r \in ledger[j] : r.id = Window(p)} ELSE {}
           session == [sid |-> job[p].sid, early |-> early, prior |-> job[p].prior]
<1>t. /\ TypeOK /\ JobOK(p) /\ j \in Projects /\ c \in Claudes /\ ids \in Nat
      /\ job[p].sid \in Ids /\ job[p].sid \in 1 .. ids /\ Begins(p) /\ Beginning(p, j, c)
      /\ job[p] \in Jobs /\ job \in [Processes -> Jobs]
  BY TypeFacts, ChecklistAssumption
  DEF IInv, JobOK, ShapeOK, MintedOK, Beginning, Begins, BeginPcs, Ids
<1>m. /\ job' = [job EXCEPT ![p] = new]
      /\ UNCHANGED <<ledger, marker, windows, ids, calls, hourOld>>
  <2>1. CASE job[p].seeding
    BY <2>1, <1>t DEF Appended, clocks
  <2>2. CASE ~job[p].seeding
    BY <2>2, <1>t DEF Appended, Ends, clocks
  <2> QED BY <2>1, <2>2
<1>b. /\ begun' \in [Projects -> SUBSET Ids]
      /\ \A k \in Projects : begun[k] \subseteq begun'[k]
      /\ \A k \in Projects : \A s \in begun'[k] : s \in begun[k] \/
           (s = job[p].sid /\ k = j /\ ~job[p].seeding)
  <2>1. CASE job[p].seeding
    BY <2>1, <1>t, TypeFacts DEF Appended, history
  <2>2. CASE ~job[p].seeding
    <3>1. begun \in [Projects -> SUBSET Ids]
      BY <1>t, TypeFacts
    <3>2. begun' = [begun EXCEPT ![j] = @ \cup {job[p].sid}]
      BY <2>2 DEF Appended
    <3> QED BY <2>2, <3>1, <3>2, <1>t
  <2> QED BY <2>1, <2>2
<1>u. /\ unregistered' \in [Projects -> SUBSET Ids]
      /\ \A k \in Projects : unregistered[k] \subseteq unregistered'[k]
      /\ failed /\ ~job[p].seeding => job[p].sid \in unregistered'[j]
  <2>1. unregistered \in [Projects -> SUBSET Ids]
    BY <1>t, TypeFacts
  <2>2. CASE job[p].seeding
    BY <2>1, <2>2 DEF Appended, history
  <2>3. CASE ~job[p].seeding /\ ~failed
    BY <2>1, <2>3 DEF Appended
  <2>4. CASE ~job[p].seeding /\ failed
    <3>1. unregistered' = [unregistered EXCEPT ![j] = @ \cup {job[p].sid}]
      BY <2>4 DEF Appended
    <3> QED BY <2>1, <3>1, <1>t
  <2> QED BY <2>2, <2>3, <2>4
<1>f. \/ inForce' = inForce
      \/ /\ inForce' = [inForce EXCEPT ![j][c] = session]
         /\ ~job[p].seeding /\ job[p].clean
  <2>1. CASE job[p].seeding
    BY <2>1 DEF Appended, history
  <2>2. CASE ~job[p].seeding
    BY <2>2 DEF Appended
  <2> QED BY <2>1, <2>2
<1>s. session \in Sessions
  BY <1>t, TypeFacts DEF Sessions, Jobs
<1>i. inForce' \in [Projects -> [Claudes -> Sessions \cup {None}]]
  <2> HIDE DEF session
  <2>1. inForce \in [Projects -> [Claudes -> Sessions \cup {None}]]
    BY <1>t, TypeFacts
  <2>2. CASE inForce' = inForce
    BY <2>1, <2>2
  <2>3. CASE inForce' = [inForce EXCEPT ![j][c] = session]
    BY <2>1, <2>3, <1>s, <1>t
  <2> QED BY <2>2, <2>3, <1>f
<1>n. /\ new \in Jobs
      /\ new.pc \in BeginPcs => /\ job[p].seeding /\ new.pc = "truncate"
           /\ new.project = j /\ new.clean = job[p].clean /\ new.sid = job[p].sid
           /\ new.adopted = job[p].adopted /\ new.first = job[p].first
      /\ ~job[p].seeding => new = Free
      /\ job[p].seeding => new.pc = "truncate"
      /\ ~new.seeding /\ (new.sid = None \/ new.sid = job[p].sid)
      /\ new.read.active = None \/ new.read.active = job[p].read.active
      /\ new.pc \in {"free", "truncate"}
  BY <1>t, FreeTyped DEF Jobs, Free, Blank, BeginPcs
<1> HIDE DEF new
<1>1. /\ job' \in [Processes -> Jobs] /\ job'[p] = new
      /\ \A q \in Processes : q # p => job'[q] = job[q]
  BY <1>m, <1>n, <1>t
<1>2. TypeOK'
  BY <1>1, <1>m, <1>b, <1>u, <1>i, <1>t DEF TypeOK, Jobs
<1>3. ASSUME NEW q \in Processes, q # p PROVE JobOK(q)'
  <2>1. TypeOK /\ JobOK(q) /\ job'[q] = job[q] /\ windows'[q] = windows[q]
    BY <1>1, <1>3, <1>t, <1>m DEF IInv
  <2>2. \A k \in Projects : /\ registry[k] # None =>
                               registry'[k] # None /\ registry[k] \subseteq registry'[k]
                            /\ begun[k] \subseteq begun'[k]
                            /\ ledger[k] \subseteq ledger'[k]
    BY <1>b, <1>m
  <2>3. marker'[job[q].project][Claude[q]] = marker[job[q].project][Claude[q]]
    BY <1>m
  <2>4. ids' \in Nat /\ ids <= ids'
    BY <1>t, <1>m
  <2> QED BY <2>1, <2>2, <2>3, <2>4, OthersKeep
<1>4. JobOK(p)'
  <2>1. CASE ~job[p].seeding
    <3>1. job'[p] = Free
      BY <2>1, <1>1, <1>n
    <3>2. MintedOK(p)'
      BY <3>1, <1>m, <1>t DEF Free, Blank, JobOK, MintedOK
    <3> QED BY <3>1, <3>2, FreedOK DEF JobOK
  <2>2. CASE job[p].seeding
    <3>1. /\ new.pc = "truncate" /\ new.project = j /\ new.clean = job[p].clean
          /\ new.sid = job[p].sid /\ new.adopted = job[p].adopted
          /\ new.first = job[p].first
      BY <2>2, <1>n DEF BeginPcs
    <3>2. ShapeOK(p)' /\ PriorOK(p)' /\ RowOK(p)' /\ ReadingOK(p)'
      BY <3>1, <1>n, <1>1, <1>t DEF ShapeOK, PriorOK, RowOK, ReadingOK, Is, Begins,
         BeginPcs, Reads, Registering
    <3>3. MintedOK(p)'
      BY <3>1, <1>n, <1>1, <1>m, <1>t DEF JobOK, MintedOK
    <3>4. CleanOK(p)'
      BY <3>1, <2>2, <1>n, <1>1, <1>m, <1>t
      DEF JobOK, CleanOK, Begins, BeginPcs, Reads, Registering
    <3> QED BY <3>2, <3>3, <3>4 DEF JobOK
  <2> QED BY <2>1, <2>2
<1>5. FilesOK'
  <2>1. ASSUME NEW k \in Projects, NEW s \in begun'[k] PROVE s \in 1 .. ids
    BY <1>b, <1>t DEF IInv, FilesOK
  <2>2. ASSUME NEW k \in Projects, NEW s \in begun'[k], s \notin unregistered'[k]
        PROVE  Recorded(s, k)'
    <3>1. CASE s \in begun[k]
      <4>1. registry[k] # None /\ s \in registry[k]
        BY <2>2, <3>1, <1>u DEF IInv, FilesOK, Recorded
      <4> QED BY <4>1 DEF Recorded
    <3>2. CASE s \notin begun[k]
      <4>1. s = job[p].sid /\ k = j /\ ~job[p].seeding
        BY <3>2, <2>2, <1>b
      <4>2. ~failed
        BY <2>2, <4>1, <1>u
      <4>3. job[p].sid \in job[p].append
        BY <4>1, <1>t DEF JobOK, PriorOK, Registering
      <4> QED BY <4>1, <4>2, <4>3, <1>t DEF Recorded
    <3> QED BY <3>1, <3>2
  <2> QED BY <2>1, <2>2, <1>m DEF IInv, FilesOK
<1>6. Standing'
  <2>1. CASE inForce' = inForce
    BY <2>1, <1>m DEF IInv, Standing
  <2>2. CASE inForce' = [inForce EXCEPT ![j][c] = session]
             /\ ~job[p].seeding /\ job[p].clean
    <3>1. /\ marker[j][c] # None /\ marker[j][c].active = job[p].sid
          /\ job[p].first /\ windows[p][j] # None
               => windows[p][j] \in marker[j][c].adopted
      BY <2>2, <1>t DEF JobOK, CleanOK, Registering
    <3>2. \A r \in ledger[j] : r.id # None
      BY <1>t, TypeFacts, ChecklistAssumption DEF Rows, Ids
    <3>3. \A r \in session.early : r \in ledger[j] /\ r.id \in marker[j][c].adopted
      BY <3>1, <3>2 DEF Window
    <3>4. session.sid = job[p].sid
      OBVIOUS
    <3> HIDE DEF session
    <3>5. ASSUME NEW k \in Projects, NEW d \in Claudes, inForce'[k][d] # None
          PROVE  /\ marker[k][d] # None
                 /\ marker[k][d].active = inForce'[k][d].sid
                 /\ \A r \in inForce'[k][d].early :
                      r \in ledger[k] /\ r.id \in marker[k][d].adopted
      <4>1. CASE k = j /\ d = c
        <5>1. inForce'[k][d] = session
          BY <4>1, <2>2, <1>t, TypeFacts
        <5> QED BY <5>1, <4>1, <3>1, <3>3, <3>4
      <4>2. CASE k # j \/ d # c
        <5>1. inForce'[k][d] = inForce[k][d]
          BY <4>2, <2>2, <1>t, TypeFacts
        <5> QED BY <5>1, <3>5 DEF IInv, Standing
      <4> QED BY <4>1, <4>2
    <3> QED BY <3>5, <1>m DEF Standing
  <2> QED BY <2>1, <2>2, <1>f
<1>7. Apart'
  <2>1. \A w : Session(w)' => Session(w) \/ w = None
    BY <1>1, <1>m, <1>n, <1>b DEF Session
  <2>2. \A q \in Processes, k \in Projects : windows'[q][k] = windows[q][k]
    BY <1>m
  <2> QED BY <2>1, <2>2, ApartKeeps DEF IInv
<1>8. Alone'
  <2>1. \A q \in Processes :
          /\ Begins(q)' => Begins(q) /\ job'[q].project = job[q].project
          /\ Begins(q)' /\ job'[q].clean => job[q].clean
    BY <1>1, <1>n, <1>t DEF Begins
  <2>2. CASE inForce' = inForce
    BY <2>1, <2>2, AloneKeeps DEF IInv
  <2>3. CASE inForce' = [inForce EXCEPT ![j][c] = session]
             /\ ~job[p].seeding /\ job[p].clean
    <3>1. \A q \in Processes : q # p => ~Beginning(q, j, c)
      BY <2>3, <1>t DEF IInv, Alone
    <3>2. ~Begins(p)'
      BY <2>3, <1>1, <1>n DEF Begins, BeginPcs, Free
    <3>3. ASSUME NEW q \in Processes, NEW k \in Projects, NEW d \in Claudes,
                 inForce'[k][d] # None
          PROVE  ~Beginning(q, k, d)'
      <4>1. CASE q = p
        BY <4>1, <3>2 DEF Beginning, Begins, BeginPcs
      <4>2. CASE q # p /\ k = j /\ d = c
        BY <4>2, <3>1, <1>1 DEF Beginning
      <4>3. CASE q # p /\ (k # j \/ d # c)
        <5>1. inForce'[k][d] = inForce[k][d]
          BY <4>3, <2>3, <1>t, TypeFacts
        <5> QED BY <5>1, <4>3, <3>3, <1>1 DEF IInv, Alone, Beginning
      <4> QED BY <4>1, <4>2, <4>3
    <3>4. ASSUME NEW a \in Processes, NEW b \in Processes,
                 Begins(a)', job'[a].clean, b # a
          PROVE  ~Beginning(b, job[a].project, Claude[a])'
      BY <3>4, <2>1 DEF IInv, Alone, Beginning, Begins, BeginPcs
    <3> QED BY <3>3, <3>4 DEF Alone
  <2> QED BY <2>2, <2>3, <1>f
<1> QED BY <1>2, <1>3, <1>4, <1>5, <1>6, <1>7, <1>8 DEF IInv

LEMMA OpenStep ==
  ASSUME IInv, NEW p \in Processes, Open(p) PROVE IInv'
<1> USE ChecklistAssumption
<1> DEFINE j == job[p].project
           new == [job[p] EXCEPT !.pc = "flush"]
<1>1. /\ job[p] \in Jobs /\ job[p].pc = "open" /\ JobOK(p) /\ TypeOK
      /\ job \in [Processes -> Jobs] /\ j \in Projects /\ ids \in Nat
      /\ registry \in [Projects -> (SUBSET Ids) \cup {None}]
      /\ UNCHANGED <<ledger, marker, windows, clocks>>
  BY TypeFacts DEF IInv, JobOK, ShapeOK, Open, Is
<1>2. CASE Fault /\ Appended(p, TRUE) /\ UNCHANGED registry
  <2>1. faults' \in 0 .. MaxFaults
    BY <1>1, <1>2, TypeFacts DEF Fault
  <2> QED BY <1>1, <1>2, <2>1, AppendedStep
<1>3. CASE /\ registry' = [registry EXCEPT ![j] = IF @ = None THEN {} ELSE @]
           /\ job' = [job EXCEPT ![p].pc = "flush"]
           /\ UNCHANGED <<faults, history>>
  <2>1. /\ job' = [job EXCEPT ![p] = new]
        /\ UNCHANGED <<ledger, marker, windows, ids, calls, hourOld, faults,
                       inForce, begun, unregistered>>
    BY <1>1, <1>3 DEF clocks, history
  <2>2. /\ new \in Jobs /\ new.pc = "flush" /\ new.project = j /\ new.sid = job[p].sid
        /\ new.read = job[p].read /\ new.row = job[p].row /\ new.clean = job[p].clean
        /\ new.first = job[p].first /\ new.seeding = job[p].seeding
        /\ new.adopted = job[p].adopted /\ new.append = job[p].append
    BY <1>1 DEF Jobs
  <2> HIDE DEF new
  <2>3. /\ job' \in [Processes -> Jobs] /\ job'[p] = new
        /\ \A q \in Processes : q # p => job'[q] = job[q]
    BY <1>1, <2>1, <2>2
  <2>4. /\ registry' \in [Projects -> (SUBSET Ids) \cup {None}]
        /\ registry'[j] # None
        /\ \A k \in Projects : registry[k] # None =>
             registry'[k] # None /\ registry[k] \subseteq registry'[k]
    <3>1. {} # None
      OBVIOUS
    <3> QED BY <1>1, <1>3, <3>1
  <2>5. TypeOK'
    BY <1>1, <2>1, <2>3, <2>4 DEF TypeOK, Jobs
  <2>6. ASSUME NEW q \in Processes, q # p PROVE JobOK(q)'
    <3>1. TypeOK /\ JobOK(q) /\ job'[q] = job[q] /\ windows'[q] = windows[q]
      BY <1>1, <2>1, <2>3, <2>6 DEF IInv
    <3>2. \A k \in Projects : /\ registry[k] # None =>
                                 registry'[k] # None /\ registry[k] \subseteq registry'[k]
                              /\ begun[k] \subseteq begun'[k]
                              /\ ledger[k] \subseteq ledger'[k]
      BY <2>1, <2>4
    <3>3. marker'[job[q].project][Claude[q]] = marker[job[q].project][Claude[q]]
      BY <2>1
    <3>4. ids' \in Nat /\ ids <= ids'
      BY <1>1, <2>1
    <3> QED BY <3>1, <3>2, <3>3, <3>4, OthersKeep
  <2>7. JobOK(p)'
    <3>1. ShapeOK(p)' /\ MintedOK(p)' /\ PriorOK(p)' /\ RowOK(p)' /\ ReadingOK(p)'
      BY <1>1, <2>1, <2>2, <2>3, <2>4 DEF JobOK, ShapeOK, MintedOK, PriorOK, Recorded,
         RowOK, ReadingOK, Is, Begins, BeginPcs, Reads, Registering
    <3>2. CleanOK(p)'
      BY <1>1, <2>1, <2>2, <2>3 DEF JobOK, CleanOK, Begins, BeginPcs, Reads, Registering
    <3> QED BY <3>1, <3>2 DEF JobOK
  <2>8. FilesOK' /\ Standing'
    BY <2>1, <2>4 DEF IInv, FilesOK, Recorded, Standing
  <2>9. Apart'
    <3>1. \A w : Session(w)' => Session(w) \/ w = None
      BY <2>1, <2>2, <2>3 DEF Session
    <3> QED BY <2>1, <3>1, ApartKeeps DEF IInv
  <2>10. Alone'
    BY <1>1, <2>1, <2>2, <2>3, AloneKeeps DEF IInv, Begins, BeginPcs
  <2> QED BY <2>5, <2>6, <2>7, <2>8, <2>9, <2>10 DEF IInv
<1> QED BY <1>2, <1>3 DEF Open

LEMMA FlushStep ==
  ASSUME IInv, NEW p \in Processes, Flush(p) PROVE IInv'
<1> DEFINE j == job[p].project
<1>1. /\ job[p] \in Jobs /\ job[p].pc = "flush" /\ TypeOK
      /\ j \in Projects /\ registry[j] # None
      /\ registry \in [Projects -> (SUBSET Ids) \cup {None}]
      /\ UNCHANGED <<ledger, marker, windows, clocks>>
  BY TypeFacts DEF IInv, JobOK, ShapeOK, Flush, Is
<1>2. CASE Fault /\ Appended(p, TRUE) /\ UNCHANGED registry
  <2>1. faults' \in 0 .. MaxFaults
    BY <1>1, <1>2, TypeFacts, ChecklistAssumption DEF Fault
  <2> QED BY <1>1, <1>2, <2>1, AppendedStep
<1>3. CASE /\ registry' = [registry EXCEPT ![j] = @ \cup job[p].append]
           /\ Appended(p, FALSE) /\ UNCHANGED faults
  <2>1. job[p].append \subseteq Ids /\ registry[j] \subseteq Ids
    BY <1>1 DEF Jobs
  <2>2. None \notin SUBSET Ids
    BY ChecklistAssumption
  <2>3. /\ registry' \in [Projects -> (SUBSET Ids) \cup {None}]
        /\ registry'[j] = registry[j] \cup job[p].append
        /\ \A k \in Projects : k # j => registry'[k] = registry[k]
    BY <1>1, <1>3, <2>1
  <2>4. /\ registry'[j] # None
        /\ \A k \in Projects : registry[k] # None =>
             registry'[k] # None /\ registry[k] \subseteq registry'[k]
    BY <2>1, <2>2, <2>3
  <2>5. faults' \in 0 .. MaxFaults
    BY <1>1, <1>3, TypeFacts
  <2> QED BY <1>1, <1>3, <2>3, <2>4, <2>5, AppendedStep
<1> QED BY <1>2, <1>3 DEF Flush

-----------------------------------------------------------------------------
(* Deaths and time.                                                        *)

LEMMA KillStep ==
  ASSUME IInv, NEW p \in Processes, Kill(p) PROVE IInv'
<1> USE ChecklistAssumption
<1>t. /\ TypeOK /\ ids \in Nat /\ job \in [Processes -> Jobs]
      /\ windows \in [Processes -> [Projects -> IdOrNone]] /\ faults' \in 0 .. MaxFaults
  BY TypeFacts DEF IInv, Kill, Fault
<1>1. /\ job' = [job EXCEPT ![p] = Free]
      /\ windows' = [windows EXCEPT ![p] = [j \in Projects |-> None]]
      /\ UNCHANGED <<ledger, marker, registry, ids, calls, hourOld, inForce, begun,
                     unregistered>>
  BY DEF Kill, Ends, files, clocks, history
<1>2. /\ job' \in [Processes -> Jobs] /\ job'[p] = Free
      /\ \A q \in Processes : q # p => job'[q] = job[q] /\ windows'[q] = windows[q]
      /\ windows' \in [Processes -> [Projects -> IdOrNone]]
      /\ \A j \in Projects : windows'[p][j] = None
  BY <1>t, <1>1, FreeTyped DEF IdOrNone
<1>3. TypeOK'
  BY <1>t, <1>1, <1>2 DEF TypeOK, Jobs
<1>4. ASSUME NEW q \in Processes, q # p PROVE JobOK(q)'
  <2>1. TypeOK /\ JobOK(q) /\ job'[q] = job[q] /\ windows'[q] = windows[q]
    BY <1>t, <1>2, <1>4 DEF IInv
  <2>2. \A k \in Projects : /\ registry[k] # None =>
                               registry'[k] # None /\ registry[k] \subseteq registry'[k]
                            /\ begun[k] \subseteq begun'[k]
                            /\ ledger[k] \subseteq ledger'[k]
    BY <1>1
  <2>3. marker'[job[q].project][Claude[q]] = marker[job[q].project][Claude[q]]
    BY <1>1
  <2>4. ids' \in Nat /\ ids <= ids'
    BY <1>t, <1>1
  <2> QED BY <2>1, <2>2, <2>3, <2>4, OthersKeep
<1>5. JobOK(p)'
  <2>1. MintedOK(p)'
    BY <1>2 DEF MintedOK, Free, Blank
  <2> QED BY <1>2, <2>1, FreedOK DEF JobOK
<1>6. FilesOK' /\ Standing'
  BY <1>1 DEF IInv, FilesOK, Recorded, Standing
<1>7. Apart'
  <2>1. job'[p].sid = None /\ job'[p].read.active = None
    BY <1>2 DEF Free, Blank
  <2>2. \A w : Session(w)' => Session(w) \/ w = None
    BY <1>1, <1>2, <2>1 DEF Session
  <2>3. \A q \in Processes, j \in Projects :
          windows'[q][j] = None \/ windows'[q][j] = windows[q][j]
    BY <1>2
  <2> QED BY <2>2, <2>3, ApartKeeps DEF IInv
<1>8. Alone'
  <2>1. job'[p].pc = "free"
    BY <1>2 DEF Free
  <2> QED BY <1>1, <1>2, <2>1, AloneKeeps DEF IInv, Begins, BeginPcs
<1> QED BY <1>3, <1>4, <1>5, <1>6, <1>7, <1>8 DEF IInv

LEMMA IdleStep ==
  ASSUME IInv, TimePasses \/ UNCHANGED vars PROVE IInv'
<1>1. UNCHANGED <<ledger, marker, registry, windows, job, ids, calls, faults,
                  inForce, begun, unregistered>>
  BY DEF TimePasses, vars, files, history
<1>2. TypeOK'
  <2>1. hourOld' \in 0 .. calls'
    BY <1>1, TypeFacts DEF IInv, TimePasses, vars
  <2> QED BY <1>1, <2>1 DEF IInv, TypeOK
<1>3. \A p \in Processes : JobOK(p)'
  BY <1>1 DEF IInv, JobOK, ShapeOK, MintedOK, PriorOK, Recorded, RowOK, CleanOK,
     ReadingOK, Is, Begins, BeginPcs, Reads, Registering
<1>4. FilesOK' /\ Standing' /\ Apart' /\ Alone'
  BY <1>1 DEF IInv, FilesOK, Recorded, Standing, Apart, Session, Alone, Begins,
     BeginPcs, Beginning
<1> QED BY <1>2, <1>3, <1>4 DEF IInv

-----------------------------------------------------------------------------
(* The theorems.                                                           *)

LEMMA StepKeeps == IInv /\ [Next]_vars => IInv'
<1> SUFFICES ASSUME IInv, [Next]_vars PROVE IInv'
  OBVIOUS
<1>1. CASE TimePasses \/ UNCHANGED vars
  BY <1>1, IdleStep
<1>2. ASSUME NEW p \in Processes, NEW j \in Projects,
             Record(p, j) \/ Begin(p, j) \/ Evaluate(p, j)
      PROVE  IInv'
  BY <1>2, RecordStep, BeginStep, EvaluateStep
<1>3. ASSUME NEW p \in Processes,
             \/ Append(p) \/ Scan(p) \/ Look(p) \/ Decide(p) \/ Truncate(p)
             \/ WriteMarker(p) \/ Open(p) \/ Flush(p) \/ Count(p) \/ Kill(p)
      PROVE  IInv'
  BY <1>3, AppendStep, ScanStep, LookStep, DecideStep, TruncateStep,
     WriteMarkerStep, OpenStep, FlushStep, CountStep, KillStep
<1> QED BY <1>1, <1>2, <1>3 DEF Next

\* What each process does is as the code does it, in every reachable state:
\* the inductive invariant holds throughout.
THEOREM Invariance == Spec => []IInv
<1> QED BY InitEstablishes, StepKeeps, PTL DEF Spec

\* Type correctness: ledgers, markers and the registry hold minted ids.
THEOREM TypeCorrect == Spec => []TypeOK
<1>1. IInv => TypeOK
  BY DEF IInv
<1> QED BY <1>1, Invariance, PTL

\* Evaluations count every call of the session in force, for any number of
\* servers, Claude sessions and restarts.
THEOREM SessionCallsAreCounted == Spec => []SessionCallsCount
<1>1. IInv => SessionCallsCount
  <2> SUFFICES ASSUME IInv, NEW p \in Processes, Is(p, "count"),
                      job[p].session # None, NEW r \in ledger[job[p].project],
                      r.for = job[p].session.sid
               PROVE  r.call \in Counted(p)
    BY DEF SessionCallsCount
  <2>1. /\ job[p].project \in Projects /\ job[p].read.active = job[p].session.sid
        /\ job[p] \in Jobs
    BY TypeFacts DEF IInv, JobOK, ShapeOK, ReadingOK, Is
  <2>2. job[p].session.sid \in Ids
    BY <2>1 DEF Jobs, Sessions
  <2>3. job[p].session.sid # None
    BY <2>2, ChecklistAssumption DEF Ids
  <2>4. r.id = job[p].read.active
    BY <2>1, <2>3 DEF IInv, FilesOK
  <2>5. r.id \in Owners(job[p].read, Window(p))
    BY <2>1, <2>3, <2>4 DEF Owners
  <2> QED BY <2>5 DEF Counted
<1> QED BY <1>1, Invariance, PTL

\* The calls a process made before the session it began count towards it.
THEOREM EarlyCallsAreCounted == Spec => []EarlyCallsCount
<1>1. IInv => EarlyCallsCount
  <2> SUFFICES ASSUME IInv, NEW p \in Processes, Is(p, "count"),
                      job[p].session # None, NEW r \in job[p].session.early
               PROVE  r.call \in Counted(p)
    BY DEF EarlyCallsCount
  <2>1. /\ r \in ledger[job[p].project] /\ r.id \in job[p].read.adopted
        /\ job[p].read.active = job[p].session.sid /\ job[p] \in Jobs
    BY TypeFacts DEF IInv, JobOK, ReadingOK
  <2>2. job[p].session.sid \in Ids
    BY <2>1 DEF Jobs, Sessions
  <2>3. job[p].session.sid # None
    BY <2>2, ChecklistAssumption DEF Ids
  <2>4. r.id \in Owners(job[p].read, Window(p))
    BY <2>1, <2>3 DEF Owners
  <2> QED BY <2>1, <2>4 DEF Counted
<1> QED BY <1>1, Invariance, PTL

\* The registry knows what is registered, and the new session and the one the
\* marker named are known without it.
LEMMA AdoptionSkipsSessions == IInv => SessionsNotAdopted
<1> SUFFICES ASSUME IInv, NEW p \in Processes, Is(p, "decide")
             PROVE  /\ Adopts(p, Registered(p)) \cap job[p].prior = {}
                    /\ job[p].read.active \notin Adopts(p, {})
  BY DEF SessionsNotAdopted
<1> DEFINE j == job[p].project
<1>1. /\ j \in Projects /\ job[p] \in Jobs
      /\ \A s \in job[p].prior : s # None /\ (s = job[p].read.active \/ Recorded(s, j))
  BY TypeFacts DEF IInv, JobOK, ShapeOK, PriorOK, Is, Reads
<1>2. ASSUME NEW s \in job[p].prior, s \in Adopts(p, Registered(p)) PROVE FALSE
  <2>1. s \in Claimed(p, Registered(p))
    BY <1>1, <1>2 DEF Claimed, Registered, Recorded
  <2>2. s \notin Candidates(p, Registered(p))
    BY <2>1 DEF Candidates
  <2>3. job[p].read.active = None /\ s = Window(p)
    BY <1>2, <2>2 DEF Adopts
  <2>4. Session(s)
    BY <1>1, <1>2, <2>3 DEF Session, Recorded
  <2> QED BY <1>1, <1>2, <2>3, <2>4 DEF IInv, Apart, Window
<1>3. job[p].read.active \notin Adopts(p, {})
  <2>1. CASE job[p].read.active = None
    <3>1. \A r \in job[p].seen : r.id # None
      BY <1>1, ChecklistAssumption DEF Jobs, Rows, Ids
    <3> QED BY <2>1, <3>1 DEF Adopts, Candidates
  <2>2. CASE job[p].read.active # None
    BY <2>2 DEF Adopts, Candidates, Claimed
  <2> QED BY <2>1, <2>2
<1> QED BY <1>2, <1>3

\* begin_session never adopts an earlier session it has a record of: none that is
\* in a registry it can read, and never the one its own marker names.  Of a
\* session whose registry write failed, or where the registry cannot be read,
\* nothing else is claimed.
THEOREM SessionsAreNotAdopted == Spec => []SessionsNotAdopted
<1> QED BY AdoptionSkipsSessions, Invariance, PTL

-----------------------------------------------------------------------------
(* Earlier sessions.  A second invariant, on top of the first: what begins *)
(* alone, or stands, has nothing of the sessions before it.                *)

Marked(p) == marker[job[p].project][Claude[p]]

PastOK(p) ==
  /\ Begins(p) => job[p].sid \notin job[p].prior
  /\ Begins(p) /\ job[p].clean =>
       /\ job[p].adopted \cap job[p].prior = {}
       /\ Is(p, "write") => Marked(p) = Blank
       /\ Registering(p) => Marked(p).adopted \cap job[p].prior = {}
  /\ Is(p, "count") /\ job[p].session # None =>
       job[p].session.prior \cap ({job[p].read.active} \cup job[p].read.adopted) = {}

StandingPast ==
  \A j \in Projects, c \in Claudes : inForce[j][c] # None =>
    inForce[j][c].prior \cap ({marker[j][c].active} \cup marker[j][c].adopted) = {}

Past == (\A p \in Processes : PastOK(p)) /\ StandingPast

\* What a step of another process leaves.
LEMMA OthersKeepPast ==
  ASSUME TypeOK, NEW q \in Processes, PastOK(q),
         \/ job'[q] = job[q]
         \/ job'[q] = [job[q] EXCEPT !.clean = FALSE],
         Begins(q) /\ job[q].clean =>
           marker'[job[q].project][Claude[q]] = marker[job[q].project][Claude[q]]
  PROVE  PastOK(q)'
<1>1. job[q] \in Jobs
  BY TypeFacts
<1>2. /\ job'[q].pc = job[q].pc /\ job'[q].project = job[q].project
      /\ job'[q].sid = job[q].sid /\ job'[q].read = job[q].read
      /\ job'[q].adopted = job[q].adopted /\ job'[q].seeding = job[q].seeding
      /\ job'[q].prior = job[q].prior /\ job'[q].session = job[q].session
      /\ job'[q].clean => job[q].clean
  BY <1>1 DEF Jobs
<1> QED BY <1>2 DEF PastOK, Marked, Is, Begins, BeginPcs, Registering

\* A step in which one process moves on, and neither markers nor the sessions in
\* force change.
LEMMA QuietPast ==
  ASSUME IInv, Past, NEW p \in Processes, marker' = marker, inForce' = inForce,
         \A q \in Processes : q # p => job'[q] = job[q],
         PastOK(p)'
  PROVE  Past'
<1>1. ASSUME NEW q \in Processes, q # p PROVE PastOK(q)'
  <2>1. TypeOK /\ PastOK(q) /\ job'[q] = job[q]
    BY <1>1 DEF IInv, Past
  <2>2. marker'[job[q].project][Claude[q]] = marker[job[q].project][Claude[q]]
    OBVIOUS
  <2> QED BY <2>1, <2>2, OthersKeepPast
<1>2. StandingPast'
  BY DEF Past, StandingPast
<1> QED BY <1>1, <1>2 DEF Past

\* A process that is not in begin_session and not in evaluate.
LEMMA BusyElsewhere ==
  ASSUME NEW p \in Processes, job'[p].pc \in {"free", "append"}
  PROVE  PastOK(p)'
  BY DEF PastOK, Is, Begins, BeginPcs

LEMMA RecordPast ==
  ASSUME IInv, Past, NEW p \in Processes, NEW j \in Projects, Record(p, j)
  PROVE  Past'
<1>1. /\ marker' = marker /\ inForce' = inForce
      /\ job' = [q \in Processes |-> IF q = p THEN job'[p] ELSE job[q]]
      /\ job'[p].pc = "append"
  BY TypeFacts DEF IInv, Record, files, history, Free
<1>2. \A q \in Processes : q # p => job'[q] = job[q]
  BY <1>1
<1> QED BY <1>1, <1>2, BusyElsewhere, QuietPast

\* Steps that end an operation: append's, evaluate's, a death.
LEMMA EndPast ==
  ASSUME IInv, Past, NEW p \in Processes, Append(p) \/ Count(p) \/ Kill(p)
  PROVE  Past'
<1>1. job' = [job EXCEPT ![p] = Free] /\ marker' = marker /\ inForce' = inForce
  BY DEF Append, Count, Kill, Ends, files, rest, history
<1>2. job'[p].pc = "free" /\ \A q \in Processes : q # p => job'[q] = job[q]
  BY <1>1, TypeFacts DEF IInv, Free
<1> QED BY <1>1, <1>2, BusyElsewhere, QuietPast

LEMMA EvaluatePast ==
  ASSUME IInv, Past, NEW p \in Processes, NEW j \in Projects, Evaluate(p, j)
  PROVE  Past'
<1> DEFINE now == inForce[j][Claude[p]]
           new == [Free EXCEPT !.pc = "count", !.project = j, !.read = Load(p, j),
                               !.session = now]
<1>1. job' = [job EXCEPT ![p] = new] /\ marker' = marker /\ inForce' = inForce
  BY DEF Evaluate, files, rest, history
<1>2. job'[p] = new /\ \A q \in Processes : q # p => job'[q] = job[q]
  BY <1>1, TypeFacts DEF IInv
<1>3. new.pc = "count" /\ new.read = Load(p, j) /\ new.session = now
  BY DEF Free
<1>4. Claude[p] \in Claudes
  BY ChecklistAssumption
<1>5. now # None => /\ Load(p, j) = marker[j][Claude[p]]
                    /\ now.prior \cap ({Load(p, j).active} \cup Load(p, j).adopted) = {}
  BY <1>4 DEF IInv, Standing, Past, StandingPast, Load, Key
<1> HIDE DEF now, new
<1>6. PastOK(p)'
  BY <1>2, <1>3, <1>5 DEF PastOK, Is, Begins, BeginPcs
<1> QED BY <1>1, <1>2, <1>6, QuietPast

LEMMA BeginPast ==
  ASSUME IInv, Past, NEW p \in Processes, NEW j \in Projects, Begin(p, j)
  PROVE  Past'
<1> DEFINE c == Claude[p]
           read == Load(p, j)
           mine == [Free EXCEPT
             !.pc = "scan", !.project = j, !.sid = ids + 1, !.read = read,
             !.clean = \A q \in Processes : ~Beginning(q, j, c),
             !.first = marker[j][c] = None,
             !.prior = ((begun[j] \ unregistered[j]) \cup {read.active}) \ {None}]
<1>1. /\ job' = [q \in Processes |->
           IF q = p THEN mine
           ELSE IF Beginning(q, j, c) THEN [job[q] EXCEPT !.clean = FALSE]
           ELSE job[q]]
      /\ inForce' = [inForce EXCEPT ![j][c] = None]
      /\ marker' = marker
  BY DEF Begin, files
<1>2. /\ TypeOK /\ c \in Claudes /\ ids \in Nat
      /\ inForce \in [Projects -> [Claudes -> Sessions \cup {None}]]
  BY TypeFacts DEF IInv
<1>3. read.active # None => read.active \in 1 .. ids
  BY <1>2 DEF IInv, FilesOK, Load, Key, Blank
<1>4. begun[j] \subseteq 1 .. ids
  BY DEF IInv, FilesOK
<1>5. /\ mine.pc = "scan" /\ mine.sid = ids + 1 /\ mine.adopted = {}
      /\ mine.prior = ((begun[j] \ unregistered[j]) \cup {read.active}) \ {None}
  BY DEF Free
<1> HIDE DEF mine, read
<1>6. mine.sid \notin mine.prior
  BY <1>2, <1>3, <1>4, <1>5
<1>7. job'[p] = mine
  BY <1>1
<1>8. PastOK(p)'
  BY <1>5, <1>6, <1>7 DEF PastOK, Is, Begins, BeginPcs, Registering
<1>9. ASSUME NEW q \in Processes, q # p PROVE PastOK(q)'
  <2>1. job'[q] = job[q] \/ job'[q] = [job[q] EXCEPT !.clean = FALSE]
    BY <1>1, <1>9
  <2>2. PastOK(q)
    BY DEF Past
  <2>3. marker'[job[q].project][Claude[q]] = marker[job[q].project][Claude[q]]
    BY <1>1
  <2> QED BY <1>2, <2>1, <2>2, <2>3, OthersKeepPast
<1>10. StandingPast'
  <2>1. \A k \in Projects, d \in Claudes : inForce'[k][d] # None =>
          inForce'[k][d] = inForce[k][d]
    BY <1>1, <1>2
  <2> QED BY <1>1, <2>1 DEF Past, StandingPast
<1> QED BY <1>8, <1>9, <1>10 DEF Past

LEMMA ReadPast ==
  ASSUME IInv, Past, NEW p \in Processes, Scan(p) \/ Look(p)
  PROVE  Past'
<1>1. marker' = marker /\ inForce' = inForce
  BY DEF Scan, Look, files, rest, history
<1>2. job \in [Processes -> Jobs] /\ job[p] \in Jobs
  BY TypeFacts DEF IInv
<1>3. /\ \A q \in Processes : q # p => job'[q] = job[q]
      /\ job'[p].pc \in {"look", "decide"} /\ job[p].pc \in {"scan", "look"}
      /\ job'[p].sid = job[p].sid /\ job'[p].prior = job[p].prior
      /\ job'[p].adopted = job[p].adopted /\ job'[p].clean = job[p].clean
  BY <1>2 DEF Scan, Look, Is, Jobs
<1>4. PastOK(p)
  BY DEF Past
<1>5. PastOK(p)'
  BY <1>3, <1>4 DEF PastOK, Is, Begins, BeginPcs, Registering
<1> QED BY <1>1, <1>3, <1>5, QuietPast

\* What it adopts are not sessions before it, as far as it has a record of them.
LEMMA DecidesPast ==
  ASSUME IInv, Past, NEW p \in Processes, job[p].pc = "decide",
         NEW known, NEW prior, Decides(p, known, prior),
         prior \subseteq job[p].prior, Adopts(p, known) \cap prior = {},
         marker' = marker, inForce' = inForce
  PROVE  Past'
<1> DEFINE adopts == Adopts(p, known)
           seeds == Seeding(p, known)
           kept == IF job[p].clean THEN prior ELSE {}
           new == [job[p] EXCEPT !.read = Blank, !.seen = {}, !.new = FALSE,
                     !.prior = kept,
                     !.pc = IF seeds THEN "open" ELSE "truncate",
                     !.seeding = seeds,
                     !.append = IF seeds THEN Candidates(p, known) ELSE {},
                     !.adopted = adopts]
<1>1. job' = [job EXCEPT ![p] = new]
  BY DEF Decides
<1>2. /\ job[p] \in Jobs /\ PastOK(p)
      /\ \A q \in Processes : q # p => job'[q] = job[q]
      /\ job'[p] = new
  BY <1>1, TypeFacts DEF IInv, Past
<1>s. seeds \in BOOLEAN
  BY DEF Seeding
<1>k. adopts \cap kept = {}
  OBVIOUS
<1>l. job[p].sid \notin kept
  BY <1>2 DEF PastOK, Begins, BeginPcs
<1> HIDE DEF adopts, seeds, kept
<1>4. /\ new.pc = (IF seeds THEN "open" ELSE "truncate") /\ new.sid = job[p].sid
      /\ new.prior = kept
      /\ new.adopted = adopts /\ new.seeding = seeds /\ new.clean = job[p].clean
  BY <1>2 DEF Jobs
<1> HIDE DEF new
<1>5. PastOK(p)'
  BY <1>s, <1>2, <1>4, <1>k, <1>l DEF PastOK, Is, Begins, BeginPcs, Registering
<1> QED BY <1>2, <1>5, QuietPast

LEMMA DecidePast ==
  ASSUME IInv, Past, NEW p \in Processes, Decide(p)
  PROVE  Past'
<1>1. job[p].pc = "decide" /\ marker' = marker /\ inForce' = inForce
  BY DEF Decide, Is, files, history
<1>2. /\ Adopts(p, Registered(p)) \cap job[p].prior = {}
      /\ job[p].read.active \notin Adopts(p, {})
  BY AdoptionSkipsSessions DEF SessionsNotAdopted, Decide
<1>3. CASE Decides(p, Registered(p), job[p].prior)
  BY <1>1, <1>2, <1>3, DecidesPast
<1>4. CASE Decides(p, {}, job[p].prior \cap {job[p].read.active})
  <2>1. Adopts(p, {}) \cap (job[p].prior \cap {job[p].read.active}) = {}
    BY <1>2
  <2> QED BY <1>1, <1>4, <2>1, DecidesPast
<1> QED BY <1>3, <1>4 DEF Decide

\* A write of the marker touches neither the marker of another clean begin_session
\* nor that of a session in force.
LEMMA MarkerPast ==
  ASSUME IInv, Past, NEW p \in Processes, Begins(p), inForce' = inForce,
         \A q \in Processes : q # p => job'[q] = job[q],
         NEW m, marker' = [marker EXCEPT ![job[p].project][Claude[p]] = m],
         PastOK(p)'
  PROVE  Past'
<1> DEFINE j == job[p].project
           c == Claude[p]
<1>1. j \in Projects /\ c \in Claudes /\ Beginning(p, j, c) /\ TypeOK
  BY TypeFacts DEF IInv, JobOK, ShapeOK, Beginning, Begins, BeginPcs
<1>2. \A k \in Projects, d \in Claudes :
        (k # j \/ d # c) => marker'[k][d] = marker[k][d]
  BY <1>1, TypeFacts
<1>3. ASSUME NEW q \in Processes, q # p PROVE PastOK(q)'
  <2>1. ASSUME Begins(q), job[q].clean
        PROVE  marker'[job[q].project][Claude[q]] = marker[job[q].project][Claude[q]]
    <3>1. job[q].project \in Projects /\ Claude[q] \in Claudes
      BY <2>1, TypeFacts DEF IInv, JobOK, ShapeOK, Begins, BeginPcs
    <3>2. ~Beginning(p, job[q].project, Claude[q])
      BY <1>3, <2>1 DEF IInv, Alone
    <3> QED BY <3>1, <3>2, <1>1, <1>2
  <2>2. PastOK(q) /\ job'[q] = job[q]
    BY <1>3 DEF Past
  <2> QED BY <1>1, <2>1, <2>2, OthersKeepPast
<1>4. StandingPast'
  <2>1. \A k \in Projects, d \in Claudes : inForce[k][d] # None =>
          marker'[k][d] = marker[k][d]
    BY <1>1, <1>2 DEF IInv, Alone
  <2> QED BY <2>1 DEF Past, StandingPast
<1> QED BY <1>3, <1>4 DEF Past

LEMMA SkipPast ==
  ASSUME IInv, Past, NEW p \in Processes, SkipMarker(p), UNCHANGED <<marker, history>>,
         job[p].pc \in {"truncate", "write"}
  PROVE  Past'
<1> DEFINE x == [job[p] EXCEPT !.pc = "open",
                   !.append = {job[p].sid} \cup job[p].adopted, !.adopted = {}]
           new == [x EXCEPT !.clean = FALSE]
<1>1. job' = [job EXCEPT ![p] = new]
  BY TypeFacts DEF IInv, SkipMarker, Registers
<1>2. job[p] \in Jobs /\ PastOK(p) /\ Begins(p)
  BY TypeFacts DEF IInv, Past, Begins, BeginPcs
<1>3. new.sid = job[p].sid /\ new.prior = job[p].prior /\ ~new.clean /\ new.pc = "open"
  BY <1>2 DEF Jobs
<1> HIDE DEF new
<1>4. job'[p] = new /\ \A q \in Processes : q # p => job'[q] = job[q]
  BY <1>1, TypeFacts DEF IInv
<1>5. PastOK(p)'
  BY <1>2, <1>3, <1>4 DEF PastOK, Is, Begins, BeginPcs
<1> QED BY <1>4, <1>5, QuietPast DEF history

LEMMA TruncatePast ==
  ASSUME IInv, Past, NEW p \in Processes, Truncate(p)
  PROVE  Past'
<1> DEFINE new == [job[p] EXCEPT !.pc = "write"]
<1>1. /\ job[p] \in Jobs /\ job[p].pc = "truncate" /\ PastOK(p) /\ Begins(p)
      /\ job[p].project \in Projects /\ Claude[p] \in Claudes /\ inForce' = inForce
      /\ UNCHANGED history
  BY TypeFacts DEF IInv, JobOK, ShapeOK, Past, Truncate, Is, Begins, BeginPcs, history
<1>2. CASE SkipMarker(p) /\ Fault /\ UNCHANGED marker
  BY <1>1, <1>2, SkipPast
<1>3. CASE /\ marker' = [marker EXCEPT ![job[p].project][Key(p)] = Blank]
           /\ job' = [job EXCEPT ![p].pc = "write"] /\ UNCHANGED faults
  <2>1. /\ job'[p] = new /\ \A q \in Processes : q # p => job'[q] = job[q]
        /\ marker' = [marker EXCEPT ![job[p].project][Claude[p]] = Blank]
    BY <1>3, TypeFacts DEF IInv, Key
  <2>2. marker'[job[p].project][Claude[p]] = Blank
    BY <1>1, <2>1, TypeFacts DEF IInv
  <2>3. /\ new.pc = "write" /\ new.project = job[p].project /\ new.sid = job[p].sid
        /\ new.prior = job[p].prior /\ new.adopted = job[p].adopted
        /\ new.clean = job[p].clean
    BY <1>1 DEF Jobs
  <2> HIDE DEF new
  <2>4. PastOK(p)'
    BY <1>1, <2>1, <2>2, <2>3 DEF PastOK, Marked, Is, Begins, BeginPcs, Registering
  <2> QED BY <1>1, <2>1, <2>4, MarkerPast
<1> QED BY <1>2, <1>3 DEF Truncate

\* Alone, a process finds its marker as it truncated it: no tail stays.
LEMMA WriteMarkerPast ==
  ASSUME IInv, Past, NEW p \in Processes, WriteMarker(p)
  PROVE  Past'
<1> DEFINE new == [job[p] EXCEPT !.pc = "open",
                     !.append = {job[p].sid} \cup job[p].adopted, !.adopted = {}]
           j == job[p].project
           c == Claude[p]
<1>1. /\ job[p] \in Jobs /\ job[p].pc = "write" /\ PastOK(p) /\ Begins(p)
      /\ j \in Projects /\ c \in Claudes /\ inForce' = inForce /\ UNCHANGED history
  BY TypeFacts DEF IInv, JobOK, ShapeOK, Past, WriteMarker, Is, Begins, BeginPcs, history
<1>2. CASE SkipMarker(p) /\ Fault /\ UNCHANGED marker
  BY <1>1, <1>2, SkipPast
<1>3. ASSUME NEW tail \in SUBSET Load(p, j).adopted,
             marker' = [marker EXCEPT ![j][Key(p)] =
               [active |-> job[p].sid, adopted |-> job[p].adopted \cup tail]],
             job' = Registers(p)
      PROVE  Past'
  <2> DEFINE m == [active |-> job[p].sid, adopted |-> job[p].adopted \cup tail]
  <2>1. job[p].clean => tail = {}
    BY <1>1, <1>3 DEF PastOK, Marked, Is, Load, Key, Blank
  <2>2. job[p].clean => m.adopted \cap job[p].prior = {}
    BY <1>1, <2>1 DEF PastOK
  <2>3. /\ job'[p] = new /\ \A q \in Processes : q # p => job'[q] = job[q]
        /\ marker' = [marker EXCEPT ![j][c] = m]
    BY <1>3, TypeFacts DEF IInv, Key, Registers
  <2> HIDE DEF m
  <2>4. marker'[j][c] = m
    BY <1>1, <2>3, TypeFacts DEF IInv
  <2>5. /\ new.pc = "open" /\ new.project = j /\ new.sid = job[p].sid
        /\ new.prior = job[p].prior /\ new.adopted = {} /\ new.clean = job[p].clean
    BY <1>1 DEF Jobs
  <2> HIDE DEF new
  <2>6. PastOK(p)'
    BY <1>1, <2>2, <2>3, <2>4, <2>5
    DEF PastOK, Marked, Is, Begins, BeginPcs, Registering
  <2> QED BY <1>1, <2>3, <2>6, MarkerPast
<1> QED BY <1>2, <1>3 DEF WriteMarker

LEMMA AppendedPast ==
  ASSUME IInv, Past, NEW p \in Processes, NEW failed \in BOOLEAN,
         job[p].pc \in {"open", "flush"}, Appended(p, failed), UNCHANGED marker
  PROVE  Past'
<1> DEFINE j == job[p].project
           c == Claude[p]
           new == [job[p] EXCEPT !.pc = "truncate", !.seeding = FALSE, !.append = {}]
           early == IF job[p].first THEN {r \in ledger[j] : r.id = Window(p)} ELSE {}
           session == [sid |-> job[p].sid, early |-> early, prior |-> job[p].prior]
<1>1. /\ job[p] \in Jobs /\ j \in Projects /\ c \in Claudes /\ PastOK(p) /\ Begins(p)
      /\ job \in [Processes -> Jobs]
      /\ inForce \in [Projects -> [Claudes -> Sessions \cup {None}]]
  BY TypeFacts DEF IInv, JobOK, ShapeOK, Past, Begins, BeginPcs
<1>2. CASE job[p].seeding
  <2>1. job' = [job EXCEPT ![p] = new] /\ inForce' = inForce
    BY <1>1, <1>2 DEF Appended, history
  <2>2. job'[p] = new /\ \A q \in Processes : q # p => job'[q] = job[q]
    BY <1>1, <2>1
  <2>3. /\ new.pc = "truncate" /\ new.sid = job[p].sid /\ new.prior = job[p].prior
        /\ new.adopted = job[p].adopted /\ new.clean = job[p].clean
    BY <1>1 DEF Jobs
  <2> HIDE DEF new
  <2>4. PastOK(p)'
    BY <1>1, <2>2, <2>3 DEF PastOK, Is, Begins, BeginPcs, Registering
  <2> QED BY <2>1, <2>2, <2>4, QuietPast
<1>3. CASE ~job[p].seeding
  <2>1. /\ job' = [job EXCEPT ![p] = Free]
        /\ \/ inForce' = inForce
           \/ inForce' = [inForce EXCEPT ![j][c] = session] /\ job[p].clean
    BY <1>3 DEF Appended, Ends
  <2>2. /\ job'[p].pc = "free" /\ PastOK(p)'
        /\ \A q \in Processes : q # p => job'[q] = job[q]
    BY <1>1, <2>1, BusyElsewhere DEF Free
  <2>3. CASE inForce' = inForce
    BY <2>2, <2>3, QuietPast
  <2>4. CASE inForce' = [inForce EXCEPT ![j][c] = session] /\ job[p].clean
    <3>1. \A q \in Processes : PastOK(q)'
      <4>1. ASSUME NEW q \in Processes, q # p PROVE PastOK(q)'
        <5>1. TypeOK /\ PastOK(q) /\ job'[q] = job[q]
          BY <2>2, <4>1 DEF IInv, Past
        <5>2. marker'[job[q].project][Claude[q]] = marker[job[q].project][Claude[q]]
          OBVIOUS
        <5> QED BY <5>1, <5>2, OthersKeepPast
      <4> QED BY <2>2, <4>1
    <3>2. /\ marker[j][c].active = job[p].sid
          /\ marker[j][c].adopted \cap job[p].prior = {}
          /\ job[p].sid \notin job[p].prior
      BY <1>1, <1>3, <2>4
      DEF IInv, JobOK, CleanOK, PastOK, Marked, Registering
    <3>3. session.prior = job[p].prior
      OBVIOUS
    <3> HIDE DEF session
    <3>4. ASSUME NEW k \in Projects, NEW d \in Claudes, inForce'[k][d] # None
          PROVE  inForce'[k][d].prior
                   \cap ({marker[k][d].active} \cup marker[k][d].adopted) = {}
      <4>1. CASE k = j /\ d = c
        <5>1. inForce'[k][d] = session
          BY <4>1, <2>4, <1>1
        <5> QED BY <4>1, <5>1, <3>2, <3>3
      <4>2. CASE k # j \/ d # c
        <5>1. inForce'[k][d] = inForce[k][d]
          BY <4>2, <2>4, <1>1
        <5> QED BY <5>1, <3>4 DEF Past, StandingPast
      <4> QED BY <4>1, <4>2
    <3> QED BY <3>1, <3>4 DEF Past, StandingPast
  <2> QED BY <2>1, <2>3, <2>4
<1> QED BY <1>2, <1>3

LEMMA RegistryPast ==
  ASSUME IInv, Past, NEW p \in Processes, Open(p) \/ Flush(p)
  PROVE  Past'
<1>1. job[p].pc \in {"open", "flush"} /\ marker' = marker
  BY DEF Open, Flush, Is
<1>2. CASE Appended(p, TRUE) \/ Appended(p, FALSE)
  BY <1>1, <1>2, AppendedPast
<1>3. CASE /\ job[p].pc = "open" /\ job' = [job EXCEPT ![p].pc = "flush"]
           /\ UNCHANGED history
  <2> DEFINE new == [job[p] EXCEPT !.pc = "flush"]
  <2>1. job[p] \in Jobs /\ PastOK(p)
    BY TypeFacts DEF IInv, Past
  <2>2. job'[p] = new /\ \A q \in Processes : q # p => job'[q] = job[q]
    BY <1>3, TypeFacts DEF IInv
  <2>3. /\ new.pc = "flush" /\ new.project = job[p].project /\ new.sid = job[p].sid
        /\ new.prior = job[p].prior /\ new.adopted = job[p].adopted
        /\ new.clean = job[p].clean /\ new.seeding = job[p].seeding
    BY <2>1 DEF Jobs
  <2> HIDE DEF new
  <2>4. PastOK(p)'
    BY <1>1, <1>3, <2>1, <2>2, <2>3
    DEF PastOK, Marked, Is, Begins, BeginPcs, Registering
  <2> QED BY <1>1, <1>3, <2>2, <2>4, QuietPast DEF history
<1> QED BY <1>2, <1>3 DEF Open, Flush, Is

LEMMA PastStep == IInv /\ Past /\ [Next]_vars => Past'
<1> SUFFICES ASSUME IInv, Past, [Next]_vars PROVE Past'
  OBVIOUS
<1>1. CASE TimePasses \/ UNCHANGED vars
  <2>1. UNCHANGED <<marker, job, inForce>>
    BY <1>1 DEF TimePasses, vars, files, history
  <2> QED BY <2>1 DEF Past, PastOK, StandingPast, Marked, Is, Begins, BeginPcs,
                      Registering
<1>2. ASSUME NEW p \in Processes, NEW j \in Projects,
             Record(p, j) \/ Begin(p, j) \/ Evaluate(p, j)
      PROVE  Past'
  BY <1>2, RecordPast, BeginPast, EvaluatePast
<1>3. ASSUME NEW p \in Processes,
             \/ Append(p) \/ Scan(p) \/ Look(p) \/ Decide(p) \/ Truncate(p)
             \/ WriteMarker(p) \/ Open(p) \/ Flush(p) \/ Count(p) \/ Kill(p)
      PROVE  Past'
  BY <1>3, EndPast, ReadPast, DecidePast, TruncatePast, WriteMarkerPast, RegistryPast
<1> QED BY <1>1, <1>2, <1>3 DEF Next

LEMMA PastInvariance == Spec => []Past
<1>1. Init => Past
  BY DEF Init, Past, PastOK, StandingPast, Is, Begins, BeginPcs, Free
<1> QED BY <1>1, PastStep, Invariance, PTL DEF Spec

\* No session is handed the evidence of an earlier one there was a record of when
\* it began: one that was over and registered, unless this begin_session could not
\* read the registry, or one its own marker named.  For any number of servers,
\* Claude sessions and restarts.
THEOREM EarlierCallsAreNotCounted == Spec => []EarlierCallsDoNotCount
<1>1. IInv /\ Past => EarlierCallsDoNotCount
  <2> SUFFICES ASSUME IInv, Past, NEW p \in Processes, Is(p, "count"),
                      job[p].session # None, NEW r \in ledger[job[p].project],
                      r.id \in Owners(job[p].read, Window(p)),
                      r.for \in job[p].session.prior
               PROVE  FALSE
    BY DEF EarlierCallsDoNotCount
  <2>1. /\ job[p].project \in Projects /\ job[p].read.active = job[p].session.sid
        /\ job[p] \in Jobs /\ PastOK(p)
    BY TypeFacts DEF IInv, JobOK, ShapeOK, ReadingOK, Past, Is
  <2>2. job[p].session.sid \in Ids /\ job[p].session.prior \subseteq Ids
    BY <2>1 DEF Jobs, Sessions
  <2>3. job[p].session.sid # None /\ r.for # None
    BY <2>2, ChecklistAssumption DEF Ids
  <2>4. r.id = r.for
    BY <2>1, <2>3 DEF IInv, FilesOK
  <2>5. r.id \in {job[p].read.active} \cup job[p].read.adopted
    BY <2>1, <2>3 DEF Owners
  <2> QED BY <2>1, <2>4, <2>5 DEF PastOK
<1> QED BY <1>1, Invariance, PastInvariance, PTL
=============================================================================
