----------------------------- MODULE HandoffGuard -----------------------------
(***************************************************************************)
(* guarded_write: processes that replace session-handoff files, one file   *)
(* per slot and one archive for all slots, without a lock between them.  A *)
(* write reads the incumbent, chooses a name for it in the archive, moves  *)
(* it there, prunes the archive, writes a temp file beside the target and  *)
(* renames it over the target.  Each step is one file-system operation; it *)
(* may fail, and the process may be killed before it.                      *)
(***************************************************************************)
EXTENDS Naturals, Sequences, FiniteSets

CONSTANTS
  Processes,  \* processes that write handoffs
  Slots,      \* handoff slots, each with a file of its own
  Uses,       \* the slots each process writes
  Label,      \* per slot: the place of its label in the sort order of names
              \* (no slot and a slot called "default" share a label)
  Stamps,     \* readings of the wall clock
  Programs,   \* what a **Program:** header can say
  None,       \* no file, no document, no header
  Keep,       \* ARCHIVE_KEEP
  Faulty,     \* may file operations fail and processes be killed?
  MaxDocs     \* bound: documents offered

ASSUME GuardAssumption ==
  /\ Uses \in [Processes -> SUBSET Slots]
  /\ Label \in [Slots -> Nat]
  /\ Stamps \subseteq Nat
  /\ Keep \in Nat \ {0}
  /\ MaxDocs \in Nat
  /\ Faulty \in BOOLEAN
  /\ None \notin Programs
  /\ None \notin Nat
  /\ None \notin Slots

Docs == 1 .. MaxDocs

\* The names <stamp>-<label>.md and, where n > 0, <stamp>+<n>-<label>.md.  One
\* of MaxDocs + 1 is always free, as there are MaxDocs documents.
Names == [stamp : Stamps, n : 0 .. MaxDocs, label : {Label[s] : s \in Slots}]

ASSUME NameAssumption == None \notin Names

\* Name m sorts after name n: by the stamp; under one stamp a plain name comes
\* last, as '+' sorts before '-', and those with a counter in its order (up to
\* 9); then by the label.
Later(m, n) ==
  LET place(x) == IF x.n = 0 THEN MaxDocs + 1 ELSE x.n IN
  \/ m.stamp > n.stamp
  \/ m.stamp = n.stamp /\ place(m) > place(n)
  \/ m.stamp = n.stamp /\ m.n = n.n /\ m.label > n.label

After == [n \in Names |-> {m \in Names : Later(m, n)}]

VARIABLES
  path,      \* per slot: the document at its path, or None
  archive,   \* the archive: a function from names to documents
  given,     \* names that have been in the archive (history)
  task,      \* per process: the write it is in
  program,   \* the **Program:** header of each document offered
  written,   \* documents that are complete on disk, under some name
  saved,     \* documents that have been at a path (history)
  pruned     \* pairs of a name and the document deleted under it (history)

vars == <<path, archive, given, task, program, written, saved, pruned>>

Free == [pc |-> "free", slot |-> None, doc |-> None, target |-> None, doomed |-> {}]

Init ==
  /\ path = [s \in Slots |-> None]
  /\ archive = [n \in {} |-> None]
  /\ given = {}
  /\ task = [p \in Processes |-> Free]
  /\ program = <<>>
  /\ written = {}
  /\ saved = {}
  /\ pruned = {}

-----------------------------------------------------------------------------
\* classify_foreign answers True: both name a program, the names differ, and
\* the incumbent is dated inside the window (recent).
Foreign(previous, incoming, recent) ==
  /\ previous # None
  /\ recent
  /\ program[previous] # None /\ incoming # None
  /\ program[previous] # incoming

\* The incumbent is read and classified.  Under block mode without force a
\* foreign one refuses the write, and nothing is touched.
Read(p, s, incoming, recent, block) ==
  /\ task[p] = Free
  /\ s \in Uses[p]
  /\ Len(program) < MaxDocs
  /\ program' = Append(program, incoming)
  /\ IF block /\ Foreign(path[s], incoming, recent)
     THEN UNCHANGED task
     ELSE task' = [task EXCEPT ![p] =
            [Free EXCEPT !.pc = IF path[s] = None THEN "temp" ELSE "name",
                         !.slot = s, !.doc = Len(program')]]
  /\ UNCHANGED <<path, archive, given, written, saved, pruned>>

\* The write raises, or returns: the process is free.
Raises(p) == task' = [task EXCEPT ![p] = Free]

\* Mutant: the name is the stamp's, whether there is such a name or not.
ChooseNameBlind(p) ==
  /\ task[p].pc = "name"
  /\ \E stamp \in Stamps :
       task' = [task EXCEPT ![p].pc = "archive",
                  ![p].target = [stamp |-> stamp, n |-> 0, label |-> Label[task[p].slot]]]
  /\ UNCHANGED <<path, archive, given, program, written, saved, pruned>>

\* _archive_target reads the clock, which may stand still or be set back
\* between two writes, and takes the first name that is not in the archive.
\* Nothing reserves the name.
ChooseName(p) ==
  /\ task[p].pc = "name"
  /\ \E stamp \in Stamps, n \in 0 .. MaxDocs :
       LET name(k) == [stamp |-> stamp, n |-> k, label |-> Label[task[p].slot]] IN
       /\ name(n) \notin DOMAIN archive
       /\ \A k \in 0 .. MaxDocs : k < n => name(k) \in DOMAIN archive
       /\ task' = [task EXCEPT ![p].pc = "archive", ![p].target = name(n)]
  /\ UNCHANGED <<path, archive, given, program, written, saved, pruned>>

\* archive_incumbent renames whatever is at the path by now to that name, over
\* whatever has it by now; when nothing is at the path, the rename raises.
Archive(p) ==
  /\ task[p].pc = "archive"
  /\ LET s == task[p].slot
         t == task[p].target
     IN IF path[s] # None
        THEN /\ archive' = [n \in DOMAIN archive \cup {t} |->
                              IF n = t THEN path[s] ELSE archive[n]]
             /\ given' = given \cup {t}
             /\ path' = [path EXCEPT ![s] = None]
             /\ task' = [task EXCEPT ![p].pc = "list"]
        ELSE Raises(p) /\ UNCHANGED <<path, archive, given>>
  /\ UNCHANGED <<program, written, saved, pruned>>

\* Mutant: the sort that decides what to keep is not reversed.
ListNewest(p) ==
  /\ task[p].pc = "list"
  /\ LET doomed == {n \in DOMAIN archive : Cardinality(DOMAIN archive \ After[n]) > Keep}
     IN task' = [task EXCEPT ![p].doomed = doomed,
                             ![p].pc = IF doomed = {} THEN "temp" ELSE "prune"]
  /\ UNCHANGED <<path, archive, given, program, written, saved, pruned>>

\* prune_archive lists the archive, sorted: all but the last Keep names are
\* doomed.
List(p) ==
  /\ task[p].pc = "list"
  /\ LET doomed == {n \in DOMAIN archive : Cardinality(DOMAIN archive \cap After[n]) >= Keep}
     IN task' = [task EXCEPT ![p].doomed = doomed,
                             ![p].pc = IF doomed = {} THEN "temp" ELSE "prune"]
  /\ UNCHANGED <<path, archive, given, program, written, saved, pruned>>

\* The archive without a name.
Without(n) == [m \in DOMAIN archive \ {n} |-> archive[m]]

\* prune_archive unlinks the doomed names, the last first.  One that is not
\* there any more makes it raise.
Unlink(p) ==
  /\ task[p].pc = "prune"
  /\ \E n \in task[p].doomed :
       /\ task[p].doomed \cap After[n] = {}
       /\ archive' = Without(n)
       /\ IF n \in DOMAIN archive
          THEN /\ pruned' = pruned \cup {<<n, archive[n]>>}
               /\ task' = [task EXCEPT ![p].doomed = task[p].doomed \ {n},
                             ![p].pc = IF task[p].doomed = {n} THEN "temp" ELSE "prune"]
          ELSE Raises(p) /\ UNCHANGED pruned
  /\ UNCHANGED <<path, given, program, written, saved>>

\* _write_temp: the document is flushed to a name of its own.
WriteTemp(p) ==
  /\ task[p].pc = "temp"
  /\ written' = written \cup {task[p].doc}
  /\ task' = [task EXCEPT ![p].pc = "promote"]
  /\ UNCHANGED <<path, archive, given, program, saved, pruned>>

\* temp.replace(path): whatever is at the path by now is gone.
Promote(p) ==
  /\ task[p].pc = "promote"
  /\ path' = [path EXCEPT ![task[p].slot] = task[p].doc]
  /\ saved' = saved \cup {task[p].doc}
  /\ Raises(p)
  /\ UNCHANGED <<archive, given, program, written, pruned>>

\* Mutant: the restore does not ask whether there was an incumbent.
PromoteFailsBlind(p) ==
  /\ Faulty
  /\ task[p].pc = "promote"
  /\ written' = written \ {task[p].doc}
  /\ IF path[task[p].slot] = None
     THEN task' = [task EXCEPT ![p].pc = "restore"]
     ELSE Raises(p)
  /\ UNCHANGED <<path, archive, given, program, saved, pruned>>

\* The rename raises: the temp file is deleted, and if the incumbent is still
\* in the archive and nothing at the path it is to be moved back.
PromoteFails(p) ==
  /\ Faulty
  /\ task[p].pc = "promote"
  /\ written' = written \ {task[p].doc}
  /\ IF task[p].target \in DOMAIN archive /\ path[task[p].slot] = None
     THEN task' = [task EXCEPT ![p].pc = "restore"]
     ELSE Raises(p)
  /\ UNCHANGED <<path, archive, given, program, saved, pruned>>

\* Mutant: the restore cleans the archive up and forgets the path.
RestoreLosing(p) ==
  /\ task[p].pc = "restore"
  /\ archive' = Without(task[p].target)
  /\ Raises(p)
  /\ UNCHANGED <<path, given, program, written, saved, pruned>>

\* Mutant: the incumbent is put back as a copy.
RestoreCopy(p) ==
  /\ task[p].pc = "restore"
  /\ task[p].target \in DOMAIN archive
  /\ path' = [path EXCEPT ![task[p].slot] = archive[task[p].target]]
  /\ Raises(p)
  /\ UNCHANGED <<archive, given, program, written, saved, pruned>>

\* _restore_after_failed_promote moves back what has that name (or finds that
\* it has been pruned meanwhile, and raises).
Restore(p) ==
  /\ task[p].pc = "restore"
  /\ archive' = Without(task[p].target)
  /\ path' = IF task[p].target \in DOMAIN archive
             THEN [path EXCEPT ![task[p].slot] = archive[task[p].target]]
             ELSE path
  /\ Raises(p)
  /\ UNCHANGED <<given, program, written, saved, pruned>>

\* Any other operation raises, or the process is killed; files stay as they
\* are, a temp file nobody will rename included.
Dies(p) ==
  /\ Faulty
  /\ task[p] # Free
  /\ Raises(p)
  /\ UNCHANGED <<path, archive, given, program, written, saved, pruned>>

Next ==
  \/ \E p \in Processes, s \in Slots, incoming \in Programs \cup {None},
       recent, block \in BOOLEAN : Read(p, s, incoming, recent, block)
  \/ \E p \in Processes :
       \/ ChooseName(p) \/ Archive(p) \/ List(p) \/ Unlink(p) \/ WriteTemp(p)
       \/ Promote(p) \/ PromoteFails(p) \/ Restore(p)
       \/ Dies(p)

Spec == Init /\ [][Next]_vars

-----------------------------------------------------------------------------
(* Properties.                                                             *)

Paths == {path[s] : s \in Slots} \ {None}
Archived == {archive[n] : n \in DOMAIN archive}
Pruned == {x[2] : x \in pruned}

\* The states a write goes through.
Writes ==
  [pc : {"free", "name", "archive", "list", "prune", "temp", "promote", "restore"},
   slot : Slots \cup {None}, doc : Docs \cup {None},
   target : Names \cup {None}, doomed : SUBSET Names]

\* Every variable has its type, and a task that is to move something into the
\* archive, or back, has a name for it.
TypeOK ==
  /\ path \in [Slots -> Docs \cup {None}]
  /\ DOMAIN archive \subseteq given /\ given \subseteq Names
  /\ archive \in [DOMAIN archive -> Docs]
  /\ pruned \subseteq Names \X Docs
  /\ task \in [Processes -> Writes]
  /\ \A p \in Processes : task[p].pc \in {"archive", "restore"} => task[p].target # None
  /\ program \in Seq(Programs \cup {None}) /\ Len(program) <= MaxDocs
  /\ written \subseteq Docs
  /\ saved \subseteq Docs

\* The handoff paths and the archive hold complete documents only, and no
\* document twice, wherever a write stops.
CompleteOnce ==
  /\ Paths \cup Archived \subseteq written
  /\ Paths \cap Archived = {}
  /\ \A s, t \in Slots : path[s] # None /\ path[s] = path[t] => s = t
  /\ \A n, m \in DOMAIN archive : archive[n] = archive[m] => n = m

\* "Pruned to the newest 20", where newest means the last names: whatever is
\* deleted, at least Keep names that sort after it have been in the archive,
\* although processes prune what they listed earlier.  That is not "replaced
\* most recently": names are chosen before the move, from a clock that may be
\* set back, and a counter sorts before none.
PrunesOldest ==
  \A x \in pruned : Cardinality(given \cap After[x[1]]) >= Keep

\* The decision record on the guard: the incumbent is archived on every write,
\* conflict or not, and a replaced handoff is always recoverable from the
\* archive (until it is pruned from there).
Recoverable ==
  saved \subseteq Paths \cup Archived \cup Pruned

\* The vault the guard implements as long as slots and labels are not shared:
\* whatever fails and whoever dies, a new handoff goes only where the old one
\* has been moved away, to a name nothing else has, and back only as a move.
Vault == INSTANCE HandoffVault WITH shelf <- path, kept <- archive

ImplementsVault == Vault!Spec
=============================================================================
