-------------------------- MODULE HandoffGuardProofs --------------------------
(***************************************************************************)
(* Proofs about HandoffGuard, for any number of processes and slots, with  *)
(* any operation failing and any process dying anywhere, and the clock     *)
(* reading anything.  Some facts hold however processes share slots; the   *)
(* others need a writer of its own for every slot, and for every label.    *)
(***************************************************************************)
EXTENDS HandoffGuard, FiniteSetTheorems, TLAPS

\* No label, so no slot, has two writers: what slots are for.
DisjointUse ==
  \A p, q \in Processes : p # q => \A s \in Uses[p], t \in Uses[q] : Label[s] # Label[t]

-----------------------------------------------------------------------------
(* The invariant.                                                          *)

\* A write that may still promote its document.
Active(p) == task[p].pc \notin {"free", "restore"}

\* What is true of a task, whoever else writes its slot.
TaskOK ==
  /\ \A p \in Processes :
       /\ task[p].pc # "free" => task[p].slot \in Uses[p] /\ task[p].doc \in 1 .. Len(program)
       /\ task[p].pc = "promote" => task[p].doc \in written
       /\ Active(p) => task[p].doc \notin saved
  /\ \A p, q \in Processes : Active(p) /\ Active(q) /\ task[p].doc = task[q].doc => p = q

\* Of the names on a list to be deleted, enough later ones have been given.
DoomedOK ==
  \A p \in Processes : \A n \in task[p].doomed : Cardinality(given \cap After[n]) >= Keep

\* Documents at paths and in the archive have been saved, saved ones are
\* complete, and all have been offered.
DocsOK ==
  /\ saved \subseteq 1 .. Len(program)
  /\ saved \subseteq written
  /\ Paths \cup Archived \subseteq saved

\* Inductive for any use of the slots.
IInv ==
  /\ TypeOK
  /\ IsFiniteSet(given)
  /\ TaskOK
  /\ DoomedOK
  /\ DocsOK
  /\ CompleteOnce
  /\ PrunesOldest

\* What is true of a task whose slot and label are its own: until the archive
\* step there is something at the path, and nothing under the name chosen for
\* it; from then on there is nothing at the path.
PathOK(p) ==
  /\ task[p].pc \in {"name", "archive"} => path[task[p].slot] # None
  /\ task[p].pc = "archive" =>
       /\ task[p].target \notin DOMAIN archive
       /\ task[p].target.label = Label[task[p].slot]
  /\ task[p].pc \in {"list", "prune", "temp", "promote", "restore"} =>
       path[task[p].slot] = None

\* Inductive, on top of IInv, when every label has one writer.
OwnInv ==
  /\ \A p \in Processes : PathOK(p)
  /\ Recoverable

LEMMA InitEstablishes == Init => IInv
<1> SUFFICES ASSUME Init PROVE IInv
  OBVIOUS
<1> USE GuardAssumption
<1>1. TypeOK
  BY DEF Init, TypeOK, Free, Docs, Writes
<1>2. TaskOK
  BY DEF Init, TaskOK, Free, Active
<1>5. DoomedOK
  BY DEF Init, DoomedOK, Free
<1>3. DocsOK /\ CompleteOnce /\ PrunesOldest
  BY DEF Init, DocsOK, CompleteOnce, PrunesOldest, Paths, Archived
<1>4. IsFiniteSet(given)
  BY FS_EmptySet DEF Init
<1> QED BY <1>1, <1>2, <1>3, <1>4, <1>5 DEF IInv

-----------------------------------------------------------------------------
(* Facts used by the steps.                                                *)

\* Enough later names in a set are enough in a larger one.
LEMMA MoreNames ==
  ASSUME NEW S, NEW T, NEW n, S \subseteq T, IsFiniteSet(T),
         Cardinality(S \cap After[n]) >= Keep
  PROVE  Cardinality(T \cap After[n]) >= Keep
<1>1. IsFiniteSet(T \cap After[n]) /\ S \cap After[n] \subseteq T \cap After[n]
  BY FS_Subset
<1>2. IsFiniteSet(S \cap After[n])
  BY <1>1, FS_Subset
<1>3. /\ Cardinality(S \cap After[n]) <= Cardinality(T \cap After[n])
      /\ Cardinality(S \cap After[n]) \in Nat /\ Cardinality(T \cap After[n]) \in Nat
  BY <1>1, <1>2, FS_Subset, FS_CardinalityType
<1> QED BY <1>3, GuardAssumption

\* Lists stay as they were, or get shorter, or are of names that have enough
\* later ones.
LEMMA DoomedKeeps ==
  ASSUME IInv, given \subseteq given', IsFiniteSet(given'),
         \A q \in Processes : \A n \in task'[q].doomed :
           n \in task[q].doomed \/ Cardinality(given \cap After[n]) >= Keep
  PROVE  DoomedOK'
<1> SUFFICES ASSUME NEW q \in Processes, NEW n \in task'[q].doomed
             PROVE  Cardinality(given' \cap After[n]) >= Keep
  BY DEF DoomedOK
<1>1. Cardinality(given \cap After[n]) >= Keep
  BY DEF IInv, DoomedOK
<1> QED BY <1>1, MoreNames

\* The slot of a write under way is a slot, its document a document.
LEMMA TaskSlot ==
  ASSUME TypeOK, TaskOK, NEW p \in Processes, task[p].pc # "free"
  PROVE  /\ task[p].slot \in Slots
         /\ task[p].doc \in Docs
BY GuardAssumption DEF TypeOK, TaskOK, Docs

\* The documents offered so far are numbered.
LEMMA Offered ==
  ASSUME TypeOK
  PROVE  /\ program \in Seq(Programs \cup {None}) /\ Len(program) \in Nat
         /\ Len(program) <= MaxDocs
<1>1. program \in Seq(Programs \cup {None}) /\ Len(program) <= MaxDocs
  BY DEF TypeOK
<1> QED BY <1>1

\* What the archive is without a name.
LEMMA WithoutName ==
  ASSUME NEW n
  PROVE  /\ DOMAIN Without(n) = DOMAIN archive \ {n}
         /\ \A m \in DOMAIN archive \ {n} : Without(n)[m] = archive[m]
         /\ n \notin DOMAIN archive /\ TypeOK => Without(n) = archive
<1>1. n \notin DOMAIN archive /\ TypeOK => Without(n) = archive
  <2> SUFFICES ASSUME n \notin DOMAIN archive, TypeOK PROVE Without(n) = archive
    OBVIOUS
  <2>1. archive = [m \in DOMAIN archive |-> archive[m]] /\ DOMAIN archive \ {n} = DOMAIN archive
    BY DEF TypeOK
  <2> QED BY <2>1 DEF Without
<1> QED BY <1>1 DEF Without

-----------------------------------------------------------------------------
(* Each action keeps the invariant.                                        *)

LEMMA ReadKeeps ==
  ASSUME IInv, NEW p \in Processes, NEW s \in Slots, NEW incoming \in Programs \cup {None},
         NEW recent \in BOOLEAN, NEW block \in BOOLEAN, Read(p, s, incoming, recent, block)
  PROVE  IInv'
<1> DEFINE pc0 == IF path[s] = None THEN "temp" ELSE "name"
           new == [Free EXCEPT !.pc = pc0, !.slot = s, !.doc = Len(program')]
<1>1. /\ task[p] = Free /\ s \in Uses[p] /\ Len(program) < MaxDocs
      /\ program' = Append(program, incoming)
      /\ task' = task \/ task' = [task EXCEPT ![p] = new]
      /\ UNCHANGED <<path, archive, given, written, saved, pruned>>
  BY DEF Read
<1>2. /\ program' \in Seq(Programs \cup {None}) /\ Len(program') = Len(program) + 1
      /\ Len(program') \in Docs /\ Len(program) \in Nat
  BY <1>1, Offered, GuardAssumption DEF IInv, Docs
<1>3. new \in Writes
  BY <1>2 DEF Free, Writes
<1>4. \/ task' = task
      \/ task'[p] = new /\ \A q \in Processes : q # p => task'[q] = task[q]
  BY <1>1 DEF IInv, TypeOK
<1>5. /\ new.pc = pc0 /\ new.slot = s /\ new.doc = Len(program) + 1
      /\ new.doomed = {} /\ pc0 \in {"temp", "name"}
  BY <1>2 DEF Free
<1>6. TypeOK'
  <2>1. task' \in [Processes -> Writes]
    <3> HIDE DEF new
    <3> QED BY <1>1, <1>3 DEF IInv, TypeOK
  <2>2. \A q \in Processes : task'[q].pc \in {"archive", "restore"} => task'[q].target # None
    <3> HIDE DEF new
    <3> QED BY <1>4, <1>5 DEF IInv, TypeOK
  <2>3. Len(program') <= MaxDocs
    BY <1>1, <1>2, GuardAssumption
  <2> QED BY <1>1, <1>2, <2>1, <2>2, <2>3 DEF IInv, TypeOK
<1>7. TaskOK'
  <2>1. Len(program) + 1 \notin saved
    BY <1>2 DEF IInv, DocsOK
  <2>2. \A q \in Processes : Active(q) => task[q].doc # Len(program) + 1
    BY <1>2 DEF IInv, TaskOK, Active
  <2> HIDE DEF new
  <2> QED BY <1>1, <1>2, <1>4, <1>5, <2>1, <2>2 DEF IInv, TaskOK, Active
<1>8. DocsOK'
  BY <1>1, <1>2 DEF IInv, DocsOK, Paths, Archived
<1>9. CompleteOnce' /\ PrunesOldest' /\ IsFiniteSet(given)'
  BY <1>1 DEF IInv, CompleteOnce, PrunesOldest, Paths, Archived
<1>10. DoomedOK'
  <2> HIDE DEF new
  <2>1. \A q \in Processes : task'[q].doomed \subseteq task[q].doomed
    BY <1>4, <1>5
  <2> QED BY <1>1, <2>1, DoomedKeeps DEF IInv
<1> QED BY <1>6, <1>7, <1>8, <1>9, <1>10 DEF IInv

\* With the files as they were, and a temp file more at most.
LEMMA FilesKept ==
  ASSUME IInv, UNCHANGED <<path, archive, given, program, saved, pruned>>, written \subseteq written'
  PROVE  DocsOK' /\ CompleteOnce' /\ PrunesOldest' /\ IsFiniteSet(given)'
<1>1. Paths' = Paths /\ Archived' = Archived
  BY DEF Paths, Archived
<1>2. DocsOK'
  BY <1>1 DEF IInv, DocsOK
<1>3. CompleteOnce'
  BY <1>1 DEF IInv, CompleteOnce
<1>4. PrunesOldest' /\ IsFiniteSet(given)'
  BY DEF IInv, PrunesOldest
<1> QED BY <1>2, <1>3, <1>4

\* A process that gives up, or dies: the files are as they were.
LEMMA RaisesKeeps ==
  ASSUME IInv, NEW p \in Processes, Raises(p),
         UNCHANGED <<path, archive, given, program, written, saved, pruned>>
  PROVE  IInv'
<1>1. task' \in [Processes -> Writes]
  BY DEF IInv, TypeOK, Raises, Free, Writes
<1>2. task'[p] = Free /\ \A q \in Processes : q # p => task'[q] = task[q]
  BY DEF IInv, TypeOK, Raises
<1>3. TypeOK'
  <2>1. \A q \in Processes : task'[q].pc \in {"archive", "restore"} => task'[q].target # None
    BY <1>2 DEF IInv, TypeOK, Free
  <2> QED BY <1>1, <2>1 DEF IInv, TypeOK
<1>4. TaskOK'
  BY <1>2 DEF IInv, TaskOK, Active, Free
<1>5. DocsOK' /\ CompleteOnce' /\ PrunesOldest' /\ IsFiniteSet(given)'
  BY FilesKept
<1>6. DoomedOK'
  <2>1. \A q \in Processes : task'[q].doomed \subseteq task[q].doomed
    BY <1>2 DEF Free
  <2> QED BY <2>1, DoomedKeeps DEF IInv
<1> QED BY <1>3, <1>4, <1>5, <1>6 DEF IInv

\* A name is chosen; nothing is touched.
LEMMA ChooseNameKeeps ==
  ASSUME IInv, NEW p \in Processes, ChooseName(p)
  PROVE  IInv'
<1>1. PICK stamp \in Stamps, n \in 0 .. MaxDocs :
        task' = [task EXCEPT ![p].pc = "archive",
                   ![p].target = [stamp |-> stamp, n |-> n, label |-> Label[task[p].slot]]]
  BY DEF ChooseName
<1> DEFINE t == [stamp |-> stamp, n |-> n, label |-> Label[task[p].slot]]
           w == [task[p] EXCEPT !.pc = "archive", !.target = t]
<1>2. task[p].pc = "name" /\ UNCHANGED <<path, archive, given, program, written, saved, pruned>>
  BY DEF ChooseName
<1>3. t \in Names
  <2>1. task[p].slot \in Slots
    BY <1>2, TaskSlot DEF IInv
  <2> QED BY <2>1 DEF Names
<1>4. /\ task \in [Processes -> Writes] /\ task' = [task EXCEPT ![p] = w] /\ task[p] \in Writes
  BY <1>1 DEF IInv, TypeOK
<1>5. /\ w \in Writes /\ w.pc = "archive" /\ w.slot = task[p].slot /\ w.doc = task[p].doc
      /\ w.doomed = task[p].doomed /\ w.target = t /\ t # None
  <2> HIDE DEF t
  <2> QED BY <1>3, <1>4, NameAssumption DEF Writes
<1> HIDE DEF w
<1>6. /\ task'[p] = w /\ \A q \in Processes : q # p => task'[q] = task[q]
      /\ task' \in [Processes -> Writes]
  BY <1>4, <1>5
<1>7. TypeOK'
  <2>1. \A q \in Processes : task'[q].pc \in {"archive", "restore"} => task'[q].target # None
    BY <1>5, <1>6 DEF IInv, TypeOK
  <2> QED BY <1>2, <1>6, <2>1 DEF IInv, TypeOK
<1>8. TaskOK'
  BY <1>2, <1>5, <1>6 DEF IInv, TaskOK, Active
<1>9. DocsOK' /\ CompleteOnce' /\ PrunesOldest' /\ IsFiniteSet(given)'
  BY <1>2, FilesKept
<1>10. DoomedOK'
  <2>1. \A q \in Processes : task'[q].doomed \subseteq task[q].doomed
    BY <1>5, <1>6
  <2> QED BY <1>2, <2>1, DoomedKeeps DEF IInv
<1> QED BY <1>7, <1>8, <1>9, <1>10 DEF IInv

\* What is at the path, if anything is, moves into the archive under the name
\* chosen for it, over what may be there.
LEMMA ArchiveKeeps ==
  ASSUME IInv, NEW p \in Processes, Archive(p)
  PROVE  IInv'
<1> DEFINE s == task[p].slot
           t == task[p].target
<1>0. CASE path[s] = None
  <2>1. Raises(p) /\ UNCHANGED <<path, archive, given, program, written, saved, pruned>>
    BY <1>0 DEF Archive
  <2> QED BY <2>1, RaisesKeeps
<1> SUFFICES ASSUME path[s] # None PROVE IInv'
  BY <1>0
<1>1. /\ s \in Slots /\ path[s] \in Docs
      /\ archive' = [n \in DOMAIN archive \cup {t} |-> IF n = t THEN path[s] ELSE archive[n]]
      /\ given' = given \cup {t}
      /\ path' = [path EXCEPT ![s] = None]
      /\ task' = [task EXCEPT ![p].pc = "list"]
      /\ UNCHANGED <<program, written, saved, pruned>>
      /\ task[p].pc = "archive"
  BY TaskSlot DEF Archive, IInv, TypeOK
<1>2. t \in Names /\ task[p] \in Writes /\ task \in [Processes -> Writes]
  BY <1>1 DEF IInv, TypeOK, Writes
<1>3. /\ task'[p].pc = "list" /\ task'[p].slot = s /\ task'[p].doc = task[p].doc
      /\ task'[p].doomed = task[p].doomed
      /\ \A q \in Processes : q # p => task'[q] = task[q]
      /\ task' \in [Processes -> Writes]
  <2> DEFINE w == [task[p] EXCEPT !.pc = "list"]
  <2>1. task' = [task EXCEPT ![p] = w]
    BY <1>1, <1>2
  <2>2. /\ w.pc = "list" /\ w.slot = s /\ w.doc = task[p].doc
        /\ w.doomed = task[p].doomed /\ w \in Writes
    BY <1>2 DEF Writes
  <2> HIDE DEF w
  <2> QED BY <1>2, <2>1, <2>2
<1>4. IsFiniteSet(given') /\ given \subseteq given'
  BY <1>1, FS_AddElement DEF IInv
<1>5. /\ DOMAIN archive' = DOMAIN archive \cup {t} /\ archive'[t] = path[s]
      /\ \A n \in DOMAIN archive : n # t => archive'[n] = archive[n]
  BY <1>1
<1>6. TypeOK'
  <2>1. path' \in [Slots -> Docs \cup {None}]
    BY <1>1 DEF IInv, TypeOK
  <2>2. DOMAIN archive' \subseteq given' /\ given' \subseteq Names
    BY <1>1, <1>2, <1>5 DEF IInv, TypeOK
  <2>3. archive' \in [DOMAIN archive' -> Docs]
    <3>1. \A n \in DOMAIN archive \cup {t} : (IF n = t THEN path[s] ELSE archive[n]) \in Docs
      BY <1>1 DEF IInv, TypeOK
    <3> QED BY <1>1, <3>1
  <2>4. \A q \in Processes : task'[q].pc \in {"archive", "restore"} => task'[q].target # None
    BY <1>3 DEF IInv, TypeOK
  <2> QED BY <1>1, <1>3, <2>1, <2>2, <2>3, <2>4 DEF IInv, TypeOK
<1>7. TaskOK'
  BY <1>1, <1>3 DEF IInv, TaskOK, Active
<1>14. DoomedOK'
  <2>1. \A q \in Processes : task'[q].doomed \subseteq task[q].doomed
    BY <1>3
  <2> QED BY <1>4, <2>1, DoomedKeeps
<1>8. Archived' \subseteq Archived \cup {path[s]}
  BY <1>5 DEF Archived
<1>9. \A u \in Slots : path'[u] = IF u = s THEN None ELSE path[u]
  BY <1>1 DEF IInv, TypeOK
<1>10. Paths' = Paths \ {path[s]} /\ path[s] \in Paths
  BY <1>1, <1>9 DEF Paths, IInv, CompleteOnce
<1>11. DocsOK'
  BY <1>1, <1>8, <1>10 DEF IInv, DocsOK
<1>12. CompleteOnce'
  <2>1. Paths' \cup Archived' \subseteq written'
    BY <1>1, <1>8, <1>10 DEF IInv, CompleteOnce
  <2>2. Paths' \cap Archived' = {}
    BY <1>8, <1>10 DEF IInv, CompleteOnce
  <2>3. \A u, v \in Slots : path'[u] # None /\ path'[u] = path'[v] => u = v
    BY <1>9 DEF IInv, CompleteOnce
  <2>4. \A n \in DOMAIN archive : archive[n] # path[s]
    BY <1>10 DEF IInv, CompleteOnce, Archived
  <2>5. \A n, m \in DOMAIN archive' : archive'[n] = archive'[m] => n = m
    BY <1>5, <2>4 DEF IInv, CompleteOnce
  <2> QED BY <2>1, <2>2, <2>3, <2>5 DEF CompleteOnce
<1>13. PrunesOldest'
  BY <1>1, <1>4, MoreNames DEF IInv, PrunesOldest
<1> QED BY <1>4, <1>6, <1>7, <1>11, <1>12, <1>13, <1>14 DEF IInv

\* Steps that change only the process's own task: not about to archive or to
\* promote, with a list of names that enough later ones have been given since.
LEMMA TaskKeeps ==
  ASSUME IInv, NEW p \in Processes, NEW w \in Writes, task' = [task EXCEPT ![p] = w],
         task[p].pc # "free", w.slot = task[p].slot, w.doc = task[p].doc,
         w.pc \in {"prune", "temp"}, task[p].pc \in {"list", "prune"},
         \A n \in w.doomed : Cardinality(given \cap After[n]) >= Keep,
         UNCHANGED <<path, given, program, written, saved>>
  PROVE  TaskOK' /\ DoomedOK' /\ task' \in [Processes -> Writes]
         /\ \A q \in Processes : task'[q].pc \in {"archive", "restore"} => task'[q].target # None
<1>1. task'[p] = w /\ \A q \in Processes : q # p => task'[q] = task[q]
  BY DEF IInv, TypeOK
<1>2. TaskOK'
  BY <1>1 DEF IInv, TaskOK, Active
<1>3. DoomedOK'
  BY <1>1, DoomedKeeps DEF IInv
<1> QED BY <1>1, <1>2, <1>3 DEF IInv, TypeOK

\* Listing dooms only names with enough later ones.
LEMMA ListKeeps ==
  ASSUME IInv, NEW p \in Processes, List(p)
  PROVE  IInv'
<1> DEFINE doomed == {n \in DOMAIN archive : Cardinality(DOMAIN archive \cap After[n]) >= Keep}
           w == [task[p] EXCEPT !.doomed = doomed,
                                !.pc = IF doomed = {} THEN "temp" ELSE "prune"]
<1>1. /\ task[p].pc = "list" /\ task' = [task EXCEPT ![p] = w]
      /\ UNCHANGED <<path, archive, given, program, written, saved, pruned>>
  BY DEF List, IInv, TypeOK
<1>2. doomed \subseteq Names /\ task[p] \in Writes
  BY DEF IInv, TypeOK
<1>3. /\ w \in Writes /\ w.slot = task[p].slot /\ w.doc = task[p].doc
      /\ w.doomed = doomed /\ w.pc \in {"prune", "temp"}
  <2> HIDE DEF doomed
  <2> QED BY <1>2 DEF Writes
<1>4. \A n \in w.doomed : Cardinality(given \cap After[n]) >= Keep
  <2>1. DOMAIN archive \subseteq given /\ IsFiniteSet(given)
    BY DEF IInv, TypeOK
  <2> QED BY <1>3, <2>1, MoreNames
<1> HIDE DEF w
<1>5. TaskOK' /\ DoomedOK' /\ task' \in [Processes -> Writes]
      /\ \A q \in Processes : task'[q].pc \in {"archive", "restore"} => task'[q].target # None
  BY <1>1, <1>3, <1>4, TaskKeeps
<1>6. TypeOK'
  BY <1>1, <1>5 DEF IInv, TypeOK
<1>7. DocsOK' /\ CompleteOnce' /\ PrunesOldest' /\ IsFiniteSet(given)'
  BY <1>1, FilesKept DEF IInv
<1> QED BY <1>5, <1>6, <1>7 DEF IInv

\* Unlinking deletes a doomed name, or finds it gone.
LEMMA UnlinkKeeps ==
  ASSUME IInv, NEW p \in Processes, Unlink(p)
  PROVE  IInv'
<1>1. PICK n \in task[p].doomed :
        /\ archive' = Without(n)
        /\ IF n \in DOMAIN archive
           THEN /\ pruned' = pruned \cup {<<n, archive[n]>>}
                /\ task' = [task EXCEPT ![p].doomed = task[p].doomed \ {n},
                              ![p].pc = IF task[p].doomed = {n} THEN "temp" ELSE "prune"]
           ELSE Raises(p) /\ UNCHANGED pruned
  BY DEF Unlink
<1>2. task[p].pc = "prune" /\ UNCHANGED <<path, given, program, written, saved>>
  BY DEF Unlink
<1>3. CASE n \notin DOMAIN archive
  <2>1. Raises(p) /\ UNCHANGED <<path, archive, given, program, written, saved, pruned>>
    BY <1>1, <1>2, <1>3, WithoutName DEF IInv
  <2> QED BY <2>1, RaisesKeeps
<1>4. CASE n \in DOMAIN archive
  <2> DEFINE w == [task[p] EXCEPT !.doomed = task[p].doomed \ {n},
                                  !.pc = IF task[p].doomed = {n} THEN "temp" ELSE "prune"]
  <2>1. task' = [task EXCEPT ![p] = w] /\ pruned' = pruned \cup {<<n, archive[n]>>}
    BY <1>1, <1>4 DEF IInv, TypeOK
  <2>2. task[p] \in Writes /\ n \in Names /\ archive[n] \in Docs
    BY <1>4 DEF IInv, TypeOK
  <2>3. /\ w \in Writes /\ w.slot = task[p].slot /\ w.doc = task[p].doc
        /\ w.doomed = task[p].doomed \ {n} /\ w.pc \in {"prune", "temp"}
    BY <2>2 DEF Writes
  <2>4. /\ Cardinality(given \cap After[n]) >= Keep
        /\ \A m \in w.doomed : Cardinality(given \cap After[m]) >= Keep
    BY <1>1, <2>3 DEF IInv, DoomedOK
  <2> HIDE DEF w
  <2>5. TaskOK' /\ DoomedOK' /\ task' \in [Processes -> Writes]
        /\ \A q \in Processes : task'[q].pc \in {"archive", "restore"} => task'[q].target # None
    BY <1>2, <2>1, <2>3, <2>4, TaskKeeps
  <2>6. /\ DOMAIN archive' = DOMAIN archive \ {n}
        /\ \A m \in DOMAIN archive' : archive'[m] = archive[m]
        /\ archive' \in [DOMAIN archive' -> Docs]
    <3>1. archive' = [m \in DOMAIN archive \ {n} |-> archive[m]]
      BY <1>1 DEF Without
    <3>2. \A m \in DOMAIN archive \ {n} : archive[m] \in Docs
      BY DEF IInv, TypeOK
    <3> QED BY <3>1, <3>2
  <2>7. TypeOK'
    <3>1. DOMAIN archive' \subseteq given' /\ given' \subseteq Names
      BY <1>2, <2>6 DEF IInv, TypeOK
    <3>2. pruned' \subseteq Names \X Docs
      BY <2>1, <2>2 DEF IInv, TypeOK
    <3> QED BY <1>2, <2>5, <2>6, <3>1, <3>2 DEF IInv, TypeOK
  <2>8. Paths' = Paths /\ Archived' \subseteq Archived
    BY <1>2, <2>6 DEF Paths, Archived
  <2>9. DocsOK'
    BY <1>2, <2>8 DEF IInv, DocsOK
  <2>10. CompleteOnce'
    <3>1. \A k, m \in DOMAIN archive' : archive'[k] = archive'[m] => k = m
      BY <2>6 DEF IInv, CompleteOnce
    <3> QED BY <1>2, <2>8, <3>1 DEF IInv, CompleteOnce
  <2>11. PrunesOldest'
    <3>1. <<n, archive[n]>>[1] = n
      OBVIOUS
    <3> HIDE DEF w
    <3>2. \A x \in pruned' : x \in pruned \/ x[1] = n
      BY <2>1, <3>1
    <3>3. \A x \in pruned' : Cardinality(given \cap After[x[1]]) >= Keep
      BY <2>4, <3>2 DEF IInv, PrunesOldest
    <3> QED BY <1>2, <3>3 DEF PrunesOldest
  <2> QED BY <1>2, <2>5, <2>7, <2>9, <2>10, <2>11 DEF IInv
<1> QED BY <1>3, <1>4

\* The temp file is complete.
LEMMA WriteTempKeeps ==
  ASSUME IInv, NEW p \in Processes, WriteTemp(p)
  PROVE  IInv'
<1>1. /\ task[p].pc = "temp" /\ task' = [task EXCEPT ![p].pc = "promote"]
      /\ written' = written \cup {task[p].doc}
      /\ UNCHANGED <<path, archive, given, program, saved, pruned>>
  BY DEF WriteTemp
<1>2. /\ task'[p].pc = "promote" /\ task'[p].slot = task[p].slot
      /\ task'[p].doc = task[p].doc /\ task'[p].doomed = task[p].doomed
      /\ \A q \in Processes : q # p => task'[q] = task[q]
      /\ task' \in [Processes -> Writes]
  <2> DEFINE w == [task[p] EXCEPT !.pc = "promote"]
  <2>1. task \in [Processes -> Writes] /\ task' = [task EXCEPT ![p] = w]
    BY <1>1 DEF IInv, TypeOK
  <2>2. /\ w \in Writes /\ w.pc = "promote" /\ w.slot = task[p].slot
        /\ w.doc = task[p].doc /\ w.doomed = task[p].doomed
    BY <2>1 DEF Writes
  <2> HIDE DEF w
  <2> QED BY <2>1, <2>2
<1>3. TypeOK'
  <2>1. \A q \in Processes : task'[q].pc \in {"archive", "restore"} => task'[q].target # None
    BY <1>2 DEF IInv, TypeOK
  <2>2. task[p].doc \in Docs
    BY <1>1, TaskSlot DEF IInv
  <2> QED BY <1>1, <1>2, <2>1, <2>2 DEF IInv, TypeOK
<1>4. TaskOK'
  BY <1>1, <1>2 DEF IInv, TaskOK, Active
<1>5. DocsOK' /\ CompleteOnce' /\ PrunesOldest' /\ IsFiniteSet(given)'
  BY <1>1, FilesKept
<1>6. DoomedOK'
  <2>1. \A q \in Processes : task'[q].doomed \subseteq task[q].doomed
    BY <1>2
  <2> QED BY <1>1, <2>1, DoomedKeeps DEF IInv
<1> QED BY <1>3, <1>4, <1>5, <1>6 DEF IInv

\* The new document takes the path of its slot, whatever is there.
LEMMA PromoteKeeps ==
  ASSUME IInv, NEW p \in Processes, Promote(p)
  PROVE  IInv'
<1> DEFINE s == task[p].slot
           d == task[p].doc
<1>1. /\ task[p].pc = "promote" /\ s \in Slots /\ d \in Docs
      /\ d \in written /\ d \notin saved /\ d \in 1 .. Len(program)
      /\ path' = [path EXCEPT ![s] = d] /\ saved' = saved \cup {d} /\ Raises(p)
      /\ UNCHANGED <<archive, given, program, written, pruned>>
  BY TaskSlot DEF Promote, IInv, TaskOK, Active
<1>2. /\ task'[p] = Free /\ \A q \in Processes : q # p => task'[q] = task[q]
      /\ task' \in [Processes -> Writes]
  BY <1>1 DEF IInv, TypeOK, Raises, Free, Writes
<1>3. \A t \in Slots : path'[t] = IF t = s THEN d ELSE path[t]
  BY <1>1 DEF IInv, TypeOK
<1>4. d # None
  BY <1>1, GuardAssumption DEF Docs
<1>5. TypeOK'
  <2>1. \A q \in Processes : task'[q].pc \in {"archive", "restore"} => task'[q].target # None
    BY <1>2 DEF IInv, TypeOK, Free
  <2>2. path' \in [Slots -> Docs \cup {None}] /\ saved' \subseteq Docs
    BY <1>1 DEF IInv, TypeOK
  <2> QED BY <1>1, <1>2, <2>1, <2>2 DEF IInv, TypeOK
<1>6. TaskOK'
  <2>1. \A q \in Processes : q # p /\ Active(q) => task[q].doc # d
    BY <1>1 DEF IInv, TaskOK, Active
  <2> QED BY <1>1, <1>2, <2>1 DEF IInv, TaskOK, Active, Free
<1>7. Paths' \subseteq Paths \cup {d} /\ Archived' = Archived
  BY <1>1, <1>3, <1>4 DEF Paths, Archived
<1>8. d \notin Paths /\ d \notin Archived
  BY <1>1 DEF IInv, DocsOK
<1>9. DocsOK'
  BY <1>1, <1>7 DEF IInv, DocsOK
<1>10. CompleteOnce'
  <2>1. Paths' \cup Archived' \subseteq written' /\ Paths' \cap Archived' = {}
    BY <1>1, <1>7, <1>8 DEF IInv, CompleteOnce
  <2>2. \A t, u \in Slots : path'[t] # None /\ path'[t] = path'[u] => t = u
    BY <1>3, <1>4, <1>8 DEF IInv, CompleteOnce, Paths
  <2> QED BY <1>1, <2>1, <2>2 DEF IInv, CompleteOnce
<1>11. PrunesOldest'
  BY <1>1 DEF IInv, PrunesOldest
<1>12. DoomedOK'
  <2>1. \A q \in Processes : task'[q].doomed \subseteq task[q].doomed
    BY <1>2 DEF Free
  <2> QED BY <1>1, <2>1, DoomedKeeps DEF IInv
<1> QED BY <1>1, <1>5, <1>6, <1>9, <1>10, <1>11, <1>12 DEF IInv

\* A failed promote deletes the temp file, which was never at a path.
LEMMA PromoteFailsKeeps ==
  ASSUME IInv, NEW p \in Processes, PromoteFails(p)
  PROVE  IInv'
<1> DEFINE d == task[p].doc
           w == [task[p] EXCEPT !.pc = "restore"]
<1>1. /\ task[p].pc = "promote" /\ d \notin saved /\ written' = written \ {d}
      /\ UNCHANGED <<path, archive, given, program, saved, pruned>>
      /\ \/ task' = [task EXCEPT ![p] = w] /\ task[p].target \in DOMAIN archive
         \/ task' = [task EXCEPT ![p] = Free]
  BY DEF PromoteFails, Raises, IInv, TaskOK, Active, TypeOK
<1>2. /\ task[p] \in Writes /\ Free \in Writes
      /\ task[p].target \in DOMAIN archive => task[p].target # None
  <2>1. task[p] \in Writes /\ DOMAIN archive \subseteq Names
    BY DEF IInv, TypeOK
  <2>2. Free \in Writes
    BY DEF Free, Writes
  <2> QED BY <2>1, <2>2, NameAssumption
<1>3. /\ w \in Writes /\ w.pc = "restore" /\ w.slot = task[p].slot /\ w.doc = d
      /\ w.doomed = task[p].doomed /\ w.target = task[p].target
  BY <1>2 DEF Writes
<1> HIDE DEF w
<1>4. /\ \A q \in Processes : q # p => task'[q] = task[q]
      /\ task' \in [Processes -> Writes]
      /\ \/ task'[p] = w /\ w.target # None
         \/ task'[p] = Free
  BY <1>1, <1>2, <1>3 DEF IInv, TypeOK
<1>5. TypeOK'
  <2>1. \A q \in Processes : task'[q].pc \in {"archive", "restore"} => task'[q].target # None
    BY <1>4 DEF IInv, TypeOK, Free
  <2> QED BY <1>1, <1>4, <2>1 DEF IInv, TypeOK
<1>6. TaskOK'
  <2>1. \A q \in Processes : q # p /\ task[q].pc = "promote" => task[q].doc # d
    BY <1>1 DEF IInv, TaskOK, Active
  <2>2. task[p].slot \in Uses[p] /\ d \in 1 .. Len(program)
    BY <1>1 DEF IInv, TaskOK
  <2> QED BY <1>1, <1>3, <1>4, <2>1, <2>2 DEF IInv, TaskOK, Active, Free
<1>7. Paths' = Paths /\ Archived' = Archived
  BY <1>1 DEF Paths, Archived
<1>8. DocsOK'
  BY <1>1, <1>7 DEF IInv, DocsOK
<1>9. CompleteOnce'
  BY <1>1, <1>7 DEF IInv, DocsOK, CompleteOnce
<1>10. DoomedOK'
  <2>1. \A q \in Processes : task'[q].doomed \subseteq task[q].doomed
    BY <1>3, <1>4 DEF Free
  <2> QED BY <1>1, <2>1, DoomedKeeps DEF IInv
<1>11. PrunesOldest' /\ IsFiniteSet(given)'
  BY <1>1 DEF IInv, PrunesOldest
<1> QED BY <1>5, <1>6, <1>8, <1>9, <1>10, <1>11 DEF IInv

\* The restore takes the incumbent from the archive to its path, if it is
\* still there.
LEMMA RestoreKeeps ==
  ASSUME IInv, NEW p \in Processes, Restore(p)
  PROVE  IInv'
<1> DEFINE s == task[p].slot
           n == task[p].target
           d == archive[n]
<1>1. /\ task[p].pc = "restore" /\ s \in Slots
      /\ archive' = Without(n) /\ Raises(p)
      /\ path' = IF n \in DOMAIN archive THEN [path EXCEPT ![s] = d] ELSE path
      /\ UNCHANGED <<given, program, written, saved, pruned>>
  BY TaskSlot DEF Restore, IInv, TaskOK
<1>2. CASE n \notin DOMAIN archive
  <2>1. UNCHANGED <<path, archive, given, program, written, saved, pruned>>
    BY <1>1, <1>2, WithoutName DEF IInv
  <2> QED BY <1>1, <2>1, RaisesKeeps
<1>3. CASE n \in DOMAIN archive
  <2>1. /\ task'[p] = Free /\ \A q \in Processes : q # p => task'[q] = task[q]
        /\ task' \in [Processes -> Writes]
    BY <1>1 DEF IInv, TypeOK, Raises, Free, Writes
  <2>2. d \in Docs /\ d # None /\ d \in Archived
    <3>1. d \in Docs
      BY <1>3 DEF IInv, TypeOK
    <3> QED BY <1>3, <3>1, GuardAssumption DEF Docs, Archived
  <2>3. \A t \in Slots : path'[t] = IF t = s THEN d ELSE path[t]
    BY <1>1, <1>3 DEF IInv, TypeOK
  <2>4. /\ DOMAIN archive' = DOMAIN archive \ {n}
        /\ \A m \in DOMAIN archive' : archive'[m] = archive[m]
        /\ archive' \in [DOMAIN archive' -> Docs]
    <3>1. archive' = [m \in DOMAIN archive \ {n} |-> archive[m]]
      BY <1>1 DEF Without
    <3>2. \A m \in DOMAIN archive \ {n} : archive[m] \in Docs
      BY DEF IInv, TypeOK
    <3> HIDE DEF n
    <3> QED BY <3>1, <3>2
  <2>5. TypeOK'
    <3>1. \A q \in Processes : task'[q].pc \in {"archive", "restore"} => task'[q].target # None
      BY <2>1 DEF IInv, TypeOK, Free
    <3>2. path' \in [Slots -> Docs \cup {None}]
      BY <1>1, <1>3, <2>2 DEF IInv, TypeOK
    <3>3. DOMAIN archive' \subseteq given' /\ given' \subseteq Names
      BY <1>1, <2>4 DEF IInv, TypeOK
    <3> QED BY <1>1, <2>1, <2>4, <3>1, <3>2, <3>3 DEF IInv, TypeOK
  <2>6. TaskOK'
    BY <1>1, <2>1 DEF IInv, TaskOK, Active, Free
  <2>7. Paths' \subseteq Paths \cup {d} /\ Archived' \subseteq Archived /\ d \notin Archived'
    <3>1. Paths' \subseteq Paths \cup {d}
      BY <1>1, <2>2, <2>3 DEF Paths
    <3>2. \A m \in DOMAIN archive : archive[m] = d => m = n
      BY <1>3 DEF IInv, CompleteOnce
    <3> HIDE DEF d, n
    <3> QED BY <2>4, <3>1, <3>2 DEF Archived
  <2> HIDE DEF d
  <2>8. DocsOK'
    <3>1. d \in saved
      BY <2>2 DEF IInv, DocsOK
    <3>2. Paths' \cup Archived' \subseteq saved
      BY <2>7, <3>1 DEF IInv, DocsOK
    <3>3. UNCHANGED <<saved, program, written>>
      BY <1>1
    <3> QED BY <3>2, <3>3 DEF IInv, DocsOK
  <2>9. CompleteOnce'
    <3>1. Paths' \cup Archived' \subseteq written' /\ Paths' \cap Archived' = {}
      BY <1>1, <2>2, <2>7 DEF IInv, CompleteOnce
    <3>2. d \notin Paths
      BY <2>2 DEF IInv, CompleteOnce
    <3>3. \A t, u \in Slots : path'[t] # None /\ path'[t] = path'[u] => t = u
      BY <2>2, <2>3, <3>2 DEF IInv, CompleteOnce, Paths
    <3>4. \A k, m \in DOMAIN archive' : archive'[k] = archive'[m] => k = m
      BY <2>4 DEF IInv, CompleteOnce
    <3> QED BY <3>1, <3>3, <3>4 DEF CompleteOnce
  <2>10. PrunesOldest'
    BY <1>1 DEF IInv, PrunesOldest
  <2>11. DoomedOK'
    <3>1. \A q \in Processes : task'[q].doomed \subseteq task[q].doomed
      BY <2>1 DEF Free
    <3> QED BY <1>1, <3>1, DoomedKeeps DEF IInv
  <2> QED BY <1>1, <2>5, <2>6, <2>8, <2>9, <2>10, <2>11 DEF IInv
<1> QED BY <1>2, <1>3

\* Every step keeps the invariant.
LEMMA NextKeepsIInv == IInv /\ [Next]_vars => IInv'
<1> SUFFICES ASSUME IInv, [Next]_vars PROVE IInv'
  OBVIOUS
<1>1. ASSUME NEW p \in Processes, NEW s \in Slots, NEW incoming \in Programs \cup {None},
             NEW recent \in BOOLEAN, NEW block \in BOOLEAN, Read(p, s, incoming, recent, block)
      PROVE  IInv'
  BY <1>1, ReadKeeps
<1>2. ASSUME NEW p \in Processes, ChooseName(p) \/ Archive(p) \/ Promote(p) \/ Restore(p)
      PROVE  IInv'
  BY <1>2, ChooseNameKeeps, ArchiveKeeps, PromoteKeeps, RestoreKeeps
<1>3. ASSUME NEW p \in Processes, List(p) \/ Unlink(p) \/ WriteTemp(p) \/ PromoteFails(p) PROVE IInv'
  BY <1>3, ListKeeps, UnlinkKeeps, WriteTempKeeps, PromoteFailsKeeps
<1>4. ASSUME NEW p \in Processes, Dies(p) PROVE IInv'
  BY <1>4, RaisesKeeps DEF Dies
<1>5. CASE UNCHANGED vars
  <2>1. TypeOK'
    BY <1>5 DEF vars, IInv, TypeOK
  <2>2. TaskOK' /\ DoomedOK'
    BY <1>5 DEF vars, IInv, TaskOK, DoomedOK, Active
  <2>3. DocsOK' /\ CompleteOnce' /\ PrunesOldest' /\ IsFiniteSet(given)'
    BY <1>5, FilesKept DEF vars
  <2> QED BY <2>1, <2>2, <2>3 DEF IInv
<1> QED BY <1>1, <1>2, <1>3, <1>4, <1>5 DEF Next

-----------------------------------------------------------------------------
(* Slots and labels of one's own.                                          *)

\* A step of p that touches p's paths and gives names of p's labels is not
\* seen by another task, so what it makes true of p is all there is to check.
LEMMA OthersKeepPaths ==
  ASSUME IInv, DisjointUse, NEW p \in Processes, \A q \in Processes : PathOK(q),
         \A q \in Processes : q # p => task'[q] = task[q],
         \A t \in Slots \ Uses[p] : path'[t] = path[t],
         \A n \in DOMAIN archive' :
           n \in DOMAIN archive \/ \E s \in Uses[p] : n.label = Label[s],
         PathOK(p)'
  PROVE  \A q \in Processes : PathOK(q)'
<1> SUFFICES ASSUME NEW q \in Processes, q # p, task[q].pc # "free"
             PROVE  PathOK(q)'
  BY DEF PathOK
<1>1. task[q].slot \in Slots /\ task[q].slot \in Uses[q]
  BY TaskSlot DEF IInv, TaskOK
<1>2. path'[task[q].slot] = path[task[q].slot] /\ task'[q] = task[q]
  BY <1>1 DEF DisjointUse
<1>3. task[q].pc = "archive" => task[q].target \notin DOMAIN archive'
  BY <1>1 DEF PathOK, DisjointUse
<1> QED BY <1>2, <1>3 DEF PathOK

\* The paths of other slots than that of p's write keep what they had.
LEMMA OnePathChanges ==
  ASSUME IInv, NEW p \in Processes, task[p].pc # "free",
         NEW x, path' = path \/ path' = [path EXCEPT ![task[p].slot] = x]
  PROVE  \A t \in Slots \ Uses[p] : path'[t] = path[t]
BY DEF IInv, TypeOK, TaskOK

\* Reading leads to a name only when there is something to archive.
LEMMA ReadKeepsOwn ==
  ASSUME DisjointUse, IInv, OwnInv,
         NEW p \in Processes, NEW s \in Slots, NEW incoming \in Programs \cup {None},
         NEW recent \in BOOLEAN, NEW block \in BOOLEAN, Read(p, s, incoming, recent, block)
  PROVE  OwnInv'
<1>0. task \in [Processes -> Writes] /\ \A q \in Processes : PathOK(q)
  BY DEF IInv, TypeOK, OwnInv
<1>1. UNCHANGED <<path, archive, saved, pruned>>
  BY DEF Read
<1>2. \A q \in Processes : q # p => task'[q] = task[q]
  BY <1>0 DEF Read
<1>3. \/ task' = task
      \/ /\ task'[p].pc = IF path[s] = None THEN "temp" ELSE "name"
         /\ task'[p].slot = s
  BY <1>0 DEF Read, Free
<1>4. PathOK(p)'
  BY <1>0, <1>1, <1>3 DEF PathOK
<1>5. \A q \in Processes : PathOK(q)'
  BY <1>0, <1>1, <1>2, <1>4, OthersKeepPaths
<1> QED BY <1>1, <1>5 DEF OwnInv, Recoverable, Paths, Archived, Pruned

\* The name chosen is free.
LEMMA ChooseNameKeepsOwn ==
  ASSUME DisjointUse, IInv, OwnInv, NEW p \in Processes, ChooseName(p)
  PROVE  OwnInv'
<1>0. task \in [Processes -> Writes] /\ \A q \in Processes : PathOK(q)
  BY DEF IInv, TypeOK, OwnInv
<1>1. task[p].pc = "name" /\ UNCHANGED <<path, archive, saved, pruned>>
  BY DEF ChooseName
<1>2. PICK stamp \in Stamps, n \in 0 .. MaxDocs :
        LET t == [stamp |-> stamp, n |-> n, label |-> Label[task[p].slot]] IN
        /\ t \notin DOMAIN archive
        /\ task' = [task EXCEPT ![p].pc = "archive", ![p].target = t]
  BY DEF ChooseName
<1> DEFINE t == [stamp |-> stamp, n |-> n, label |-> Label[task[p].slot]]
           w == [task[p] EXCEPT !.pc = "archive", !.target = t]
<1>3. t \notin DOMAIN archive /\ t.label = Label[task[p].slot] /\ task' = [task EXCEPT ![p] = w]
  BY <1>0, <1>2
<1>4. w.pc = "archive" /\ w.slot = task[p].slot /\ w.target = t
  <2>1. task[p] \in Writes
    BY <1>0
  <2> HIDE DEF t
  <2> QED BY <2>1 DEF Writes
<1> HIDE DEF t, w
<1>5. task'[p] = w /\ \A q \in Processes : q # p => task'[q] = task[q]
  BY <1>0, <1>3
<1>6. PathOK(p)'
  BY <1>0, <1>1, <1>3, <1>4, <1>5 DEF PathOK
<1>7. \A q \in Processes : PathOK(q)'
  BY <1>0, <1>1, <1>5, <1>6, OthersKeepPaths
<1> QED BY <1>1, <1>7 DEF OwnInv, Recoverable, Paths, Archived, Pruned

\* Steps that leave the paths alone, and keep or prune what is archived.
LEMMA QuietKeepsOwn ==
  ASSUME DisjointUse, IInv, OwnInv, NEW p \in Processes,
         List(p) \/ Unlink(p) \/ WriteTemp(p) \/ PromoteFails(p) \/ Dies(p)
  PROVE  OwnInv'
<1>0. task \in [Processes -> Writes] /\ task[p] \in Writes /\ \A q \in Processes : PathOK(q)
  BY DEF IInv, TypeOK, OwnInv
<1>1. UNCHANGED <<path, saved>>
  BY DEF List, Unlink, WriteTemp, PromoteFails, Dies
<1>2. DOMAIN archive' \subseteq DOMAIN archive
      /\ Archived \cup Pruned \subseteq Archived' \cup Pruned'
  <2>1. CASE Unlink(p)
    <3>1. PICK n \in task[p].doomed :
            /\ archive' = Without(n)
            /\ IF n \in DOMAIN archive
               THEN pruned' = pruned \cup {<<n, archive[n]>>}
               ELSE UNCHANGED pruned
      BY <2>1 DEF Unlink
    <3>2. CASE n \notin DOMAIN archive
      <4>1. UNCHANGED <<archive, pruned>>
        BY <3>1, <3>2, WithoutName DEF IInv
      <4> QED BY <4>1 DEF Archived, Pruned
    <3>3. CASE n \in DOMAIN archive
      <4>1. DOMAIN archive' = DOMAIN archive \ {n}
            /\ \A m \in DOMAIN archive' : archive'[m] = archive[m]
        BY <3>1, WithoutName
      <4>2. Archived \subseteq Archived' \cup {archive[n]}
        BY <4>1 DEF Archived
      <4>3. Pruned \cup {archive[n]} \subseteq Pruned'
        <5>1. <<n, archive[n]>>[2] = archive[n]
          OBVIOUS
        <5> QED BY <3>1, <3>3, <5>1 DEF Pruned
      <4> QED BY <4>1, <4>2, <4>3
    <3> QED BY <3>2, <3>3
  <2>2. CASE List(p) \/ WriteTemp(p) \/ PromoteFails(p) \/ Dies(p)
    <3>1. UNCHANGED <<archive, pruned>>
      BY <2>2 DEF List, WriteTemp, PromoteFails, Dies
    <3> QED BY <3>1 DEF Archived, Pruned
  <2> QED BY <2>1, <2>2
<1>3. \A q \in Processes : q # p => task'[q] = task[q]
  BY <1>0 DEF List, Unlink, WriteTemp, PromoteFails, Dies, Raises
<1>4. \/ task'[p] = Free
      \/ /\ task[p].pc \in {"list", "prune", "temp", "promote"}
         /\ task'[p].pc \in {"prune", "temp", "promote", "restore"}
         /\ task'[p].slot = task[p].slot
  <2>2. CASE List(p)
    BY <1>0, <2>2 DEF List, Writes
  <2>3. CASE Unlink(p)
    BY <1>0, <2>3 DEF Unlink, Raises, Writes
  <2>4. CASE WriteTemp(p)
    BY <1>0, <2>4 DEF WriteTemp, Writes
  <2>5. CASE PromoteFails(p)
    BY <1>0, <2>5 DEF PromoteFails, Raises, Writes
  <2>6. CASE Dies(p)
    BY <1>0, <2>6 DEF Dies, Raises
  <2> QED BY <2>2, <2>3, <2>4, <2>5, <2>6
<1>5. PathOK(p)'
  BY <1>0, <1>1, <1>4 DEF PathOK, Free
<1>6. \A q \in Processes : PathOK(q)'
  BY <1>0, <1>1, <1>2, <1>3, <1>5, OthersKeepPaths
<1>7. Paths' = Paths
  BY <1>1 DEF Paths
<1> QED BY <1>1, <1>2, <1>6, <1>7 DEF OwnInv, Recoverable

\* The incumbent goes to a name nothing has.
LEMMA ArchiveKeepsOwn ==
  ASSUME DisjointUse, IInv, OwnInv, NEW p \in Processes, Archive(p)
  PROVE  OwnInv'
<1> DEFINE s == task[p].slot
           t == task[p].target
<1>0. /\ task \in [Processes -> Writes] /\ path \in [Slots -> Docs \cup {None}]
      /\ \A q \in Processes : PathOK(q)
  BY DEF IInv, TypeOK, OwnInv
<1>1. /\ task[p].pc = "archive" /\ s \in Slots /\ s \in Uses[p] /\ path[s] # None
      /\ t \notin DOMAIN archive /\ t.label = Label[s]
  BY <1>0, TaskSlot DEF Archive, PathOK, IInv, TaskOK
<1>2. /\ archive' = [n \in DOMAIN archive \cup {t} |-> IF n = t THEN path[s] ELSE archive[n]]
      /\ path' = [path EXCEPT ![s] = None]
      /\ task' = [task EXCEPT ![p].pc = "list"]
      /\ UNCHANGED <<saved, pruned>>
  BY <1>1 DEF Archive
<1>3. /\ task'[p].pc = "list" /\ task'[p].slot = s
      /\ \A q \in Processes : q # p => task'[q] = task[q]
  BY <1>0, <1>2 DEF Writes
<1>4. PathOK(p)'
  BY <1>0, <1>1, <1>2, <1>3 DEF PathOK
<1>5. /\ DOMAIN archive' = DOMAIN archive \cup {t} /\ archive'[t] = path[s]
      /\ \A n \in DOMAIN archive : archive'[n] = archive[n]
  BY <1>1, <1>2
<1>6. \A u \in Slots \ Uses[p] : path'[u] = path[u]
  BY <1>1, <1>2, OnePathChanges
<1>7. \A q \in Processes : PathOK(q)'
  BY <1>0, <1>1, <1>3, <1>4, <1>5, <1>6, OthersKeepPaths
<1>8. Archived \cup {path[s]} \subseteq Archived' /\ Pruned' = Pruned
  <2>1. Archived \subseteq Archived' /\ path[s] \in Archived'
    BY <1>5 DEF Archived
  <2> QED BY <1>2, <2>1 DEF Pruned
<1>9. Paths \subseteq Paths' \cup {path[s]}
  BY <1>0, <1>2 DEF Paths
<1> QED BY <1>2, <1>7, <1>8, <1>9 DEF OwnInv, Recoverable

\* The new document takes an empty path.
LEMMA PromoteKeepsOwn ==
  ASSUME DisjointUse, IInv, OwnInv, NEW p \in Processes, Promote(p)
  PROVE  OwnInv'
<1> DEFINE s == task[p].slot
           d == task[p].doc
<1>0. /\ task \in [Processes -> Writes] /\ path \in [Slots -> Docs \cup {None}]
      /\ \A q \in Processes : PathOK(q)
  BY DEF IInv, TypeOK, OwnInv
<1>1. /\ task[p].pc = "promote" /\ s \in Slots /\ d \in Docs /\ path[s] = None
      /\ path' = [path EXCEPT ![s] = d] /\ saved' = saved \cup {d} /\ Raises(p)
      /\ UNCHANGED <<archive, pruned>>
  BY <1>0, TaskSlot DEF Promote, PathOK, IInv
<1>2. task'[p] = Free /\ \A q \in Processes : q # p => task'[q] = task[q]
  BY <1>0, <1>1 DEF Raises
<1>3. PathOK(p)'
  BY <1>2 DEF PathOK, Free
<1>4. \A u \in Slots \ Uses[p] : path'[u] = path[u]
  BY <1>1, OnePathChanges
<1>5. \A q \in Processes : PathOK(q)'
  BY <1>0, <1>1, <1>2, <1>3, <1>4, OthersKeepPaths
<1>6. Paths' = Paths \cup {d} /\ Archived' = Archived /\ Pruned' = Pruned
  <2>1. d # None
    BY <1>1, GuardAssumption DEF Docs
  <2>2. \A t \in Slots : path'[t] = IF t = s THEN d ELSE path[t]
    BY <1>0, <1>1
  <2> QED BY <1>1, <2>1, <2>2 DEF Paths, Archived, Pruned
<1> QED BY <1>1, <1>5, <1>6 DEF OwnInv, Recoverable

\* The incumbent comes back to an empty path.
LEMMA RestoreKeepsOwn ==
  ASSUME DisjointUse, IInv, OwnInv, NEW p \in Processes, Restore(p)
  PROVE  OwnInv'
<1> DEFINE s == task[p].slot
           n == task[p].target
           d == archive[n]
<1>0. /\ task \in [Processes -> Writes] /\ path \in [Slots -> Docs \cup {None}]
      /\ \A q \in Processes : PathOK(q)
  BY DEF IInv, TypeOK, OwnInv
<1>1. /\ task[p].pc = "restore" /\ s \in Slots /\ path[s] = None
      /\ archive' = Without(n) /\ Raises(p)
      /\ path' = IF n \in DOMAIN archive THEN [path EXCEPT ![s] = d] ELSE path
      /\ UNCHANGED <<saved, pruned>>
  BY <1>0, TaskSlot DEF Restore, PathOK, IInv
<1>2. task'[p] = Free /\ \A q \in Processes : q # p => task'[q] = task[q]
  BY <1>0, <1>1 DEF Raises
<1>3. PathOK(p)'
  BY <1>2 DEF PathOK, Free
<1>4. \A t \in Slots \ Uses[p] : path'[t] = path[t]
  BY <1>1, OnePathChanges
<1>5. /\ DOMAIN archive' = DOMAIN archive \ {n}
      /\ \A m \in DOMAIN archive' : archive'[m] = archive[m]
  <2> HIDE DEF n
  <2> QED BY <1>1, WithoutName
<1>6. \A q \in Processes : PathOK(q)'
  BY <1>0, <1>2, <1>3, <1>4, <1>5, OthersKeepPaths
<1>7. CASE n \notin DOMAIN archive
  <2>1. UNCHANGED <<path, archive>>
    BY <1>1, <1>7, WithoutName DEF IInv
  <2> QED BY <1>1, <1>6, <2>1 DEF OwnInv, Recoverable, Paths, Archived, Pruned
<1>8. CASE n \in DOMAIN archive
  <2>1. d # None
    <3>1. d \in Docs
      BY <1>8 DEF IInv, TypeOK
    <3> QED BY <3>1, GuardAssumption DEF Docs
  <2>2. \A t \in Slots : path'[t] = IF t = s THEN d ELSE path[t]
    BY <1>0, <1>1, <1>8
  <2>3. Paths' = Paths \cup {d}
    BY <1>1, <2>1, <2>2 DEF Paths
  <2>4. Archived \subseteq Archived' \cup {d} /\ Pruned' = Pruned
    BY <1>1, <1>5 DEF Archived, Pruned
  <2> QED BY <1>1, <1>6, <2>3, <2>4 DEF OwnInv, Recoverable
<1> QED BY <1>7, <1>8

\* Every step keeps what holds of slots and labels of one's own.
LEMMA NextKeepsOwn ==
  ASSUME DisjointUse, IInv, OwnInv, [Next]_vars
  PROVE  OwnInv'
<1>1. ASSUME NEW p \in Processes, NEW s \in Slots, NEW incoming \in Programs \cup {None},
             NEW recent \in BOOLEAN, NEW block \in BOOLEAN, Read(p, s, incoming, recent, block)
      PROVE  OwnInv'
  BY <1>1, ReadKeepsOwn
<1>2. ASSUME NEW p \in Processes, ChooseName(p) \/ Archive(p) \/ Promote(p) \/ Restore(p)
      PROVE  OwnInv'
  BY <1>2, ChooseNameKeepsOwn, ArchiveKeepsOwn, PromoteKeepsOwn, RestoreKeepsOwn
<1>3. ASSUME NEW p \in Processes,
             List(p) \/ Unlink(p) \/ WriteTemp(p) \/ PromoteFails(p) \/ Dies(p)
      PROVE  OwnInv'
  BY <1>3, QuietKeepsOwn
<1>4. CASE UNCHANGED vars
  BY <1>4 DEF vars, OwnInv, PathOK, Recoverable, Paths, Archived, Pruned
<1> QED BY <1>1, <1>2, <1>3, <1>4 DEF Next

\* Every step of the guard is a step of the vault, or leaves it alone.
LEMMA NextIsVaultStep ==
  ASSUME DisjointUse, IInv, OwnInv, [Next]_vars
  PROVE  [Vault!Next]_(Vault!vars)
<1>0. /\ path \in [Slots -> Docs \cup {None}] /\ TypeOK /\ TaskOK /\ DoomedOK
      /\ \A q \in Processes : PathOK(q)
  BY DEF IInv, TypeOK, OwnInv
<1>1. ASSUME UNCHANGED <<path, archive, given>> PROVE [Vault!Next]_(Vault!vars)
  BY <1>1 DEF Vault!vars
<1>2. ASSUME NEW p \in Processes, Archive(p) PROVE [Vault!Next]_(Vault!vars)
  <2> DEFINE s == task[p].slot
             t == task[p].target
  <2>1. s \in Slots /\ path[s] # None /\ t \notin DOMAIN archive
    BY <1>0, <1>2, TaskSlot DEF Archive, PathOK
  <2>2. t \in Names
    <3>1. task[p] \in Writes /\ t # None
      BY <1>0, <1>2 DEF Archive, TypeOK
    <3> QED BY <3>1 DEF Writes
  <2>3. /\ archive' = [n \in DOMAIN archive \cup {t} |-> IF n = t THEN path[s] ELSE archive[n]]
        /\ given' = given \cup {t} /\ path' = [path EXCEPT ![s] = None]
    BY <1>2, <2>1 DEF Archive
  <2> HIDE DEF s, t
  <2>4. Vault!Retire(s, t)
    BY <2>1, <2>3 DEF Vault!Retire
  <2> QED BY <2>1, <2>2, <2>4 DEF Vault!Next
<1>3. ASSUME NEW p \in Processes, Unlink(p) PROVE [Vault!Next]_(Vault!vars)
  <2>1. PICK n \in task[p].doomed :
          archive' = Without(n) /\ UNCHANGED <<path, given>>
    BY <1>3 DEF Unlink
  <2>2. Cardinality(given \cap After[n]) >= Keep
    BY <1>0 DEF DoomedOK
  <2>3. CASE n \in DOMAIN archive
    <3>1. Vault!Cardinality(given \cap After[n]) = Cardinality(given \cap After[n])
      BY DEF Vault!Cardinality, Cardinality
    <3>2. Vault!Drop(n)
      BY <2>1, <2>2, <2>3, <3>1 DEF Vault!Drop, Vault!Without, Without
    <3> QED BY <2>3, <3>2 DEF Vault!Next
  <2>4. CASE n \notin DOMAIN archive
    BY <1>0, <1>1, <2>1, <2>4, WithoutName
  <2> QED BY <2>3, <2>4
<1>4. ASSUME NEW p \in Processes, Promote(p) PROVE [Vault!Next]_(Vault!vars)
  <2> DEFINE s == task[p].slot
             d == task[p].doc
  <2>1. /\ s \in Slots /\ d \in Docs /\ path[s] = None /\ d \notin saved
        /\ path' = [path EXCEPT ![s] = d] /\ UNCHANGED <<archive, given>>
    BY <1>0, <1>4, TaskSlot DEF Promote, PathOK, TaskOK, Active
  <2>2. d # None
    BY <2>1, GuardAssumption DEF Docs
  <2>3. d \notin Vault!Known
    BY <2>1, <2>2 DEF Vault!Known, IInv, DocsOK, Paths, Archived
  <2>4. Vault!Save(s, d)
    BY <2>1, <2>3 DEF Vault!Save
  <2> QED BY <2>1, <2>4 DEF Vault!Next
<1>5. ASSUME NEW p \in Processes, Restore(p) PROVE [Vault!Next]_(Vault!vars)
  <2> DEFINE s == task[p].slot
             n == task[p].target
  <2>1. /\ s \in Slots /\ path[s] = None /\ archive' = Without(n) /\ UNCHANGED given
        /\ path' = IF n \in DOMAIN archive THEN [path EXCEPT ![s] = archive[n]] ELSE path
    BY <1>0, <1>5, TaskSlot DEF Restore, PathOK
  <2>2. CASE n \in DOMAIN archive
    BY <2>1, <2>2 DEF Vault!Next, Vault!PutBack, Vault!Without, Without
  <2>3. CASE n \notin DOMAIN archive
    BY <1>0, <1>1, <2>1, <2>3, WithoutName
  <2> QED BY <2>2, <2>3
<1>6. ASSUME NEW p \in Processes,
             ChooseName(p) \/ List(p) \/ WriteTemp(p) \/ PromoteFails(p) \/ Dies(p)
      PROVE  UNCHANGED <<path, archive, given>>
  BY <1>6 DEF ChooseName, List, WriteTemp, PromoteFails, Dies
<1>7. ASSUME NEW p \in Processes, NEW s \in Slots, NEW incoming \in Programs \cup {None},
             NEW recent \in BOOLEAN, NEW block \in BOOLEAN, Read(p, s, incoming, recent, block)
      PROVE  UNCHANGED <<path, archive, given>>
  BY <1>7 DEF Read
<1>8. CASE UNCHANGED vars
  BY <1>1, <1>8 DEF vars
<1> QED BY <1>1, <1>2, <1>3, <1>4, <1>5, <1>6, <1>7, <1>8 DEF Next

-----------------------------------------------------------------------------
(* The theorems.  First, however processes share the slots.                *)

\* The invariant holds in every state of every behaviour.
THEOREM Invariance == Spec => []IInv
<1> QED BY InitEstablishes, NextKeepsIInv, PTL DEF Spec

\* Type correctness.
THEOREM TypeCorrect == Spec => []TypeOK
<1>1. IInv => TypeOK
  BY DEF IInv
<1> QED BY <1>1, Invariance, PTL

\* Paths and archive hold complete documents, each once, even when several
\* processes write one slot: what a race can lose is a whole document, never
\* half of one.
THEOREM DocumentsComplete == Spec => []CompleteOnce
<1>1. IInv => CompleteOnce
  BY DEF IInv
<1> QED BY <1>1, Invariance, PTL

\* Only names with Keep later ones are deleted, however the processes' prunes
\* interleave, whatever slots they share and whatever the clock reads.
THEOREM PruningIsSafe == Spec => []PrunesOldest
<1>1. IInv => PrunesOldest
  BY DEF IInv
<1> QED BY <1>1, Invariance, PTL

-----------------------------------------------------------------------------
(* Then with one writer per label.                                         *)

\* A slot's path and names are its writer's alone, and nothing saved is missing.
THEOREM OwnInvariance ==
  ASSUME DisjointUse
  PROVE  Spec => []OwnInv
<1>1. Init => OwnInv
  BY DEF Init, OwnInv, PathOK, Free, Recoverable
<1>2. IInv /\ OwnInv /\ [Next]_vars => OwnInv'
  BY NextKeepsOwn
<1> QED BY <1>1, <1>2, Invariance, PTL DEF Spec

\* With one writer per label a replaced handoff is always recoverable, whatever
\* fails and whoever dies, even from a clock that stands still or goes back.
THEOREM ReplacedIsRecoverable ==
  ASSUME DisjointUse
  PROVE  Spec => []Recoverable
<1>1. OwnInv => Recoverable
  BY DEF OwnInv
<1> QED BY <1>1, OwnInvariance, PTL

\* With one writer per label the guard, with its names, temp files, prunes,
\* failures and deaths, implements the vault.
THEOREM GuardImplementsVault ==
  ASSUME DisjointUse
  PROVE  Spec => ImplementsVault
<1>1. Init => Vault!Init
  BY DEF Init, Vault!Init
<1>2. IInv /\ OwnInv /\ [Next]_vars => [Vault!Next]_(Vault!vars)
  BY NextIsVaultStep
<1> QED BY <1>1, <1>2, Invariance, OwnInvariance, PTL DEF Spec, ImplementsVault, Vault!Spec
=============================================================================
