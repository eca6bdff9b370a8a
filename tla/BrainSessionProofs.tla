-------------------------- MODULE BrainSessionProofs --------------------------
(***************************************************************************)
(* Proofs about BrainSession, for any set of callers, any number of        *)
(* restarts and sessions and any threshold, retry limit and reset window.  *)
(***************************************************************************)
EXTENDS BrainSession, SequenceTheorems, TLAPS

-----------------------------------------------------------------------------
(* The breaker and the lock's line.                                        *)

\* Every operation of the breaker yields a breaker.
LEMMA BreakerTypes ==
  ASSUME NEW b \in Breakers
  PROVE  /\ Checked(b) \in Breakers
         /\ Success(b) \in Breakers
         /\ Failure(b) \in Breakers
         /\ Blocking(b) => Older(b) \in Breakers
<1>1. Checked(b) \in Breakers
  BY BreakerAssumption DEF Checked, Breakers, Closed, Blocking
<1>2. Success(b) \in Breakers
  BY DEF Success, Breakers
<1>3. Failure(b) \in Breakers
  BY BreakerAssumption DEF Failure, Breakers
<1>4. Blocking(b) => Older(b) \in Breakers
  BY BreakerAssumption DEF Older, Breakers, Blocking
<1> QED BY <1>1, <1>2, <1>3, <1>4

\* Joining the line.
LEMMA LineAppend ==
  ASSUME NEW S, NEW q \in Seq(S), NEW c \in S, Distinct(q), c \notin Elems(q)
  PROVE  /\ Append(q, c) \in Seq(S) /\ Append(q, c) # <<>>
         /\ Elems(Append(q, c)) = Elems(q) \cup {c}
         /\ Distinct(Append(q, c))
         /\ Head(Append(q, c)) = IF q = <<>> THEN c ELSE Head(q)
<1>1. /\ Append(q, c) \in Seq(S) /\ Append(q, c) # <<>> /\ Len(q) \in Nat
      /\ DOMAIN Append(q, c) = 1 .. Len(q) + 1 /\ DOMAIN q = 1 .. Len(q)
      /\ Append(q, c)[Len(q) + 1] = c
      /\ \A i \in 1 .. Len(q) : Append(q, c)[i] = q[i]
  OBVIOUS
<1>2. Elems(Append(q, c)) = Elems(q) \cup {c}
  <2>1. \A i \in 1 .. Len(q) + 1 : i \in 1 .. Len(q) \/ i = Len(q) + 1
    BY <1>1
  <2>2. \A i \in 1 .. Len(q) : i \in 1 .. Len(q) + 1
    BY <1>1
  <2>3. Len(q) + 1 \in 1 .. Len(q) + 1
    BY <1>1
  <2> QED BY <1>1, <2>1, <2>2, <2>3 DEF Elems
<1>3. Distinct(Append(q, c))
  BY <1>1 DEF Distinct, Elems
<1>4. Head(Append(q, c)) = IF q = <<>> THEN c ELSE Head(q)
  OBVIOUS
<1> QED BY <1>1, <1>2, <1>3, <1>4

\* The head of the line leaves it.
LEMMA LineTail ==
  ASSUME NEW S, NEW q \in Seq(S), q # <<>>, Distinct(q)
  PROVE  /\ Tail(q) \in Seq(S)
         /\ Elems(Tail(q)) = Elems(q) \ {Head(q)}
         /\ Distinct(Tail(q))
<1>1. /\ Tail(q) \in Seq(S) /\ Len(q) \in Nat \ {0} /\ Head(q) = q[1]
      /\ DOMAIN Tail(q) = 1 .. Len(q) - 1 /\ DOMAIN q = 1 .. Len(q)
      /\ Len(Tail(q)) = Len(q) - 1
  OBVIOUS
<1>2. \A i \in 1 .. Len(q) - 1 : Tail(q)[i] = q[i + 1] /\ i + 1 \in 1 .. Len(q)
  BY <1>1
<1>3. \A i \in 1 .. Len(q) : i # 1 => i - 1 \in 1 .. Len(q) - 1 /\ Tail(q)[i - 1] = q[i]
  BY <1>1
<1>4. Distinct(Tail(q))
  BY <1>1, <1>2 DEF Distinct
<1>5. ASSUME NEW x \in Elems(Tail(q)) PROVE x \in Elems(q) /\ x # Head(q)
  <2>1. PICK i \in 1 .. Len(q) - 1 : x = q[i + 1]
    BY <1>1, <1>2 DEF Elems
  <2>2. i + 1 \in DOMAIN q /\ 1 \in DOMAIN q /\ i + 1 # 1
    BY <1>1, <1>2
  <2> QED BY <1>1, <2>1, <2>2 DEF Elems, Distinct
<1>6. ASSUME NEW x \in Elems(q), x # Head(q) PROVE x \in Elems(Tail(q))
  <2>1. PICK i \in 1 .. Len(q) : x = q[i]
    BY <1>1 DEF Elems
  <2> QED BY <1>1, <1>3, <1>6, <2>1 DEF Elems
<1> QED BY <1>1, <1>4, <1>5, <1>6

\* Somebody leaves the line, from wherever they stand in it.
LEMMA LineWithout ==
  ASSUME NEW S, NEW q \in Seq(S), Distinct(q), NEW k \in DOMAIN q
  PROVE  /\ Without(q, k) \in Seq(S)
         /\ Elems(Without(q, k)) = Elems(q) \ {q[k]}
         /\ Distinct(Without(q, k))
         /\ q # <<>> /\ (k # 1 => Without(q, k) # <<>> /\ Head(Without(q, k)) = Head(q))
<1> DEFINE n == Len(q)
           r == Without(q, k)
           at(i) == IF i < k THEN i ELSE i + 1
<1>1. n \in Nat /\ DOMAIN q = 1 .. n /\ k \in 1 .. n /\ n >= 1 /\ q # <<>>
  OBVIOUS
<1>2. r = [i \in 1 .. n - 1 |-> IF i < k THEN q[i] ELSE q[i + 1]]
  BY DEF Without
<1>3. n - 1 \in Nat
  BY <1>1
<1>4. \A i \in 1 .. n - 1 : at(i) \in 1 .. n /\ at(i) # k /\ r[i] = q[at(i)]
  BY <1>1, <1>2
<1>5. \A j \in 1 .. n : q[j] \in S
  BY <1>1
<1>6. r \in [1 .. n - 1 -> S]
  BY <1>2, <1>4, <1>5
<1>7. r \in Seq(S) /\ Len(r) = n - 1 /\ DOMAIN r = 1 .. n - 1
  BY <1>3, <1>6
<1>8. Distinct(r)
  <2> SUFFICES ASSUME NEW i \in 1 .. n - 1, NEW j \in 1 .. n - 1, r[i] = r[j]
               PROVE  i = j
    BY <1>7 DEF Distinct
  <2>1. at(i) = at(j)
    BY <1>1, <1>4 DEF Distinct
  <2> QED BY <2>1, <1>1
<1>9. ASSUME NEW x \in Elems(r) PROVE x \in Elems(q) /\ x # q[k]
  <2>1. PICK i \in 1 .. n - 1 : x = r[i]
    BY <1>7 DEF Elems
  <2> QED BY <1>1, <1>4, <2>1 DEF Elems, Distinct
<1>10. ASSUME NEW x \in Elems(q), x # q[k] PROVE x \in Elems(r)
  <2>1. PICK j \in 1 .. n : x = q[j]
    BY <1>1 DEF Elems
  <2>2. j # k
    BY <1>10, <2>1
  <2>3. CASE j < k
    <3>1. j \in 1 .. n - 1 /\ r[j] = q[j]
      BY <1>1, <1>2, <2>3
    <3> QED BY <1>7, <2>1, <3>1 DEF Elems
  <2>4. CASE j > k
    <3>1. j - 1 \in 1 .. n - 1 /\ ~(j - 1 < k) /\ (j - 1) + 1 = j
      BY <1>1, <2>4
    <3>2. r[j - 1] = q[j]
      BY <1>2, <3>1
    <3> QED BY <1>7, <2>1, <3>1, <3>2 DEF Elems
  <2> QED BY <1>1, <2>2, <2>3, <2>4
<1>11. ASSUME k # 1 PROVE r # <<>> /\ Head(r) = Head(q)
  <2>1. 1 \in 1 .. n - 1 /\ 1 < k
    BY <1>1, <1>11
  <2>2. r[1] = q[1]
    BY <1>2, <2>1
  <2> QED BY <1>1, <1>7, <2>1, <2>2
<1> HIDE DEF r
<1> QED BY <1>1, <1>7, <1>8, <1>9, <1>10, <1>11 DEF r

-----------------------------------------------------------------------------
(* The invariant.                                                          *)

\* What the tasks and _session_id say about each other: a session is missing
\* while initialize is under way, present during negotiation, and nothing is
\* posted (so nothing can be rejected) before negotiation is over.
SessionKnown ==
  \A c \in Callers :
    /\ task[c].pc = "init" => sid = NoSession
    /\ task[c].pc = "negotiate" => sid # NoSession /\ ~negotiated
    /\ task[c].pc = "post" \/ task[c].again => negotiated
    /\ task[c].sent <= epoch

\* While a caller is on its way from a rejection to the next post, the session
\* that is current, if any, was issued after the rejected one.
RejectedIsOld ==
  \A c \in Callers :
    task[c].again /\ task[c].pc # "post" => sid = NoSession \/ task[c].sid < sid

IInv == TypeOK /\ HandshakeHoldsLock /\ SessionKnown /\ RejectedIsOld

Away == {"idle", "post", "backoff"}
Inside == {"init", "negotiate"}

\* How a step of caller c, whose task becomes u, may treat the lock.
LockStep(c, u) ==
  \/ lockq' = lockq /\ task[c].pc \in Away /\ u.pc \in Away
  \/ lockq' = lockq /\ lockq # <<>> /\ Head(lockq) = c /\ u.pc \in Inside
  \/ /\ lockq' = Append(lockq, c) /\ task[c].pc \in Away
     /\ \/ u.pc = "waiting" /\ lockq # <<>>
        \/ u.pc \in Inside /\ lockq = <<>>
  \/ lockq' = Tail(lockq) /\ lockq # <<>> /\ Head(lockq) = c /\ u.pc \in Away
  \/ /\ u.pc \in Away
     /\ \E k \in DOMAIN lockq : lockq[k] = c /\ lockq' = Without(lockq, k)

\* Each of these keeps the lock with the caller in the handshake.
LEMMA LockPreserved ==
  ASSUME TypeOK, HandshakeHoldsLock, NEW c \in Callers, NEW u \in Tasks,
         task' = [task EXCEPT ![c] = u], LockStep(c, u)
  PROVE  lockq' \in Seq(Callers) /\ HandshakeHoldsLock'
<1> USE DEF Away, Inside
<1>1. /\ lockq \in Seq(Callers) /\ Distinct(lockq)
      /\ \A d \in Callers : d # c => task'[d] = task[d]
      /\ task'[c] = u
      /\ Elems(lockq) \subseteq Callers
  <2>1. Elems(lockq) \subseteq Callers
    BY DEF TypeOK, Elems
  <2> QED BY <2>1 DEF TypeOK, HandshakeHoldsLock
<1>2. \A d \in Callers : InHandshake(d) => lockq # <<>> /\ Head(lockq) = d
  BY DEF HandshakeHoldsLock
<1>3. \A d \in Callers : d \in Elems(lockq) <=> InHandshake(d) \/ task[d].pc = "waiting"
  BY DEF HandshakeHoldsLock
<1>4. u.pc \in Away \/ u.pc \in Inside \/ u.pc = "waiting"
  BY DEF Tasks
<1>5. lockq # <<>> => Head(lockq) \in Elems(lockq)
  <2>1. lockq # <<>> => 1 \in DOMAIN lockq /\ Head(lockq) = lockq[1]
    BY <1>1
  <2> QED BY <2>1 DEF Elems
<1>6. CASE lockq' = lockq /\ task[c].pc \in Away /\ u.pc \in Away
  BY <1>1, <1>2, <1>3, <1>6 DEF HandshakeHoldsLock, InHandshake
<1>7. CASE lockq' = lockq /\ lockq # <<>> /\ Head(lockq) = c /\ u.pc \in Inside
  BY <1>1, <1>2, <1>3, <1>5, <1>7 DEF HandshakeHoldsLock, InHandshake
<1>8. CASE /\ lockq' = Append(lockq, c) /\ task[c].pc \in Away
           /\ \/ u.pc = "waiting" /\ lockq # <<>>
              \/ u.pc \in Inside /\ lockq = <<>>
  <2>1. c \notin Elems(lockq)
    BY <1>3, <1>8 DEF InHandshake
  <2>2. /\ lockq' \in Seq(Callers) /\ lockq' # <<>>
        /\ Elems(lockq') = Elems(lockq) \cup {c} /\ Distinct(lockq')
        /\ Head(lockq') = IF lockq = <<>> THEN c ELSE Head(lockq)
    BY <1>1, <1>8, <2>1, LineAppend
  <2>3. \A d \in Callers : InHandshake(d)' => lockq' # <<>> /\ Head(lockq') = d
    BY <1>1, <1>2, <1>8, <2>2 DEF InHandshake
  <2>4. \A d \in Callers : d \in Elems(lockq') <=> InHandshake(d)' \/ task'[d].pc = "waiting"
    BY <1>1, <1>3, <1>8, <2>2 DEF InHandshake
  <2> QED BY <2>2, <2>3, <2>4 DEF HandshakeHoldsLock
<1>9. CASE lockq' = Tail(lockq) /\ lockq # <<>> /\ Head(lockq) = c /\ u.pc \in Away
  <2>1. /\ lockq' \in Seq(Callers) /\ Distinct(lockq')
        /\ Elems(lockq') = Elems(lockq) \ {c}
    BY <1>1, <1>9, LineTail
  <2>2. \A d \in Callers : ~InHandshake(d)'
    BY <1>1, <1>2, <1>9 DEF InHandshake
  <2>3. \A d \in Callers : d \in Elems(lockq') <=> InHandshake(d)' \/ task'[d].pc = "waiting"
    BY <1>1, <1>2, <1>3, <1>9, <2>1, <2>2 DEF InHandshake
  <2> QED BY <2>1, <2>2, <2>3 DEF HandshakeHoldsLock
<1>10. CASE /\ u.pc \in Away
            /\ \E k \in DOMAIN lockq : lockq[k] = c /\ lockq' = Without(lockq, k)
  <2>1. PICK k \in DOMAIN lockq : lockq[k] = c /\ lockq' = Without(lockq, k)
    BY <1>10
  <2>2. /\ lockq' \in Seq(Callers) /\ Distinct(lockq')
        /\ Elems(lockq') = Elems(lockq) \ {c}
        /\ lockq # <<>> /\ (k # 1 => lockq' # <<>> /\ Head(lockq') = Head(lockq))
    BY <1>1, <2>1, LineWithout
  <2>3. ASSUME NEW d \in Callers, InHandshake(d)'
        PROVE  lockq' # <<>> /\ Head(lockq') = d
    <3>1. d # c /\ InHandshake(d)
      BY <1>1, <1>10, <2>3 DEF InHandshake
    <3>2. Head(lockq) = d /\ lockq # <<>> /\ Head(lockq) = lockq[1]
      BY <1>1, <1>2, <3>1
    <3>3. k # 1
      BY <2>1, <3>1, <3>2
    <3> QED BY <2>2, <3>2, <3>3
  <2>4. \A d \in Callers : d \in Elems(lockq') <=> InHandshake(d)' \/ task'[d].pc = "waiting"
    BY <1>1, <1>3, <1>10, <2>2 DEF InHandshake
  <2> QED BY <2>2, <2>3, <2>4 DEF HandshakeHoldsLock
<1> QED BY <1>6, <1>7, <1>8, <1>9, <1>10 DEF LockStep

-----------------------------------------------------------------------------
(* Steps.  Each changes one task; what it may make of the task and of the  *)
(* session keeps the invariant.                                            *)

\* u keeps what SessionKnown and RejectedIsOld say of a task, with the
\* session s and the capabilities negotiated or not (n).
TaskKnown(u, s, n) ==
  /\ u.pc = "init" => s = NoSession
  /\ u.pc = "negotiate" => s # NoSession /\ ~n
  /\ u.pc = "post" \/ u.again => n
  /\ u.sent <= epoch
  /\ u.again /\ u.pc # "post" => s = NoSession \/ u.sid < s

\* A session may appear only from the initialize of the caller that moves.
SessionStep(c) ==
  \/ sid' = sid /\ issued' = issued
  \/ sid' = NoSession /\ negotiated /\ issued' = issued
  \/ /\ task[c].pc = "init" /\ Len(issued) < MaxSessions
     /\ \E e \in Epochs : issued' = Append(issued, e)
     /\ sid' = Len(issued) + 1

NegotiationStep(c) ==
  \/ negotiated' = negotiated
  \/ negotiated' = TRUE /\ task[c].pc = "negotiate"

\* The general step of one caller.
LEMMA StepKeepsIInv ==
  ASSUME IInv, NEW c \in Callers, NEW u \in Tasks,
         task' = [task EXCEPT ![c] = u], LockStep(c, u),
         br' \in Breakers, epoch' = epoch, SessionStep(c),
         NegotiationStep(c),
         TaskKnown(u, sid', negotiated'), u.sid <= Len(issued')
  PROVE  IInv'
<1> USE DEF NoSession
<1>1. lockq' \in Seq(Callers) /\ HandshakeHoldsLock'
  BY LockPreserved DEF IInv
<1>2. /\ task \in [Callers -> Tasks] /\ epoch \in Epochs
      /\ issued \in Seq(Epochs) /\ Len(issued) \in Nat /\ Len(issued) <= MaxSessions
      /\ sid \in 0 .. Len(issued)
      /\ negotiated \in BOOLEAN /\ epoch \in Nat \ {0} /\ MaxSessions \in Nat
      /\ \A d \in Callers : /\ task[d].sid \in Nat /\ task[d].sent \in Nat \ {0}
                            /\ task[d].sid <= Len(issued)
      /\ u.sid \in Nat /\ u.sent \in Nat \ {0}
  BY SessionAssumption DEF IInv, TypeOK, Epochs, Tasks, Sids
<1>3. task'[c] = u /\ \A d \in Callers : d # c => task'[d] = task[d]
  BY <1>2
<1>4. /\ issued' \in Seq(Epochs) /\ Len(issued') \in Nat /\ Len(issued') <= MaxSessions
      /\ Len(issued) <= Len(issued') /\ sid' \in 0 .. Len(issued')
      /\ sid' \in {sid, 0} \/ (sid' = Len(issued) + 1 /\ task[c].pc = "init")
  <2>1. CASE issued' = issued
    BY <1>2, <2>1 DEF SessionStep
  <2>2. CASE issued' # issued
    <3>1. PICK e \in Epochs : issued' = Append(issued, e)
      BY <2>2 DEF SessionStep
    <3>2. issued' \in Seq(Epochs) /\ Len(issued') = Len(issued) + 1
      BY <1>2, <3>1
    <3> QED BY <1>2, <2>2, <3>2 DEF SessionStep
  <2> QED BY <2>1, <2>2
<1>5. TypeOK'
  <2>1. negotiated' \in BOOLEAN
    BY <1>2 DEF NegotiationStep
  <2>2. \A d \in Callers : task'[d].sid <= Len(issued')
    BY <1>2, <1>3, <1>4
  <2>3. task' \in [Callers -> Tasks]
    BY <1>2
  <2> QED BY <1>1, <1>2, <1>4, <2>1, <2>2, <2>3 DEF TypeOK
\* Nobody else is in the handshake when this caller is.
<1>7. ASSUME NEW d \in Callers, d # c, task[d].pc \in Inside
      PROVE  task[c].pc \notin Inside
  BY <1>7 DEF IInv, HandshakeHoldsLock, InHandshake, Inside
<1>8. ASSUME NEW d \in Callers, d # c
      PROVE  /\ task[d].pc = "init" => sid' = 0
             /\ task[d].pc = "negotiate" => sid' # 0 /\ ~negotiated'
             /\ task[d].pc = "post" \/ task[d].again => negotiated'
  BY <1>2, <1>7, <1>8 DEF SessionStep, NegotiationStep, IInv, SessionKnown, Inside
<1>9. SessionKnown'
  BY <1>2, <1>3, <1>8 DEF SessionKnown, TaskKnown, IInv
<1>10. ASSUME NEW d \in Callers, d # c, task[d].again, task[d].pc # "post"
       PROVE  sid' = 0 \/ task[d].sid < sid'
  <2>1. sid = 0 \/ task[d].sid < sid
    BY <1>10 DEF IInv, RejectedIsOld
  <2>2. task[d].sid \in Nat /\ task[d].sid <= Len(issued)
    BY <1>2
  <2> QED BY <2>1, <2>2, <1>2, <1>4
<1>11. RejectedIsOld'
  BY <1>3, <1>10 DEF RejectedIsOld, TaskKnown
<1> QED BY <1>1, <1>5, <1>9, <1>11 DEF IInv

\* The task of a caller that has got the lock.
LEMMA LockedTask ==
  ASSUME NEW t \in Tasks, NEW s, epoch \in Epochs
  PROVE  LET u == Locked(t, s) IN
         /\ u \in Tasks /\ u.again = t.again /\ u.sent \in {1, epoch} /\ u.sid = t.sid
         /\ u.pc = IF s = NoSession THEN "init" ELSE "negotiate"
<1>0. 1 \in Epochs
  BY SessionAssumption DEF Epochs
<1>1. CASE s = NoSession
  BY <1>1 DEF Locked, Tasks
<1>2. CASE s # NoSession
  BY <1>0, <1>2 DEF Locked, Tasks
<1> QED BY <1>1, <1>2

\* The ways out of _ensure_session's first stretch.
LEMMA EnsureSteps ==
  ASSUME IInv, NEW c \in Callers, NEW s \in 0 .. Len(issued), NEW t \in Tasks,
         task[c].pc \in Away, Ensure(c, s, t),
         t.sid <= Len(issued),
         t.again => negotiated /\ (s = NoSession \/ t.sid < s)
  PROVE  \E u \in Tasks :
           /\ task' = [task EXCEPT ![c] = u] /\ LockStep(c, u)
           /\ TaskKnown(u, s, negotiated) /\ u.sid <= Len(issued)
<1>1. /\ epoch \in Epochs /\ epoch \in Nat \ {0} /\ negotiated \in BOOLEAN /\ 1 \in Epochs
      /\ s \in Sids /\ s <= Len(issued)
  <2>1. Len(issued) \in Nat /\ Len(issued) <= MaxSessions
    BY SessionAssumption DEF IInv, TypeOK
  <2> QED BY <2>1, SessionAssumption DEF IInv, TypeOK, Epochs, Sids
<1>2. CASE /\ s # NoSession /\ negotiated
           /\ task' = [task EXCEPT ![c] = Posting(t, s)]
           /\ UNCHANGED lockq
  <2>1. Posting(t, s) \in Tasks
    BY <1>1 DEF Posting, Tasks
  <2>2. /\ Posting(t, s).pc = "post" /\ Posting(t, s).again = t.again
        /\ Posting(t, s).sent = epoch /\ Posting(t, s).sid = s
    BY DEF Posting, Tasks
  <2>3. LockStep(c, Posting(t, s))
    BY <1>2, <2>2 DEF LockStep, Away
  <2>4. TaskKnown(Posting(t, s), s, negotiated)
    BY <1>1, <1>2, <2>2 DEF TaskKnown, NoSession
  <2> QED BY <1>1, <1>2, <2>1, <2>2, <2>3, <2>4
<1>3. CASE /\ s = NoSession \/ ~negotiated
           /\ lockq = <<>>
           /\ task' = [task EXCEPT ![c] = Locked(t, s)]
           /\ lockq' = Append(lockq, c)
  <2> DEFINE u == Locked(t, s)
  <2>1. /\ u \in Tasks /\ u.again = t.again /\ u.sent \in {1, epoch} /\ u.sid = t.sid
        /\ u.pc = IF s = NoSession THEN "init" ELSE "negotiate"
    BY <1>1, LockedTask
  <2>2. task' = [task EXCEPT ![c] = u]
    BY <1>3
  <2> HIDE DEF u
  <2>3. LockStep(c, u)
    BY <1>3, <2>1 DEF LockStep, Inside
  <2>4. TaskKnown(u, s, negotiated)
    BY <1>1, <1>3, <2>1 DEF TaskKnown
  <2> QED BY <2>1, <2>2, <2>3, <2>4
<1>4. CASE /\ lockq # <<>>
           /\ task' = [task EXCEPT ![c] = Waiting(t)]
           /\ lockq' = Append(lockq, c)
  <2>1. Waiting(t) \in Tasks
    BY <1>1 DEF Waiting, Tasks
  <2>2. /\ Waiting(t).pc = "waiting" /\ Waiting(t).again = t.again
        /\ Waiting(t).sent = 1 /\ Waiting(t).sid = t.sid
    BY DEF Waiting, Tasks
  <2>3. LockStep(c, Waiting(t))
    BY <1>4, <2>2 DEF LockStep
  <2>4. TaskKnown(Waiting(t), s, negotiated)
    BY <1>1, <2>2 DEF TaskKnown
  <2> QED BY <1>4, <2>1, <2>2, <2>3, <2>4
<1> QED BY <1>2, <1>3, <1>4 DEF Ensure

\* A failed attempt leaves a caller that has nothing to do with sessions.
LEMMA AttemptFailsSteps ==
  ASSUME IInv, NEW c \in Callers, AttemptFails(c)
  PROVE  /\ br' \in Breakers
         /\ \E u \in Tasks :
              /\ task' = [task EXCEPT ![c] = u]
              /\ u.pc \in {"idle", "backoff"} /\ ~u.again /\ u.sid = 0 /\ u.sent = 1
<1>1. br \in Breakers /\ task[c] \in Tasks
  BY DEF IInv, TypeOK
<1>2. br' \in Breakers
  BY <1>1, BreakerTypes DEF AttemptFails
<1>3. 1 \in Epochs
  BY SessionAssumption DEF Epochs
<1>4. Idle \in Tasks
  BY <1>3, SessionAssumption DEF Idle, Tasks, Sids, NoSession
<1>5. CASE task' = [task EXCEPT ![c] = Idle]
  BY <1>2, <1>4, <1>5 DEF Idle, NoSession
<1>6. CASE /\ task[c].attempt # Attempts - 1
           /\ task' = [task EXCEPT ![c] =
                [Idle EXCEPT !.pc = "backoff", !.attempt = task[c].attempt + 1]]
  <2>1. task[c].attempt + 1 \in 0 .. Attempts - 1
    BY <1>1, <1>6, SessionAssumption DEF Tasks
  <2>2. [Idle EXCEPT !.pc = "backoff", !.attempt = task[c].attempt + 1] \in Tasks
    BY <1>4, <2>1 DEF Tasks
  <2> QED BY <1>2, <1>6, <2>2 DEF Idle, NoSession
<1> QED BY <1>5, <1>6 DEF AttemptFails

-----------------------------------------------------------------------------
(* The invariant is inductive.                                             *)

LEMMA InitEstablishes == Init => IInv
<1> SUFFICES ASSUME Init PROVE IInv
  OBVIOUS
<1>1. 1 \in Epochs /\ Idle \in Tasks
  BY SessionAssumption DEF Epochs, Idle, Tasks, Sids, NoSession
<1>2. TypeOK
  <2>1. br \in Breakers
    BY BreakerAssumption DEF Init, Breakers, Closed
  <2>2. /\ issued \in Seq(Epochs) /\ Len(issued) = 0 /\ sid \in 0 .. Len(issued)
        /\ epoch \in Epochs /\ 0 <= MaxSessions
    BY <1>1, SessionAssumption DEF Init, NoSession
  <2>3. task \in [Callers -> Tasks]
    BY <1>1 DEF Init
  <2>4. lockq \in Seq(Callers)
    BY DEF Init
  <2>5. negotiated \in BOOLEAN
    BY DEF Init
  <2>6. \A c \in Callers : task[c].sid <= Len(issued)
    BY <1>1, <2>2 DEF Init, Idle, NoSession
  <2> QED BY <2>1, <2>2, <2>3, <2>4, <2>5, <2>6 DEF TypeOK
<1>3. HandshakeHoldsLock
  BY DEF Init, HandshakeHoldsLock, InHandshake, Elems, Distinct, Idle
<1>4. SessionKnown /\ RejectedIsOld
  BY DEF Init, SessionKnown, RejectedIsOld, Idle, NoSession
<1> QED BY <1>2, <1>3, <1>4 DEF IInv

\* Whatever a caller does, or is made to do, keeps the invariant.
LEMMA CallerKeepsIInv ==
  ASSUME IInv, NEW c \in Callers, Call(c) \/ Continues(c) \/ Abandon(c)
  PROVE  IInv'
<1>1. /\ task \in [Callers -> Tasks] /\ task[c] \in Tasks /\ br \in Breakers
      /\ epoch \in Epochs /\ epoch \in Nat \ {0}
      /\ issued \in Seq(Epochs) /\ Len(issued) \in Nat /\ Len(issued) <= MaxSessions
      /\ sid \in 0 .. Len(issued) /\ sid \in Sids
      /\ negotiated \in BOOLEAN
      /\ task[c].sid <= Len(issued)
  <2>1. Len(issued) \in Nat /\ Len(issued) <= MaxSessions /\ sid \in 0 .. Len(issued)
    BY DEF IInv, TypeOK
  <2> QED BY <2>1, SessionAssumption DEF IInv, TypeOK, Epochs, Sids
<1>3. /\ Idle \in Tasks
      /\ Idle.pc = "idle" /\ ~Idle.again /\ Idle.sent = 1 /\ Idle.sid = 0
  BY SessionAssumption DEF Epochs, Idle, Tasks, Sids, NoSession
<1>4. /\ TaskKnown(Idle, sid, negotiated) /\ TaskKnown(Idle, sid', negotiated')
      /\ Idle.sid <= Len(issued)
  BY <1>1, <1>3 DEF TaskKnown
\* A caller in the handshake holds the lock.
<1>5. task[c].pc \in Inside => lockq # <<>> /\ Head(lockq) = c
  BY DEF IInv, HandshakeHoldsLock, InHandshake, Inside
<1>6. Checked(br) \in Breakers /\ Success(br) \in Breakers
  BY <1>1, BreakerTypes
<1>7. /\ task[c].pc = "init" => sid = NoSession
      /\ task[c].pc = "negotiate" => sid # NoSession /\ ~negotiated
      /\ task[c].pc = "post" \/ task[c].again => negotiated
      /\ task[c].again /\ task[c].pc # "post" => sid = NoSession \/ task[c].sid < sid
  BY DEF IInv, SessionKnown, RejectedIsOld
<1>8. ASSUME NEW s \in Sids
      PROVE  /\ Posting(task[c], s) \in Tasks /\ Posting(task[c], s).pc = "post"
             /\ Posting(task[c], s).again = task[c].again
             /\ Posting(task[c], s).sent = epoch /\ Posting(task[c], s).sid = s
  BY <1>1 DEF Posting, Tasks
<1>9. CASE Call(c)
  <2>1. Ensure(c, sid, Idle) /\ br' = Checked(br) /\ task[c].pc \in Away
        /\ UNCHANGED <<epoch, issued, sid, negotiated>>
    BY <1>9 DEF Call, Away
  <2>2. PICK u \in Tasks :
          /\ task' = [task EXCEPT ![c] = u] /\ LockStep(c, u)
          /\ TaskKnown(u, sid, negotiated) /\ u.sid <= Len(issued)
    BY <1>1, <1>3, <1>4, <2>1, EnsureSteps
  <2>3. SessionStep(c) /\ NegotiationStep(c)
    BY <2>1 DEF SessionStep, NegotiationStep
  <2> QED BY <1>6, <2>1, <2>2, <2>3, StepKeepsIInv
<1>10. CASE BackoffEnds(c)
  <2>1. Ensure(c, sid, task[c]) /\ task[c].pc = "backoff" /\ task[c].pc \in Away
        /\ UNCHANGED <<br, epoch, issued, sid, negotiated>>
    BY <1>10 DEF BackoffEnds, Away
  <2>2. PICK u \in Tasks :
          /\ task' = [task EXCEPT ![c] = u] /\ LockStep(c, u)
          /\ TaskKnown(u, sid, negotiated) /\ u.sid <= Len(issued)
    BY <1>1, <1>7, <2>1, EnsureSteps
  <2>3. SessionStep(c) /\ NegotiationStep(c)
    BY <2>1 DEF SessionStep, NegotiationStep
  <2> QED BY <1>1, <2>1, <2>2, <2>3, StepKeepsIInv
<1>11. CASE LockGranted(c)
  <2>1. /\ lockq # <<>> /\ Head(lockq) = c /\ task[c].pc = "waiting"
        /\ UNCHANGED <<br, epoch, issued, sid, negotiated>>
    BY <1>11 DEF LockGranted
  <2>0. SessionStep(c) /\ NegotiationStep(c)
    BY <2>1 DEF SessionStep, NegotiationStep
  <2>2. CASE /\ sid # NoSession /\ negotiated
             /\ task' = [task EXCEPT ![c] = Posting(task[c], sid)]
             /\ lockq' = Tail(lockq)
    <3> DEFINE u == Posting(task[c], sid)
    <3>1. /\ u \in Tasks /\ u.pc = "post" /\ u.again = task[c].again
          /\ u.sent = epoch /\ u.sid = sid
      BY <1>1, <1>8
    <3>2. task' = [task EXCEPT ![c] = u]
      BY <2>2
    <3> HIDE DEF u
    <3>3. LockStep(c, u)
      BY <2>1, <2>2, <3>1 DEF LockStep, Away
    <3>4. TaskKnown(u, sid', negotiated') /\ u.sid <= Len(issued')
      BY <1>1, <2>1, <2>2, <3>1 DEF TaskKnown
    <3> QED BY <1>1, <2>0, <2>1, <3>1, <3>2, <3>3, <3>4, StepKeepsIInv
  <2>3. CASE /\ ~(sid # NoSession /\ negotiated)
             /\ task' = [task EXCEPT ![c] = Locked(task[c], sid)]
             /\ lockq' = lockq
    <3> DEFINE u == Locked(task[c], sid)
    <3>1. /\ u \in Tasks /\ u.again = task[c].again /\ u.sent \in {1, epoch}
          /\ u.sid = task[c].sid
          /\ u.pc = IF sid = NoSession THEN "init" ELSE "negotiate"
      BY <1>1, LockedTask
    <3>2. task' = [task EXCEPT ![c] = u]
      BY <2>3
    <3> HIDE DEF u
    <3>3. LockStep(c, u)
      BY <2>1, <2>3, <3>1 DEF LockStep, Inside
    <3>4. TaskKnown(u, sid', negotiated') /\ u.sid <= Len(issued')
      BY <1>1, <1>7, <2>1, <2>3, <3>1 DEF TaskKnown
    <3> QED BY <1>1, <2>0, <2>1, <3>1, <3>2, <3>3, <3>4, StepKeepsIInv
  <2> QED BY <1>11, <2>2, <2>3 DEF LockGranted
<1>12. CASE InitSucceeds(c)
  <2> DEFINE n == Len(issued) + 1
  <2>1. /\ task[c].pc = "init" /\ Len(issued) < MaxSessions /\ sid' = n
        /\ IF negotiated
           THEN task' = [task EXCEPT ![c] = Posting(task[c], n)] /\ lockq' = Tail(lockq)
           ELSE task' = [task EXCEPT ![c] = Locked(task[c], n)] /\ UNCHANGED lockq
        /\ UNCHANGED <<br, epoch, negotiated>>
    BY <1>12 DEF InitSucceeds
  <2>2. PICK e \in Epochs : issued' = Append(issued, e)
    <3>1. PICK e \in task[c].sent .. epoch : issued' = Append(issued, e)
      BY <1>12 DEF InitSucceeds
    <3>2. e \in Epochs
      BY <1>1, SessionAssumption DEF Epochs, Tasks
    <3> QED BY <3>1, <3>2
  <2>3. /\ n \in Sids /\ n # NoSession /\ Len(issued') = n /\ Len(issued) < n
        /\ lockq # <<>> /\ Head(lockq) = c
    BY <1>1, <1>5, <2>1, <2>2, SessionAssumption DEF NoSession, Inside, Sids
  <2>4. SessionStep(c) /\ NegotiationStep(c)
    BY <2>1, <2>2 DEF SessionStep, NegotiationStep
  <2> HIDE DEF n
  <2>5. CASE negotiated
    <3> DEFINE u == Posting(task[c], n)
    <3>1. /\ u \in Tasks /\ u.pc = "post" /\ u.again = task[c].again
          /\ u.sent = epoch /\ u.sid = n
      BY <1>8, <2>3
    <3>2. task' = [task EXCEPT ![c] = u] /\ lockq' = Tail(lockq)
      BY <2>1, <2>5
    <3> HIDE DEF u
    <3>3. LockStep(c, u)
      BY <2>3, <3>1, <3>2 DEF LockStep, Away
    <3>4. TaskKnown(u, sid', negotiated') /\ u.sid <= Len(issued')
      BY <1>1, <2>1, <2>3, <2>5, <3>1 DEF TaskKnown, n
    <3> QED BY <1>1, <2>1, <2>4, <3>1, <3>2, <3>3, <3>4, StepKeepsIInv
  <2>6. CASE ~negotiated
    <3> DEFINE u == Locked(task[c], n)
    <3>1. /\ u \in Tasks /\ u.again = task[c].again /\ u.sent \in {1, epoch}
          /\ u.sid = task[c].sid /\ u.pc = "negotiate"
      BY <1>1, <2>3, LockedTask
    <3>2. task' = [task EXCEPT ![c] = u] /\ lockq' = lockq
      BY <2>1, <2>6
    <3> HIDE DEF u
    <3>3. LockStep(c, u)
      BY <2>3, <3>1, <3>2 DEF LockStep, Inside
    <3>4. TaskKnown(u, sid', negotiated') /\ u.sid <= Len(issued')
      BY <1>1, <1>7, <2>1, <2>3, <2>6, <3>1 DEF TaskKnown, Tasks, Sids, n
    <3> QED BY <1>1, <2>1, <2>4, <3>1, <3>2, <3>3, <3>4, StepKeepsIInv
  <2> QED BY <2>5, <2>6
<1>13. CASE Negotiated(c)
  <2>1. /\ task[c].pc = "negotiate" /\ negotiated' = TRUE
        /\ task' = [task EXCEPT ![c] = Posting(task[c], sid)]
        /\ lockq' = Tail(lockq)
        /\ UNCHANGED <<br, epoch, issued, sid>>
    BY <1>13 DEF Negotiated
  <2> DEFINE u == Posting(task[c], sid)
  <2>2. /\ u \in Tasks /\ u.pc = "post" /\ u.again = task[c].again
        /\ u.sent = epoch /\ u.sid = sid
    BY <1>1, <1>8
  <2>3. task' = [task EXCEPT ![c] = u]
    BY <2>1
  <2> HIDE DEF u
  <2>4. LockStep(c, u)
    BY <1>5, <2>1, <2>2 DEF LockStep, Away, Inside
  <2>5. TaskKnown(u, sid', negotiated') /\ u.sid <= Len(issued')
    BY <1>1, <2>1, <2>2 DEF TaskKnown
  <2>6. SessionStep(c) /\ NegotiationStep(c)
    BY <2>1 DEF SessionStep, NegotiationStep
  <2> QED BY <1>1, <2>1, <2>2, <2>3, <2>4, <2>5, <2>6, StepKeepsIInv
\* An attempt that fails, in the handshake or at the post.
<1>14. ASSUME AttemptFails(c), UNCHANGED <<epoch, issued, sid, negotiated>>,
              \/ task[c].pc = "init" /\ lockq' = Tail(lockq)
              \/ task[c].pc = "post" /\ lockq' = lockq
       PROVE  IInv'
  <2>1. PICK u \in Tasks :
          /\ task' = [task EXCEPT ![c] = u]
          /\ u.pc \in {"idle", "backoff"} /\ ~u.again /\ u.sid = 0 /\ u.sent = 1
    BY <1>14, AttemptFailsSteps
  <2>2. LockStep(c, u)
    BY <1>5, <1>14, <2>1 DEF LockStep, Away, Inside
  <2>3. TaskKnown(u, sid', negotiated') /\ u.sid <= Len(issued')
    BY <1>1, <1>14, <2>1 DEF TaskKnown
  <2>4. SessionStep(c) /\ NegotiationStep(c)
    BY <1>14 DEF SessionStep, NegotiationStep
  <2> QED BY <1>14, <2>1, <2>2, <2>3, <2>4, AttemptFailsSteps, StepKeepsIInv
<1>15. CASE InitFails(c) \/ PostFails(c)
  BY <1>14, <1>15 DEF InitFails, PostFails
<1>16. CASE PostRejected(c)
  <2>1. task[c].pc = "post" /\ negotiated
    BY <1>7, <1>16 DEF PostRejected, Rejected
  <2>2. CASE AttemptFails(c) /\ UNCHANGED <<sid, lockq>>
    BY <1>14, <1>16, <2>1, <2>2 DEF PostRejected
  <2>3. CASE /\ sid # NoSession /\ sid' = NoSession
             /\ Ensure(c, NoSession, [task[c] EXCEPT !.again = TRUE])
             /\ UNCHANGED br
    <3> DEFINE t == [task[c] EXCEPT !.again = TRUE]
    <3>1. t \in Tasks /\ t.sid <= Len(issued) /\ Ensure(c, NoSession, t)
      BY <1>1, <2>3 DEF Tasks
    <3> HIDE DEF t
    <3>2. NoSession \in 0 .. Len(issued) /\ task[c].pc \in Away
      BY <1>1, <2>1 DEF NoSession, Away
    <3>3. PICK u \in Tasks :
            /\ task' = [task EXCEPT ![c] = u] /\ LockStep(c, u)
            /\ TaskKnown(u, NoSession, negotiated) /\ u.sid <= Len(issued)
      BY <2>1, <3>1, <3>2, EnsureSteps
    <3>4. UNCHANGED <<epoch, issued, negotiated>>
      BY <1>16 DEF PostRejected
    <3>5. SessionStep(c) /\ NegotiationStep(c)
      BY <2>1, <2>3, <3>4 DEF SessionStep, NegotiationStep
    <3> QED BY <1>1, <2>3, <3>3, <3>4, <3>5, StepKeepsIInv
  <2> QED BY <1>16, <2>2, <2>3 DEF PostRejected
<1>17. CASE PostSucceeds(c)
  <2>1. /\ task[c].pc = "post" /\ br' = Success(br)
        /\ task' = [task EXCEPT ![c] = Idle]
        /\ UNCHANGED <<epoch, issued, sid, negotiated, lockq>>
    BY <1>17 DEF PostSucceeds
  <2>2. LockStep(c, Idle) /\ SessionStep(c) /\ NegotiationStep(c)
    BY <1>3, <2>1 DEF LockStep, Away, SessionStep, NegotiationStep
  <2> QED BY <1>3, <1>4, <1>6, <2>1, <2>2, StepKeepsIInv
<1>18. CASE Abandon(c)
  <2>1. /\ task' = [task EXCEPT ![c] = Idle]
        /\ UNCHANGED <<br, epoch, issued, sid, negotiated>>
    BY <1>18 DEF Abandon
  <2>2. SessionStep(c) /\ NegotiationStep(c)
    BY <2>1 DEF SessionStep, NegotiationStep
  <2>3. LockStep(c, Idle)
    <3>1. CASE \E k \in DOMAIN lockq : lockq[k] = c /\ lockq' = Without(lockq, k)
      BY <1>3, <3>1 DEF LockStep, Away
    <3>2. CASE (\A k \in DOMAIN lockq : lockq[k] # c) /\ lockq' = lockq
      <4>1. c \notin Elems(lockq)
        BY <3>2 DEF Elems
      <4>2. ~InHandshake(c) /\ task[c].pc # "waiting"
        BY <4>1 DEF IInv, HandshakeHoldsLock
      <4>3. task[c].pc \in Away
        BY <1>1, <4>2 DEF Tasks, InHandshake, Away
      <4> QED BY <1>3, <3>2, <4>3 DEF LockStep, Away
    <3> QED BY <1>18, <3>1, <3>2 DEF Abandon
  <2> QED BY <1>1, <1>3, <1>4, <2>1, <2>2, <2>3, StepKeepsIInv
<1> QED
  BY <1>9, <1>10, <1>11, <1>12, <1>13, <1>15, <1>16, <1>17, <1>18 DEF Continues

\* The invariant is inductive.
LEMMA NextKeepsIInv == IInv /\ [Next]_vars => IInv'
<1> SUFFICES ASSUME IInv, [Next]_vars PROVE IInv'
  OBVIOUS
<1>1. ASSUME NEW c \in Callers, Call(c) \/ Continues(c) \/ Abandon(c) PROVE IInv'
  BY <1>1, CallerKeepsIInv
<1>2. CASE Restart
  <2>1. epoch \in Epochs /\ epoch' \in Epochs /\ epoch' = epoch + 1 /\ epoch \in Nat
        /\ UNCHANGED <<br, issued, sid, negotiated, lockq, task>>
    BY <1>2, SessionAssumption DEF Restart, IInv, TypeOK, Epochs
  <2>2. TypeOK'
    BY <2>1 DEF IInv, TypeOK
  <2>3. HandshakeHoldsLock'
    BY <2>1 DEF IInv, HandshakeHoldsLock, InHandshake
  <2>4. \A c \in Callers : task[c].sent \in Nat
    BY DEF IInv, TypeOK, Tasks, Epochs
  <2>5. SessionKnown' /\ RejectedIsOld'
    BY <2>1, <2>4 DEF IInv, SessionKnown, RejectedIsOld
  <2> QED BY <2>2, <2>3, <2>5 DEF IInv
<1>3. CASE Tick
  <2>1. br' \in Breakers /\ UNCHANGED <<epoch, issued, sid, negotiated, lockq, task>>
    BY <1>3, BreakerTypes DEF Tick, IInv, TypeOK
  <2> QED BY <2>1 DEF IInv, TypeOK, HandshakeHoldsLock, InHandshake, SessionKnown, RejectedIsOld
<1>4. CASE UNCHANGED vars
  BY <1>4 DEF vars, IInv, TypeOK, HandshakeHoldsLock, InHandshake, SessionKnown, RejectedIsOld
<1> QED BY <1>1, <1>2, <1>3, <1>4 DEF Next

\* The invariant holds in every state of every behaviour.
THEOREM Invariance == Spec => []IInv
<1> QED BY InitEstablishes, NextKeepsIInv, PTL DEF Spec

-----------------------------------------------------------------------------
(* The properties.                                                         *)

\* Type correctness of the session layer.
THEOREM TypeCorrect == Spec => []TypeOK
<1> QED BY Invariance, PTL DEF IInv

\* The lock serialises handshakes: one caller shakes hands, the others that
\* need the session stand in line.
THEOREM LockHolds == Spec => []HandshakeHoldsLock
<1> QED BY Invariance, PTL DEF IInv

\* The assertion at the end of _ensure_session never fails.
THEOREM AssertionHolds == Spec => []NegotiatesWithSession
<1>1. IInv => NegotiatesWithSession
  BY DEF IInv, SessionKnown, NegotiatesWithSession
<1> QED BY <1>1, Invariance, PTL

\* A session is dropped before it is replaced.
THEOREM DropsBeforeReplacing == Spec => NoRedundantHandshake
<1>1. IInv /\ [Next]_vars => [sid # NoSession => sid' \in {sid, NoSession}]_vars
  <2> SUFFICES ASSUME IInv, Next, sid # NoSession, sid' # sid PROVE sid' = NoSession
    BY DEF vars
  <2>1. PICK c \in Callers : Call(c) \/ Continues(c) \/ Abandon(c)
    BY DEF Next, Restart, Tick
  <2>2. ~InitSucceeds(c)
    BY DEF InitSucceeds, IInv, SessionKnown
  <2> QED
    BY <2>1, <2>2 DEF Call, Continues, Abandon, LockGranted, InitFails, Negotiated,
       PostSucceeds, PostRejected, PostFails, BackoffEnds
<1> QED BY <1>1, Invariance, PTL DEF Spec, NoRedundantHandshake

\* The post after a rejection carries a session issued after the rejected one,
\* for rejections of live sessions and of dead ones, with any number of callers.
THEOREM RetriesAreFresh == Spec => RetryUsesFreshSession
<1> DEFINE Fresh == \A c \in Callers :
             task'[c].again /\ task'[c].pc = "post" /\ task'[c] # task[c]
               => task'[c].sid > task[c].sid
<1>1. IInv /\ [Next]_vars => [Fresh]_vars
  <2> SUFFICES ASSUME IInv, Next, NEW c \in Callers,
                      task'[c].again, task'[c].pc = "post", task'[c] # task[c]
               PROVE  task'[c].sid > task[c].sid
    BY DEF Fresh, vars
  <2>1. /\ task \in [Callers -> Tasks] /\ task[c] \in Tasks
        /\ task[c].sid \in Nat /\ sid \in Nat
        /\ Len(issued) \in Nat /\ task[c].sid <= Len(issued)
        /\ Idle.pc = "idle" /\ ~Idle.again
    BY SessionAssumption DEF IInv, TypeOK, Tasks, Sids, Idle
  <2>2. task[c].again /\ task[c].pc # "post" => sid = NoSession \/ task[c].sid < sid
    BY DEF IInv, RejectedIsOld
  <2>3. PICK d \in Callers : Call(d) \/ Continues(d) \/ Abandon(d)
    BY DEF Next, Restart, Tick
  <2>4. d = c
    <3>1. \E u : task' = [task EXCEPT ![d] = u]
      BY <2>3 DEF Call, Continues, Abandon, LockGranted, InitSucceeds, InitFails, Negotiated,
         PostSucceeds, PostRejected, PostFails, BackoffEnds, Ensure, AttemptFails
    <3> QED BY <2>1, <3>1
  <2>5. ASSUME NEW s, task' = [task EXCEPT ![c] = Posting(task[c], s)]
        PROVE  task'[c].sid = s /\ task[c].again
    BY <2>1, <2>5 DEF Posting, Tasks
  <2>6. ASSUME NEW t \in Tasks, NEW s, task' = [task EXCEPT ![c] = Locked(t, s)] PROVE FALSE
    <3>1. task'[c].pc = IF s = NoSession THEN "init" ELSE "negotiate"
      BY <2>1, <2>6, LockedTask DEF IInv, TypeOK
    <3> QED BY <3>1
  <2>7. ASSUME task' = [task EXCEPT ![c] = Idle] PROVE FALSE
    BY <2>1, <2>7
  <2>8. ASSUME NEW t \in Tasks, task' = [task EXCEPT ![c] = Waiting(t)] PROVE FALSE
    BY <2>1, <2>8 DEF Waiting, Tasks
  <2>9. ASSUME AttemptFails(c) PROVE FALSE
    BY <2>1, <2>9, AttemptFailsSteps
  <2>10. CASE LockGranted(c)
    <3>1. task[c].pc = "waiting"
      BY <2>10 DEF LockGranted
    <3>2. sid # NoSession /\ task' = [task EXCEPT ![c] = Posting(task[c], sid)]
      BY <2>1, <2>6, <2>10 DEF LockGranted
    <3> QED BY <2>1, <2>2, <2>5, <3>1, <3>2
  <2>11. CASE InitSucceeds(c)
    <3>1. IF negotiated
          THEN task' = [task EXCEPT ![c] = Posting(task[c], Len(issued) + 1)]
          ELSE task' = [task EXCEPT ![c] = Locked(task[c], Len(issued) + 1)]
      BY <2>11 DEF InitSucceeds
    <3>2. task'[c].sid = Len(issued) + 1
      BY <2>1, <2>5, <2>6, <3>1
    <3> QED BY <2>1, <3>2
  <2>12. CASE Negotiated(c)
    <3>1. task[c].again
      BY <2>5, <2>12 DEF Negotiated
    <3> QED BY <2>12, <3>1 DEF Negotiated, IInv, SessionKnown
  <2>13. CASE BackoffEnds(c)
    <3>1. sid # NoSession /\ task' = [task EXCEPT ![c] = Posting(task[c], sid)]
      BY <2>1, <2>6, <2>8, <2>13 DEF BackoffEnds, Ensure
    <3> QED BY <2>1, <2>2, <2>5, <2>13, <3>1 DEF BackoffEnds
  <2>14. CASE Call(c)
    <3>1. Idle \in Tasks
      BY SessionAssumption DEF Idle, Tasks, Epochs, Sids, NoSession
    <3>2. task' = [task EXCEPT ![c] = Posting(Idle, sid)]
      BY <2>6, <2>8, <2>14, <3>1 DEF Call, Ensure
    <3>3. ~Posting(Idle, sid).again
      BY DEF Posting, Idle
    <3> QED BY <2>1, <3>2, <3>3
  <2>15. CASE InitFails(c) \/ PostFails(c)
    BY <2>9, <2>15 DEF InitFails, PostFails
  <2>16. CASE PostSucceeds(c)
    BY <2>7, <2>16 DEF PostSucceeds
  <2>17. CASE PostRejected(c)
    <3>1. [task[c] EXCEPT !.again = TRUE] \in Tasks
      BY <2>1 DEF Tasks
    <3>2. Ensure(c, NoSession, [task[c] EXCEPT !.again = TRUE])
      BY <2>9, <2>17 DEF PostRejected
    <3> QED BY <2>6, <2>8, <3>1, <3>2 DEF Ensure
  <2>18. CASE Abandon(c)
    BY <2>7, <2>18 DEF Abandon
  <2> QED
    BY <2>3, <2>4, <2>10, <2>11, <2>12, <2>13, <2>14, <2>15, <2>16, <2>17, <2>18 DEF Continues
<1> QED BY <1>1, Invariance, PTL DEF Spec, RetryUsesFreshSession

\* A call's own steps are bounded: each takes it further, for any number of
\* callers, restarts and attempts.
THEOREM CallsProgress == Spec => CallProgress
<1> DEFINE Further(t, u) == Progress(t) < Progress(u) /\ Progress(u) < 9 * Attempts
<1> DEFINE Advance == \A c \in Callers :
             task'[c] # task[c] /\ task[c].pc # "idle" /\ task'[c].pc # "idle"
               => /\ Progress(task[c]) < Progress(task'[c])
                  /\ Progress(task'[c]) < 9 * Attempts
<1>1. IInv /\ [Next]_vars => [Advance]_vars
  <2> SUFFICES ASSUME IInv, Next, NEW c \in Callers,
                      task'[c] # task[c], task[c].pc # "idle", task'[c].pc # "idle"
               PROVE  Further(task[c], task'[c])
    BY DEF Advance, vars
  <2>1. /\ task \in [Callers -> Tasks] /\ task[c] \in Tasks
        /\ task[c].attempt \in 0 .. Attempts - 1 /\ task[c].again \in BOOLEAN
        /\ task[c].pc \in DOMAIN Stage
        /\ task[c].sent \in Nat \ {0} /\ epoch \in Nat /\ Attempts \in Nat \ {0}
        /\ Idle.pc = "idle"
    BY SessionAssumption DEF IInv, TypeOK, Tasks, Epochs, Stage, Idle
  <2>2. PICK d \in Callers : Call(d) \/ Continues(d) \/ Abandon(d)
    BY DEF Next, Restart, Tick
  <2>3. d = c
    <3>1. \E u : task' = [task EXCEPT ![d] = u]
      BY <2>2 DEF Call, Continues, Abandon, LockGranted, InitSucceeds, InitFails, Negotiated,
         PostSucceeds, PostRejected, PostFails, BackoffEnds, Ensure, AttemptFails
    <3> QED BY <2>1, <3>1
  <2>4. ASSUME NEW u, u.pc \in DOMAIN Stage, task'[c] = u,
               u.attempt = task[c].attempt, u.again = task[c].again,
               Stage[u.pc] > Stage[task[c].pc]
        PROVE  Further(task[c], task'[c])
    BY <2>1, <2>4 DEF Progress, Stage
  <2>5. ASSUME NEW t \in Tasks, NEW s
        PROVE  /\ Posting(t, s).pc = "post" /\ Waiting(t).pc = "waiting"
               /\ Locked(t, s).pc = IF s = NoSession THEN "init" ELSE "negotiate"
               /\ \A u \in {Posting(t, s), Waiting(t), Locked(t, s)} :
                    u.attempt = t.attempt /\ u.again = t.again
    BY DEF Posting, Waiting, Locked, Tasks
  <2>6. CASE LockGranted(c)
    <3>1. \/ task'[c] = Posting(task[c], sid)
          \/ task'[c] = Locked(task[c], sid)
      BY <2>1, <2>6 DEF LockGranted
    <3> QED BY <2>1, <2>4, <2>5, <2>6, <3>1 DEF LockGranted, Stage
  <2>7. CASE InitSucceeds(c)
    <3> DEFINE n == Len(issued) + 1
    <3>1. \/ task' = [task EXCEPT ![c] = Posting(task[c], n)]
          \/ task' = [task EXCEPT ![c] = Locked(task[c], n)]
      BY <2>7 DEF InitSucceeds
    <3>2. n # NoSession
      <4>1. Len(issued) \in Nat
        BY DEF IInv, TypeOK
      <4> QED BY <4>1 DEF NoSession
    <3> HIDE DEF n
    <3>3. task'[c] = Posting(task[c], n) \/ task'[c] = Locked(task[c], n)
      BY <2>1, <3>1
    <3> QED BY <2>1, <2>4, <2>5, <2>7, <3>2, <3>3 DEF InitSucceeds, Stage
  <2>8. CASE Negotiated(c)
    <3>1. task'[c] = Posting(task[c], sid)
      BY <2>1, <2>8 DEF Negotiated
    <3> QED BY <2>1, <2>4, <2>5, <2>8, <3>1 DEF Negotiated, Stage
  <2>9. CASE BackoffEnds(c)
    <3>1. \/ task'[c] = Posting(task[c], sid)
          \/ task'[c] = Locked(task[c], sid)
          \/ task'[c] = Waiting(task[c])
      BY <2>1, <2>9 DEF BackoffEnds, Ensure
    <3> QED BY <2>1, <2>4, <2>5, <2>9, <3>1 DEF BackoffEnds, Stage
  <2>10. ASSUME AttemptFails(c)
         PROVE  Further(task[c], task'[c])
    <3>1. /\ task[c].attempt # Attempts - 1
          /\ task'[c] = [Idle EXCEPT !.pc = "backoff", !.attempt = task[c].attempt + 1]
      BY <2>1, <2>10 DEF AttemptFails
    <3>2. /\ task'[c].pc = "backoff" /\ ~task'[c].again
          /\ task'[c].attempt = task[c].attempt + 1
      BY <3>1 DEF Idle
    <3> QED BY <2>1, <3>1, <3>2 DEF Progress, Stage
  <2>11. CASE InitFails(c) \/ PostFails(c)
    BY <2>10, <2>11 DEF InitFails, PostFails
  <2>12. CASE PostRejected(c)
    <3>1. CASE AttemptFails(c)
      BY <2>10, <3>1
    <3>2. CASE ~task[c].again /\ Ensure(c, NoSession, [task[c] EXCEPT !.again = TRUE])
      <4> DEFINE t == [task[c] EXCEPT !.again = TRUE]
      <4>1. t \in Tasks /\ t.again /\ t.attempt = task[c].attempt
        BY <2>1 DEF Tasks
      <4>2. task'[c] = Locked(t, NoSession) \/ task'[c] = Waiting(t)
        BY <2>1, <3>2 DEF Ensure
      <4> HIDE DEF t
      <4>3. /\ task'[c].pc \in {"init", "waiting"} /\ task'[c].again
            /\ task'[c].attempt = task[c].attempt
        BY <2>5, <4>1, <4>2
      <4>4. task[c].pc = "post"
        BY <2>12 DEF PostRejected, Rejected
      <4> QED BY <2>1, <3>2, <4>3, <4>4 DEF Progress, Stage
    <3> QED BY <2>12, <3>1, <3>2 DEF PostRejected
  <2>13. CASE PostSucceeds(c) \/ Abandon(c)
    <3>1. task' = [task EXCEPT ![c] = Idle]
      BY <2>13 DEF PostSucceeds, Abandon
    <3> QED BY <2>1, <3>1
  <2>14. CASE Call(c)
    BY <2>14 DEF Call
  <2>15. Call(c) \/ Continues(c) \/ Abandon(c)
    BY <2>2, <2>3
  <2> HIDE DEF Further
  <2> QED
    BY <2>6, <2>7, <2>8, <2>9, <2>11, <2>12, <2>13, <2>14, <2>15 DEF Continues
<1> QED BY <1>1, Invariance, PTL DEF Spec, CallProgress
=============================================================================
