----------------------------- MODULE BrainSession -----------------------------
(***************************************************************************)
(* The MCP session the HTTP bridge shares between concurrent tools/calls:  *)
(* one session id, established under an asyncio lock by whoever needs it   *)
(* first, dropped by whoever is told that the brain does not know it, and  *)
(* a breaker that counts the attempts that fail.                           *)
(*                                                                         *)
(* Session ids are numbered as the brain issues them.  An incarnation of   *)
(* the brain knows the sessions it has issued and none of an older one's,  *)
(* and may refuse a request it knows the session of.  An action is what    *)
(* one coroutine does between two awaits.                                  *)
(***************************************************************************)
EXTENDS BrainBreaker, Sequences

CONSTANTS
  Callers,    \* concurrent calls (each may call again)
  Attempts,   \* _RETRY_ATTEMPTS
  Faulty,     \* may requests fail (timeout, refused connection, 4xx, 5xx)?
  MaxEpoch,   \* bound: incarnations of the brain
  MaxSessions \* bound: sessions issued

ASSUME SessionAssumption ==
  /\ Attempts \in Nat \ {0}
  /\ Faulty \in BOOLEAN
  /\ MaxEpoch \in Nat \ {0}
  /\ MaxSessions \in Nat

NoSession == 0
Epochs == 1 .. MaxEpoch
Sids == 0 .. MaxSessions

VARIABLES
  br,          \* the breaker
  epoch,       \* the incarnation of the brain that is running (environment)
  issued,      \* per session the brain has issued: the incarnation that
               \* issued it (environment)
  sid,         \* _session_id, or NoSession
  negotiated,  \* _negotiated
  lockq,       \* _session_lock: its holder, then its waiters
  task         \* per caller: what it is doing

vars == <<br, epoch, issued, sid, negotiated, lockq, task>>

(* A task: where it is; the session of its post (or of the one that was    *)
(* rejected); the incarnation when its initialize or post was sent;        *)
(* whether this is the post after a rejection; the iteration of the retry  *)
(* loop.                                                                   *)
Idle == [pc |-> "idle", sid |-> NoSession, sent |-> 1, again |-> FALSE, attempt |-> 0]
Tasks == [pc : {"idle", "waiting", "init", "negotiate", "post", "backoff"},
          sid : Sids, sent : Epochs,
          again : BOOLEAN, attempt : 0 .. Attempts - 1]

Init ==
  /\ br = Closed
  /\ epoch = 1
  /\ issued = <<>>
  /\ sid = NoSession
  /\ negotiated = FALSE
  /\ lockq = <<>>
  /\ task = [c \in Callers |-> Idle]

-----------------------------------------------------------------------------
(* _ensure_session.                                                        *)

Posting(t, s) == [t EXCEPT !.pc = "post", !.sid = s, !.sent = epoch]
Waiting(t) == [t EXCEPT !.pc = "waiting", !.sent = 1]

\* The first thing the holder of the lock has to wait for.
Locked(t, s) ==
  IF s = NoSession THEN [t EXCEPT !.pc = "init", !.sent = epoch]
                   ELSE [t EXCEPT !.pc = "negotiate", !.sent = 1]

\* Mutant: nobody takes the lock.
EnsureUnlocked(c, s, t) ==
  /\ task' = [task EXCEPT ![c] = IF s # NoSession /\ negotiated
                                 THEN Posting(t, s) ELSE Locked(t, s)]
  /\ UNCHANGED lockq

\* s is _session_id as the caller finds it.  asyncio.Lock is fair: a
\* newcomer queues behind a waiter that has been woken and has not run yet.
Ensure(c, s, t) ==
  \/ /\ s # NoSession /\ negotiated
     /\ task' = [task EXCEPT ![c] = Posting(t, s)]
     /\ UNCHANGED lockq
  \/ /\ s = NoSession \/ ~negotiated
     /\ task' = [task EXCEPT ![c] = IF lockq = <<>> THEN Locked(t, s) ELSE Waiting(t)]
     /\ lockq' = Append(lockq, c)

\* Mutant: the session is not looked at again once the lock is there.
LockGrantedUnchecked(c) ==
  /\ lockq # <<>> /\ Head(lockq) = c
  /\ task[c].pc = "waiting"
  /\ task' = [task EXCEPT ![c] = Locked(@, NoSession)]
  /\ UNCHANGED <<br, epoch, issued, sid, negotiated, lockq>>

\* The lock's turn comes: someone else may have done all the work.
LockGranted(c) ==
  /\ lockq # <<>> /\ Head(lockq) = c
  /\ task[c].pc = "waiting"
  /\ IF sid # NoSession /\ negotiated
     THEN task' = [task EXCEPT ![c] = Posting(@, sid)] /\ lockq' = Tail(lockq)
     ELSE task' = [task EXCEPT ![c] = Locked(@, sid)] /\ UNCHANGED lockq
  /\ UNCHANGED <<br, epoch, issued, sid, negotiated>>

\* initialize is answered with a session of its own, by an incarnation that
\* ran while it was under way.
InitSucceeds(c) ==
  /\ task[c].pc = "init"
  /\ Len(issued) < MaxSessions
  /\ \E e \in task[c].sent .. epoch : issued' = Append(issued, e)
  /\ sid' = Len(issued) + 1
  /\ IF negotiated
     THEN task' = [task EXCEPT ![c] = Posting(@, sid')] /\ lockq' = Tail(lockq)
     ELSE task' = [task EXCEPT ![c] = Locked(@, sid')] /\ UNCHANGED lockq
  /\ UNCHANGED <<br, epoch, negotiated>>

\* tools/list and profile_info are best effort: whatever comes back, the
\* capabilities count as negotiated.
Negotiated(c) ==
  /\ task[c].pc = "negotiate"
  /\ negotiated' = TRUE
  /\ task' = [task EXCEPT ![c] = Posting(@, sid)]
  /\ lockq' = Tail(lockq)
  /\ UNCHANGED <<br, epoch, issued, sid>>

-----------------------------------------------------------------------------
(* _http_mcp_call and _post_tools_call.                                    *)

\* A call the breaker lets through (one it refuses changes nothing).
Call(c) ==
  /\ task[c].pc = "idle"
  /\ ~Blocking(br)
  /\ br' = Checked(br)
  /\ Ensure(c, sid, Idle)
  /\ UNCHANGED <<epoch, issued, sid, negotiated>>

\* Mutant: one retry too many.
AttemptFailsOnceMore(c) ==
  LET b == Failure(br) IN
  /\ br' = Checked(b)
  /\ task' = [task EXCEPT ![c] =
       IF Blocking(b) \/ @.attempt = Attempts THEN Idle
       ELSE [Idle EXCEPT !.pc = "backoff", !.attempt = task[c].attempt + 1]]

\* One iteration of the retry loop ends in an exception.
AttemptFails(c) ==
  LET b == Failure(br) IN
  /\ br' = Checked(b)
  /\ task' = [task EXCEPT ![c] =
       IF Blocking(b) \/ @.attempt = Attempts - 1 THEN Idle
       ELSE [Idle EXCEPT !.pc = "backoff", !.attempt = task[c].attempt + 1]]

\* The back-off sleep is over: the next attempt.
BackoffEnds(c) ==
  /\ task[c].pc = "backoff"
  /\ Ensure(c, sid, task[c])
  /\ UNCHANGED <<br, epoch, issued, sid, negotiated>>

\* Mutant: the exception skips the release of the lock.
InitFailsLocked(c) ==
  /\ Faulty
  /\ task[c].pc = "init"
  /\ AttemptFails(c)
  /\ UNCHANGED <<epoch, issued, sid, negotiated, lockq>>

InitFails(c) ==
  /\ Faulty
  /\ task[c].pc = "init"
  /\ lockq' = Tail(lockq)
  /\ AttemptFails(c)
  /\ UNCHANGED <<epoch, issued, sid, negotiated>>

\* The post reached the brain while it knew the session.
PostSucceeds(c) ==
  /\ task[c].pc = "post"
  /\ issued[task[c].sid] >= task[c].sent
  /\ br' = Success(br)
  /\ task' = [task EXCEPT ![c] = Idle]
  /\ UNCHANGED <<epoch, issued, sid, negotiated, lockq>>

PostFails(c) ==
  /\ Faulty
  /\ task[c].pc = "post"
  /\ AttemptFails(c)
  /\ UNCHANGED <<epoch, issued, sid, negotiated, lockq>>

\* The post is answered 400 or 404: by a brain that has restarted since it
\* issued the session, or by one that knows the session but not the project,
\* or refuses the request for a reason of its own.
Rejected(c) ==
  /\ task[c].pc = "post"
  /\ issued[task[c].sid] < epoch \/ Faulty

\* Mutant: capabilities are to be negotiated again with the new brain.
PostRejectedRenegotiate(c) ==
  /\ Rejected(c)
  /\ negotiated' = FALSE
  /\ \/ /\ sid # NoSession /\ ~task[c].again
        /\ sid' = NoSession
        /\ task' = [task EXCEPT ![c] = IF lockq = <<>>
                                       THEN Locked([@ EXCEPT !.again = TRUE], NoSession)
                                       ELSE Waiting([@ EXCEPT !.again = TRUE])]
        /\ lockq' = Append(lockq, c)
        /\ UNCHANGED br
     \/ /\ sid = NoSession \/ task[c].again
        /\ AttemptFails(c)
        /\ UNCHANGED <<sid, lockq>>
  /\ UNCHANGED <<epoch, issued>>

\* Mutant: the rejected session stays where the next handshake looks.
PostRejectedKeepsSession(c) ==
  /\ Rejected(c)
  /\ \/ /\ sid # NoSession /\ ~task[c].again
        /\ Ensure(c, sid, [task[c] EXCEPT !.again = TRUE])
        /\ UNCHANGED <<br, sid>>
     \/ /\ sid = NoSession \/ task[c].again
        /\ AttemptFails(c)
        /\ UNCHANGED <<sid, lockq>>
  /\ UNCHANGED <<epoch, issued, negotiated>>

\* Mutant: the post after a rejection does not know that it is one.
PostRejectedAgain(c) ==
  /\ Rejected(c)
  /\ \/ /\ sid # NoSession
        /\ sid' = NoSession
        /\ Ensure(c, NoSession, task[c])
        /\ UNCHANGED br
     \/ /\ sid = NoSession
        /\ AttemptFails(c)
        /\ UNCHANGED <<sid, lockq>>
  /\ UNCHANGED <<epoch, issued, negotiated>>

\* The first rejection drops whatever session is current, be it the rejected
\* one or not, known to the brain or not, and posts again with a fresh one; the
\* second one, or one that finds no session to drop (someone else is shaking
\* hands), is a failed attempt.
PostRejected(c) ==
  /\ Rejected(c)
  /\ \/ /\ sid # NoSession /\ ~task[c].again
        /\ sid' = NoSession
        /\ Ensure(c, NoSession, [task[c] EXCEPT !.again = TRUE])
        /\ UNCHANGED br
     \/ /\ sid = NoSession \/ task[c].again
        /\ AttemptFails(c)
        /\ UNCHANGED <<sid, lockq>>
  /\ UNCHANGED <<epoch, issued, negotiated>>

\* The caller is cancelled, or the tool is outside the brain's profile: the
\* lock is released or left, nothing is recorded.
Without(q, k) == [i \in 1 .. Len(q) - 1 |-> IF i < k THEN q[i] ELSE q[i + 1]]

Abandon(c) ==
  /\ task[c].pc # "idle"
  /\ task' = [task EXCEPT ![c] = Idle]
  /\ \/ /\ \A k \in DOMAIN lockq : lockq[k] # c
        /\ UNCHANGED lockq
     \/ \E k \in DOMAIN lockq :
          /\ lockq[k] = c
          /\ lockq' = Without(lockq, k)
  /\ UNCHANGED <<br, epoch, issued, sid, negotiated>>

-----------------------------------------------------------------------------
(* The environment and the clock.                                          *)

Restart ==
  /\ epoch < MaxEpoch
  /\ epoch' = epoch + 1
  /\ UNCHANGED <<br, issued, sid, negotiated, lockq, task>>

Tick ==
  /\ Blocking(br)
  /\ br' = Older(br)
  /\ UNCHANGED <<epoch, issued, sid, negotiated, lockq, task>>

\* What the event loop or the end of an await makes caller c do.
Continues(c) ==
  \/ LockGranted(c) \/ InitSucceeds(c) \/ InitFails(c) \/ Negotiated(c)
  \/ PostSucceeds(c) \/ PostRejected(c) \/ PostFails(c) \/ BackoffEnds(c)

Next ==
  \/ \E c \in Callers : Call(c) \/ Continues(c) \/ Abandon(c)
  \/ Restart
  \/ Tick

Spec == Init /\ [][Next]_vars

\* Sleeps and requests end (there is a 30 s timeout) and the loop runs what
\* is ready.  Nobody owes a call, a cancellation or a restart.
FairSpec == Spec /\ WF_vars(Tick) /\ \A c \in Callers : WF_vars(Continues(c))

-----------------------------------------------------------------------------
(* Properties.                                                             *)

\* Every variable has its type; a session in use has been issued.
TypeOK ==
  /\ br \in Breakers
  /\ epoch \in Epochs
  /\ issued \in Seq(Epochs) /\ Len(issued) <= MaxSessions
  /\ sid \in 0 .. Len(issued)
  /\ negotiated \in BOOLEAN
  /\ lockq \in Seq(Callers)
  /\ task \in [Callers -> Tasks]
  /\ \A c \in Callers : task[c].sid <= Len(issued)

\* The lock is held by the caller that shakes hands or negotiates, which is
\* therefore the only one; everybody else who needs it waits in line, once.
InHandshake(c) == task[c].pc \in {"init", "negotiate"}
Elems(q) == {q[i] : i \in DOMAIN q}
Distinct(q) == \A i, j \in DOMAIN q : q[i] = q[j] => i = j

HandshakeHoldsLock ==
  /\ \A c \in Callers : InHandshake(c) => lockq # <<>> /\ Head(lockq) = c
  /\ \A c \in Callers :
       c \in Elems(lockq) <=> InHandshake(c) \/ task[c].pc = "waiting"
  /\ Distinct(lockq)

\* _ensure_session's closing assertion, and the header of negotiation's own
\* requests: the session cannot be dropped by a late rejection while a caller
\* negotiates with it.
NegotiatesWithSession ==
  \A c \in Callers : task[c].pc = "negotiate" => sid # NoSession

\* A handshake never replaces a session that nobody has dropped: waiters who
\* find that someone else did the work use it.
NoRedundantHandshake ==
  [][sid # NoSession => sid' \in {sid, NoSession}]_vars

\* The post after a rejection goes out with a session issued after the rejected
\* one, by whomever: the retry never repeats a session that was refused, whether
\* the brain that issued it is gone or still runs, and whatever sessions other
\* callers establish and drop between the rejection and the retry.
RetryUsesFreshSession ==
  [][\A c \in Callers :
       task'[c].again /\ task'[c].pc = "post" /\ task'[c] # task[c]
         => task'[c].sid > task[c].sid]_vars

\* How far a call has come: attempts first, then the one rejection an attempt
\* is allowed, then the way to the post.
Stage == [backoff |-> 0, waiting |-> 1, init |-> 2, negotiate |-> 3, post |-> 4]
Progress(t) == 9 * t.attempt + (IF t.again THEN 4 ELSE 0) + Stage[t.pc]

\* Why every call ends: whatever a call does short of ending takes it further
\* than it ever was.  However restarts, rejections and failures follow each
\* other, it takes fewer than 9 * Attempts steps: never a third post in one
\* attempt, never two handshakes in a row, never an attempt too many.
CallProgress ==
  [][\A c \in Callers :
       task'[c] # task[c] /\ task[c].pc # "idle" /\ task'[c].pc # "idle"
         => /\ Progress(task[c]) < Progress(task'[c])
            /\ Progress(task'[c]) < 9 * Attempts]_vars

\* Every call ends, whoever holds the lock when a request fails or a caller
\* is cancelled.
CallsEnd == \A c \in Callers : []<>(task[c].pc = "idle")

\* _post_tools_call: "if the server rejects the session, drop it and retry
\* once with a fresh handshake ... common after brain restart".  A restart of
\* a brain that answers every request is absorbed: it cannot open the breaker.
RestartKeepsBreakerClosed == ~Faulty => ~br.open
=============================================================================
