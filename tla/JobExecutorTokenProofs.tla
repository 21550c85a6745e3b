----------------------- MODULE JobExecutorTokenProofs -----------------------
(***************************************************************************)
(* Theorems about JobExecutor: how often a job is executed, and jobs and   *)
(* the tokens they belong to.  The former need that thread names identify  *)
(* threads; so do most of the latter, which hold until the first Error:    *)
(* then a continuation may be executed again although its token was        *)
(* unlocked and has moved on.                                              *)
(***************************************************************************)
EXTENDS JobExecutorProofs

USE DEF vars, threadVars, bounds, history

\* The configuration of the job executors: names are unique and a job
\* executor is restarted only after its threads have ended (stopAndJoin).
NamesIdentifyThreads ==
  Joins /\ \A e, f \in Executor : GroupName[e] = GroupName[f] => e = f

\* Job j is going to be executed, and will act on its token.
Pending(j) == Stored(j) /\ (j \in Timers \/ (j \in NodeJobs /\ jobs[j].retries > 0))

\* The token of j is where j was created, and locked by it if it must be.
AtHome(j) ==
  /\ tokens[TokenOf[j]].node = NodeOf[j]
  /\ j \in NodeJobs => tokens[TokenOf[j]].lock = j

HomeInv == \A j \in Job : Pending(j) => AtHome(j)

\* The threads of an executor that are alive belong to its last start.
LastStartInv == \A t \in Thread : Alive(t) => t[2] = starts[t[1]]

\* A job has one try, which a thread that holds the job has not yet used.
TryInv(t, j) ==
  /\ Holds(t, j) /\ Stored(j) => jobs[j].retries > 0
  /\ pc[t] = "acquire" /\ j \in todo[t] =>
       /\ snapshot[t][j].retries > 0
       /\ j \in stale[t] \/ ~Stored(j) \/ jobs[j].retries > 0
  /\ snapshot[t][j].retries <= 1

RetriesInv ==
  /\ \A j \in Job : jobs[j].retries <= 1
  /\ \A t \in Thread : current[t] \notin todo[t]
  /\ \A t \in Thread, j \in Job : TryInv(t, j)

HeldInv == IndInv /\ LastStartInv /\ RetriesInv

\* What holds until the first Error, and the invariant.
TokenInv == HeldInv /\ HomeInv
CalmInv == HeldInv /\ (errors = 0 => HomeInv)

LEMMA TokenTypes ==
  ASSUME HeldInv, NEW j \in Job
  PROVE  /\ jobs[j] \in Row /\ jobs[j].retries \in Int
         /\ TokenOf[j] \in Token /\ NodeOf[j] \in 0 .. (LastNode - 1)
         /\ tokens[TokenOf[j]] \in TokenRow
         /\ \A t \in Thread : snapshot[t][j] \in Row /\ snapshot[t][j].retries \in Int
  BY ConstantsAssumption DEF HeldInv, IndInv, TypeInv, TypeOK, Row

\* A job is in the hands of one thread at a time.
LEMMA OneHolder ==
  ASSUME HeldInv, NamesIdentifyThreads, NEW t \in Thread, NEW u \in Thread, NEW j \in Job,
         Holds(t, j), Holds(u, j)
  PROVE  t = u
<1>1. ThreadName(t) = ThreadName(u)
  BY DEF HeldInv, IndInv, LockDiscipline
<1>2. t[1] = u[1] /\ t[3] = u[3]
  BY <1>1 DEF ThreadName, Thread, NamesIdentifyThreads
<1>3. t[2] = u[2]
  BY <1>2 DEF HeldInv, LastStartInv, Alive, Holds
<1>4. QED
  BY <1>2, <1>3 DEF Thread
-----------------------------------------------------------------------------
(* The threads that are alive belong to the last start.                    *)

\* A step of a thread that is alive, or a step of no thread.
LEMMA LastStartKept ==
  ASSUME LastStartInv, UNCHANGED starts, \A t \in Thread : Alive(t)' => Alive(t)
  PROVE  LastStartInv'
  BY DEF LastStartInv

LEMMA LastStartStep ==
  ASSUME TypeInv, LastStartInv, NamesIdentifyThreads, Next
  PROVE  LastStartInv'
<1>1. ASSUME NEW t \in Thread, ThreadStep(t) \/ ErrorStep(t)
      PROVE  LastStartInv'
  <2>1. UNCHANGED starts /\ Alive(t)
    BY <1>1 DEF ThreadStep, Leave, AcquireNothing, Acquire, AcquireCommit, AcquireStale, Wake,
                Load, LoadMissing, ExecuteAndStay, ExecuteAndLeave, ExecuteFails,
                ExecuteFailsLater, ExecuteRollback, ErrorStep, ExecuteError, ExecuteErrorLater,
                ExecuteErrorStale, ErrorEnds,
                Alive
  <2>2. \A u \in Thread : u # t => pc'[u] = pc[u]
    BY <1>1 DEF ThreadStep, Leave, AcquireNothing, Acquire, AcquireCommit, AcquireStale, Wake,
                Load, LoadMissing, ExecuteAndStay, ExecuteAndLeave, ExecuteFails,
                ExecuteFailsLater, ExecuteRollback, ErrorStep, ExecuteError, ExecuteErrorLater,
                ExecuteErrorStale, ErrorEnds,
                Drop, Finish, TypeInv, TypeOK
  <2>3. QED
    BY <2>1, <2>2, LastStartKept DEF Alive
<1>2. ASSUME NEW e \in Executor, Start(e)
      PROVE  LastStartInv'
  <2> SUFFICES ASSUME NEW t \in Thread, Alive(t)'
               PROVE  t[2] = starts'[t[1]]
    BY DEF LastStartInv
  <2>1. t[1] \in Executor /\ starts[e] \in Nat
    BY DEF Thread, TypeInv, TypeOK
  <2>2. CASE t \in ThreadsOf(e, starts[e] + 1)
    BY <1>2, <2>1, <2>2 DEF Start, ThreadsOf, TypeInv, TypeOK
  <2>3. CASE t \notin ThreadsOf(e, starts[e] + 1)
    <3>1. Alive(t)
      BY <1>2, <2>3 DEF Start, Alive
    <3>2. t[1] # e
      BY <1>2, <3>1 DEF Start, NamesIdentifyThreads, Alive
    <3>3. QED
      BY <1>2, <2>1, <3>1, <3>2 DEF Start, LastStartInv, TypeInv, TypeOK
  <2>4. QED
    BY <2>2, <2>3
<1>3. ASSUME NEW e \in Executor, Stop(e) \/ Crash(e)
      PROVE  LastStartInv'
  BY <1>3, LastStartKept DEF Stop, Crash, Alive
<1>4. ASSUME (\E tk \in Token : Signal(tk)) \/ Tick
             \/ (\E p \in ProcessInstance : Suspend(p) \/ Resume(p) \/ End(p))
      PROVE  LastStartInv'
  BY <1>4, LastStartKept DEF Signal, Suspend, Resume, SetSuspended, End, Tick, Alive
<1>5. QED
  BY <1>1, <1>2, <1>3, <1>4 DEF Next
-----------------------------------------------------------------------------
(* Tries.                                                                  *)

\* A step does not use up the try of job j.
TryKept(j) ==
  /\ jobs'[j].retries <= 1
  /\ Stored(j)' => jobs'[j].retries > 0 \/ (Stored(j) /\ jobs'[j].retries = jobs[j].retries)

LEMMA TryUndisturbed ==
  ASSUME HeldInv, NEW u \in Thread, NEW j \in Job, SameThread(u), TryKept(j)
  PROVE  TryInv(u, j)'
<1>1. TryInv(u, j)
  BY DEF HeldInv, RetriesInv
<1>2. Holds(u, j)' = Holds(u, j)
  BY DEF SameThread, Holds
<1>3. QED
  BY <1>1, <1>2 DEF SameThread, TryInv, TryKept, Stored

\* A thread with nothing in hand.
LEMMA TryNothingInHand ==
  ASSUME HeldInv, NEW u \in Thread, NEW j \in Job, TryKept(j),
         pc'[u] \notin {"acquire", "run", "execute"},
         snapshot'[u][j].retries <= 1
  PROVE  TryInv(u, j)'
  BY DEF TryInv, TryKept, Holds

LEMMA SameRetries ==
  ASSUME HeldInv, NEW j \in Job, jobs'[j] = jobs[j]
  PROVE  TryKept(j)
  BY DEF HeldInv, RetriesInv, TryKept, Stored

\* The rows after a token has left a node: new rows have a try.
LEMMA LeaveKeepsTries ==
  ASSUME HeldInv, NEW tk \in Token, NEW n \in 0 .. (LastNode - 1),
         NEW j \in Job, jobs'[j] = LeaveJobs(tk, n)[j]
  PROVE  TryKept(j)
<1>1. CASE j \in LeaveDeletes(tk, n)
  <2>1. jobs'[j] = [jobs[j] EXCEPT !.status = "deleted"] /\ jobs[j] \in Row
    BY <1>1, TokenTypes DEF LeaveJobs
  <2>2. QED
    BY <2>1 DEF TryKept, Row, HeldInv, RetriesInv, Stored
<1>2. CASE j \notin LeaveDeletes(tk, n) /\ j \in CreatedAt(tk, n + 1)
  BY <1>2 DEF LeaveJobs, NewRow, TryKept
<1>3. CASE j \notin LeaveDeletes(tk, n) /\ j \notin CreatedAt(tk, n + 1)
  BY <1>3, SameRetries DEF LeaveJobs
<1>4. QED
  BY <1>1, <1>2, <1>3

\* Steps of t, after which it has nothing in hand.
LEMMA TryDrop ==
  ASSUME HeldInv, NEW t \in Thread, NEW p \in {"idle", "wait", "dead"}, Drop(t, p),
         \A j \in Job : TryKept(j), \A u \in Thread : u # t => SameThread(u)
  PROVE  RetriesInv'
<1>1. \A j \in Job : jobs'[j].retries <= 1
  BY DEF TryKept
<1>2. \A u \in Thread : current'[u] \notin todo'[u]
  BY DEF Drop, SameThread, HeldInv, RetriesInv, IndInv, TypeInv, TypeOK
<1>3. \A j \in Job : snapshot'[t][j].retries <= 1 /\ pc'[t] = p
  BY DEF Drop, BlankSnapshot, BlankRow, HeldInv, IndInv, TypeInv, TypeOK
<1>4. \A u \in Thread, j \in Job : TryInv(u, j)'
  BY <1>3, TryUndisturbed, TryNothingInHand
<1>5. QED
  BY <1>1, <1>2, <1>4 DEF RetriesInv

\* The transactions that execute a job and commit: the job that may lose its
\* try is in nobody else's hands, and the sessions about to lock it are stale.
LEMMA TrySettle ==
  ASSUME HeldInv, NamesIdentifyThreads, NEW t \in Thread, pc[t] = "execute", Finish(t),
         NEW W, Commit(t, W), NEW c, c = current[t],
         jobs'[c].retries <= 1,
         c \in W \/ TryKept(c),
         \A j \in Job : j # c => TryKept(j)
  PROVE  RetriesInv'
<1>0. c \in Job
  BY DEF HeldInv, IndInv, TypeInv, CurrentInv
<1>1. \A j \in Job : jobs'[j].retries <= 1
  BY DEF TryKept
<1>2. \A u \in Thread : u # t => SameThread(u)
  BY OtherThreads DEF SameThread, HeldInv
<1>3. /\ pc'[t] \in {"idle", "run"} /\ current'[t] = None /\ todo'[t] = todo[t]
      /\ \A j \in Job : snapshot'[t][j] \in {snapshot[t][j], BlankRow}
  BY <1>0 DEF Finish, BlankSnapshot, HeldInv, IndInv, TypeInv, TypeOK
<1>4. \A u \in Thread : current'[u] \notin todo'[u]
  BY <1>2, <1>3, NoneIsNoOwner DEF SameThread, HeldInv, RetriesInv, IndInv, TypeInv, TypeOK
<1>5. \A j \in Job : TryInv(t, j)'
  <2> TAKE j \in Job
  <2>1. TryInv(t, j) /\ c \notin todo[t]
    BY DEF HeldInv, RetriesInv
  <2>2. Holds(t, j)' => j # c /\ Holds(t, j)
    BY <1>3, <2>1, NoneIsNoOwner DEF Holds
  <2>3. snapshot'[t][j].retries <= 1
    BY <1>3, <2>1 DEF TryInv, BlankRow
  <2>4. QED
    BY <1>3, <2>1, <2>2, <2>3 DEF TryInv, TryKept, Stored
<1>6. ASSUME NEW u \in Thread, u # t, NEW j \in Job
      PROVE  TryInv(u, j)'
  <2>1. CASE TryKept(j)
    BY <1>2, <1>6, <2>1, TryUndisturbed
  <2>2. CASE ~TryKept(j)
    <3>1. j = c /\ c \in W
      BY <2>2
    <3>2. Holds(t, c)
      BY DEF Holds
    <3>3. ~Holds(u, j)
      BY <1>6, <3>1, <3>2, OneHolder
    <3>4. pc[u] = "acquire" /\ j \in todo[u] => j \in stale'[u]
      BY <1>6, <3>1 DEF Commit, Reads
    <3>5. TryInv(u, j) /\ SameThread(u)
      BY <1>2, <1>6 DEF HeldInv, RetriesInv
    <3>6. ~Holds(u, j)'
      BY <3>3, <3>5 DEF Holds, SameThread
    <3>7. QED
      BY <3>4, <3>5, <3>6 DEF SameThread, TryInv
  <2>3. QED
    BY <2>1, <2>2
<1>7. QED
  BY <1>1, <1>4, <1>5, <1>6 DEF RetriesInv

\* What an execution leaves of the tries.
LEMMA ExecutedTries ==
  ASSUME HeldInv, NEW t \in Thread, pc[t] = "execute", Valid(t)
  PROVE  LET j == current[t] IN
         /\ j \in Job /\ Stored(j) /\ jobs[j].retries = 1
         /\ FailedRow(t, j).retries <= 0
         /\ DoneRow(t, j).retries <= 1
         /\ [jobs[j] EXCEPT !.status = "deleted"].retries <= 1
<1> DEFINE j == current[t]
<1>1. j \in Job /\ Stored(j) /\ Holds(t, j)
  BY ExecutionKeepsRows DEF HeldInv, Holds
<1>2. TryInv(t, j) /\ jobs[j].retries <= 1
  BY <1>1 DEF HeldInv, RetriesInv
<1>3. jobs[j] \in Row /\ snapshot[t][j] \in Row
      /\ jobs[j].retries \in Int /\ snapshot[t][j].retries \in Int
  BY <1>1, TokenTypes
<1>4. jobs[j].retries = 1 /\ snapshot[t][j].retries <= 1
  BY <1>1, <1>2, <1>3 DEF TryInv
<1>5. FailedRow(t, j).retries = snapshot[t][j].retries - 1
  BY <1>3 DEF FailedRow, Row
<1>6. DoneRow(t, j).retries \in {jobs[j].retries, snapshot[t][j].retries}
  BY <1>3 DEF DoneRow, Row
<1>7. [jobs[j] EXCEPT !.status = "deleted"].retries = jobs[j].retries
  BY <1>3 DEF Row
<1>8. QED
  BY <1>1, <1>3, <1>4, <1>5, <1>6, <1>7

LEMMA RetriesThreadStep ==
  ASSUME HeldInv, NamesIdentifyThreads, NEW t \in Thread, ThreadStep(t)
  PROVE  RetriesInv'
<1> SUFFICES ASSUME NEW c, c = current[t]
             PROVE  RetriesInv'
  OBVIOUS
<1> DEFINE tk == TokenOf[c]
           n == NodeOf[c]
<1>a. UNCHANGED jobs => \A j \in Job : TryKept(j)
  BY SameRetries
<1>b. pc[t] = "execute" => tk \in Token /\ n \in 0 .. (LastNode - 1)
  BY TokenTypes DEF HeldInv, IndInv, TypeInv, CurrentInv
<1>1. CASE Leave(t) \/ AcquireNothing(t) \/ LoadMissing(t) \/ AcquireStale(t)
  <2>1. UNCHANGED jobs /\ \E p \in {"idle", "wait", "dead"} : Drop(t, p)
    BY <1>1 DEF Leave, AcquireNothing, LoadMissing, AcquireStale
  <2>2. \A u \in Thread : u # t => SameThread(u)
    BY <1>1, <2>1, OtherThreads
       DEF SameThread, HeldInv, Leave, AcquireNothing, LoadMissing, AcquireStale
  <2>3. QED
    BY <1>a, <2>1, <2>2, TryDrop
<1>2. CASE Acquire(t)
  <2>1. PICK k \in FirstAcquirable(ThreadName(t)) :
          /\ todo' = [todo EXCEPT ![t] = JobsToLock(k, ThreadName(t))]
          /\ snapshot' = [snapshot EXCEPT ![t] =
               [i \in Job |-> IF i \in JobsToLock(k, ThreadName(t))
                              THEN Locked(jobs[i], ThreadName(t)) ELSE BlankRow]]
    BY <1>2 DEF Acquire
  <2>2. \A i \in JobsToLock(k, ThreadName(t)) : i \in Job /\ jobs[i].retries > 0
    BY <2>1, ConstantsAssumption DEF FirstAcquirable, JobsToLock, Acquirable
  <2>3. \A u \in Thread : u # t => SameThread(u)
    BY <1>2, <2>1 DEF Acquire, SameThread, HeldInv, IndInv, TypeInv, TypeOK
  <2>4. /\ UNCHANGED jobs /\ pc'[t] = "acquire" /\ current'[t] = None
        /\ todo'[t] = JobsToLock(k, ThreadName(t))
    BY <1>2, <2>1 DEF Acquire, HeldInv, IndInv, TypeInv, TypeOK, CurrentInv
  <2>5. \A i \in Job : Locked(jobs[i], ThreadName(t)).retries = jobs[i].retries
    BY TokenTypes DEF Locked, Row
  <2>6. \A i \in Job : TryInv(t, i)'
    <3> TAKE i \in Job
    <3>1. snapshot'[t][i] = IF i \in todo'[t] THEN Locked(jobs[i], ThreadName(t)) ELSE BlankRow
      BY <2>1, <2>4 DEF HeldInv, IndInv, TypeInv, TypeOK
    <3>2. snapshot'[t][i].retries <= 1
      BY <2>5, <3>1 DEF BlankRow, HeldInv, RetriesInv
    <3>3. QED
      BY <2>2, <2>4, <2>5, <3>1, <3>2 DEF TryInv, Holds
  <2>7. \A u \in Thread : current'[u] \notin todo'[u]
    BY <2>2, <2>3, <2>4, NoneIsNoOwner DEF SameThread, HeldInv, RetriesInv
  <2>8. \A u \in Thread, i \in Job : TryInv(u, i)'
    BY <1>a, <2>3, <2>4, <2>6, TryUndisturbed
  <2>9. \A i \in Job : jobs'[i].retries <= 1
    BY <2>4 DEF HeldInv, RetriesInv
  <2>10. QED
    BY <2>7, <2>8, <2>9 DEF RetriesInv
<1>3. CASE AcquireCommit(t)
  <2>1. /\ pc[t] = "acquire" /\ pc'[t] = "run"
        /\ UNCHANGED <<todo, current, snapshot>>
        /\ stale[t] = {} /\ \A j \in todo[t] : Stored(j)
        /\ \A j \in Job : jobs'[j] = IF j \in todo[t] THEN snapshot[t][j] ELSE jobs[j]
    BY <1>3 DEF AcquireCommit, Valid, HeldInv, IndInv, TypeInv, TypeOK
  <2>2. \A j \in Job : TryKept(j)
    <3> TAKE j \in Job
    <3>1. CASE j \in todo[t]
      BY <2>1, <3>1 DEF TryKept, TryInv, HeldInv, RetriesInv
    <3>2. CASE j \notin todo[t]
      BY <2>1, <3>2, SameRetries
    <3>3. QED
      BY <3>1, <3>2
  <2>3. \A u \in Thread : u # t => SameThread(u)
    BY <1>3, OtherThreads DEF AcquireCommit, SameThread, HeldInv, IndInv, TypeInv, TypeOK
  <2>4. \A j \in Job : TryInv(t, j)'
    <3> TAKE j \in Job
    <3>1. current[t] = None /\ TryInv(t, j)
      BY <2>1 DEF HeldInv, IndInv, TypeInv, CurrentInv, RetriesInv
    <3>2. Holds(t, j)' => j \in todo[t]
      BY <2>1, <3>1, NoneIsNoOwner DEF Holds
    <3>3. QED
      BY <2>1, <3>1, <3>2 DEF TryInv
  <2>5. \A u \in Thread, j \in Job : TryInv(u, j)'
    BY <2>2, <2>3, <2>4, TryUndisturbed
  <2>6. QED
    BY <2>1, <2>2, <2>5 DEF RetriesInv, TryKept, HeldInv
<1>4. CASE Wake(t)
  <2>1. /\ UNCHANGED <<jobs, todo, current, snapshot>>
        /\ pc'[t] = "idle" /\ \A u \in Thread : u # t => SameThread(u)
    BY <1>4 DEF Wake, SameThread, HeldInv, IndInv, TypeInv, TypeOK
  <2>2. \A j \in Job : snapshot'[t][j].retries <= 1
    BY <2>1 DEF HeldInv, RetriesInv, TryInv
  <2>3. \A u \in Thread, j \in Job : TryInv(u, j)'
    BY <1>a, <2>1, <2>2, TryUndisturbed, TryNothingInHand
  <2>4. QED
    BY <2>1, <2>3 DEF RetriesInv, HeldInv
<1>5. CASE Load(t)
  <2>1. PICK k \in todo[t] :
          /\ current' = [current EXCEPT ![t] = k]
          /\ todo' = [todo EXCEPT ![t] = @ \ {k}]
          /\ snapshot' = [snapshot EXCEPT ![t][k] = jobs[k]]
    BY <1>5 DEF Load, NextTodo
  <2>2. k \in Job /\ pc[t] = "run" /\ pc'[t] = "execute" /\ UNCHANGED jobs
    BY <1>5 DEF Load, HeldInv, IndInv, TypeInv, TypeOK
  <2>3. \A u \in Thread : u # t => SameThread(u)
    BY <1>5, <2>1 DEF Load, SameThread, HeldInv, IndInv, TypeInv, TypeOK
  <2>4. /\ current'[t] = k /\ todo'[t] = todo[t] \ {k}
        /\ \A j \in Job : snapshot'[t][j] \in {snapshot[t][j], jobs[j]}
    BY <2>1, <2>2 DEF HeldInv, IndInv, TypeInv, TypeOK
  <2>5. \A u \in Thread : current'[u] \notin todo'[u]
    BY <2>3, <2>4 DEF SameThread, HeldInv, RetriesInv
  <2>6. \A j \in Job : TryInv(t, j)'
    <3> TAKE j \in Job
    <3>1. Holds(t, j)' => Holds(t, j)
      BY <2>2, <2>4 DEF Holds
    <3>2. TryInv(t, j) /\ jobs[j].retries <= 1
      BY DEF HeldInv, RetriesInv
    <3>3. QED
      BY <2>2, <2>4, <3>1, <3>2 DEF TryInv, Stored
  <2>7. \A u \in Thread, j \in Job : TryInv(u, j)'
    BY <1>a, <2>2, <2>3, <2>6, TryUndisturbed
  <2>8. QED
    BY <2>2, <2>5, <2>7 DEF RetriesInv, HeldInv
<1>6. CASE ExecuteAndStay(t) \/ ExecuteFails(t)
  <2>1. /\ pc[t] = "execute" /\ Valid(t) /\ Finish(t) /\ Commit(t, {c, tk})
        /\ \/ jobs' = [jobs EXCEPT ![c] = DoneRow(t, c)]
           \/ jobs' = [jobs EXCEPT ![c] = FailedRow(t, c)]
    BY <1>6 DEF ExecuteAndStay, ExecuteFails
  <2>2. /\ c \in Job /\ FailedRow(t, c).retries <= 0 /\ FailedRow(t, c).retries \in Int
        /\ DoneRow(t, c).retries <= 1
    BY <2>1, ExecutedTries, ExecutedTypes DEF Row, HeldInv, IndInv, TypeInv
  <2>3. jobs'[c].retries <= 1 /\ \A j \in Job : j # c => jobs'[j] = jobs[j]
    BY <2>1, <2>2 DEF HeldInv, IndInv, TypeInv, TypeOK
  <2>4. QED
    BY <2>1, <2>3, SameRetries, TrySettle
<1>7. CASE ExecuteAndLeave(t) \/ ExecuteFailsLater(t)
  <2>1. /\ pc[t] = "execute" /\ Valid(t) /\ Finish(t) /\ Commit(t, {c, tk} \cup CancelledTimers(tk, n))
        /\ \/ jobs' = [LeaveJobs(tk, n) EXCEPT ![c] = [jobs[c] EXCEPT !.status = "deleted"]]
           \/ jobs' = [LeaveJobs(tk, n) EXCEPT ![c] =
                         IF @.status = "deleted" THEN @ ELSE FailedRow(t, c)]
    BY <1>7 DEF ExecuteAndLeave, ExecuteFailsLater
  <2>2. /\ c \in Job /\ FailedRow(t, c).retries <= 0 /\ FailedRow(t, c).retries \in Int
        /\ [jobs[c] EXCEPT !.status = "deleted"].retries <= 1
    BY <2>1, ExecutedTries, ExecutedTypes DEF Row, HeldInv, IndInv, TypeInv
  <2>3. LeaveJobs(tk, n) \in [Job -> Row]
    BY <1>b, <2>1, LeaveTypes DEF HeldInv, IndInv, TypeInv
  <2>4. \A j \in Job : j # c => TryKept(j)
    <3>1. \A j \in Job : j # c => jobs'[j] = LeaveJobs(tk, n)[j]
      BY <2>1, <2>3
    <3>2. QED
      BY <1>b, <2>1, <3>1, LeaveKeepsTries
  <2>5. jobs'[c].retries <= 1
    <3>1. CASE jobs'[c] = LeaveJobs(tk, n)[c]
      BY <1>b, <2>1, <2>2, <3>1, LeaveKeepsTries DEF TryKept
    <3>2. CASE jobs'[c] # LeaveJobs(tk, n)[c]
      <4>1. jobs'[c] \in {FailedRow(t, c), [jobs[c] EXCEPT !.status = "deleted"]}
        BY <2>1, <2>2, <2>3, <3>2
      <4>2. FailedRow(t, c).retries <= 1
        BY <2>2
      <4>3. QED
        BY <2>2, <4>1, <4>2, Zenon
    <3>3. QED
      BY <3>1, <3>2
  <2>6. QED
    BY <2>1, <2>4, <2>5, TrySettle
<1>8. CASE ExecuteRollback(t)
  <2>1. c \in Job
    BY <1>8 DEF ExecuteRollback, HeldInv, IndInv, TypeInv, CurrentInv
  <2>2. /\ pc[t] = "execute" /\ Finish(t) /\ Commit(t, {})
        /\ \A j \in Job : TryKept(j)
    BY <1>8, <1>a DEF ExecuteRollback
  <2>3. jobs'[c].retries <= 1
    BY <2>1, <2>2 DEF TryKept
  <2>4. QED
    BY <2>1, <2>2, <2>3, TrySettle
<1>9. QED
  BY <1>1, <1>2, <1>3, <1>4, <1>5, <1>6, <1>7, <1>8 DEF ThreadStep

\* An Error leaves the row of the job as it is.
LEMMA RetriesErrorStep ==
  ASSUME HeldInv, NEW t \in Thread, ErrorStep(t)
  PROVE  RetriesInv'
<1> DEFINE tk == TokenOf[current[t]]
           n == NodeOf[current[t]]
<1>1. pc[t] = "execute" /\ Drop(t, "dead")
  BY DEF ErrorStep, ExecuteError, ExecuteErrorLater, ExecuteErrorStale, ErrorEnds
<1>2. tk \in Token /\ n \in 0 .. (LastNode - 1)
  BY <1>1, TokenTypes DEF HeldInv, IndInv, TypeInv, CurrentInv
<1>3. UNCHANGED jobs \/ jobs' = LeaveJobs(tk, n)
  BY DEF ErrorStep, ExecuteError, ExecuteErrorLater, ExecuteErrorStale
<1>4. \A j \in Job : TryKept(j)
  BY <1>2, <1>3, SameRetries, LeaveKeepsTries
<1>5. \A u \in Thread : u # t => SameThread(u)
  BY <1>1, OtherThreads
     DEF SameThread, HeldInv, ErrorStep, ExecuteError, ExecuteErrorLater, ExecuteErrorStale
<1>6. QED
  BY <1>1, <1>4, <1>5, TryDrop

\* Steps that are no thread's: a thread keeps its state, starts or dies.
OtherStep ==
  \/ \E e \in Executor : Start(e) \/ Stop(e) \/ Crash(e)
  \/ \E tk \in Token : Signal(tk)
  \/ \E p \in ProcessInstance : Suspend(p) \/ Resume(p) \/ End(p)
  \/ Tick

LEMMA SignalledNode ==
  ASSUME HeldInv, NEW tk \in Token, Signal(tk)
  PROVE  tokens[tk].node \in 0 .. (LastNode - 1)
  BY ConstantsAssumption DEF Signal, HeldInv, IndInv, TypeInv, TypeOK, TokenRow

LEMMA RetriesOtherStep ==
  ASSUME HeldInv, OtherStep
  PROVE  RetriesInv'
<1>1. \A j \in Job : TryKept(j)
  <2> TAKE j \in Job
  <2>0. jobs[j] \in Row /\ jobs[j].retries <= 1
    BY TokenTypes DEF HeldInv, RetriesInv
  <2>1. CASE UNCHANGED jobs
    BY <2>1, SameRetries
  <2>2. ASSUME NEW tk \in Token, Signal(tk)
        PROVE  TryKept(j)
    BY <2>2, SignalledNode, LeaveKeepsTries DEF Signal
  <2>3. ASSUME NEW p \in ProcessInstance, NEW b \in BOOLEAN, SetSuspended(p, b)
        PROVE  TryKept(j)
    BY <2>0, <2>3 DEF SetSuspended, TryKept, Row, Stored
  <2>4. ASSUME NEW p \in ProcessInstance, End(p)
        PROVE  TryKept(j)
    <3>1. jobs'[j] = jobs[j] \/ jobs'[j] = [jobs[j] EXCEPT !.status = "deleted"]
      BY <2>4 DEF End
    <3>2. QED
      BY <2>0, <3>1 DEF TryKept, Row, Stored
  <2>5. QED
    BY <2>1, <2>2, <2>3, <2>4 DEF OtherStep, Start, Stop, Crash, Suspend, Resume, Tick
<1>2. \A u \in Thread :
        \/ SameThread(u)
        \/ /\ pc'[u] \notin {"acquire", "run", "execute"}
           /\ \/ snapshot'[u] = BlankSnapshot /\ todo'[u] = {}
              \/ snapshot'[u] = snapshot[u] /\ todo'[u] = todo[u] /\ current'[u] = current[u]
  <2>1. CASE \E e \in Executor : Start(e)
    BY <2>1 DEF Start, SameThread, HeldInv, IndInv, TypeInv, TypeOK
  <2>2. CASE \E e \in Executor : Stop(e)
    BY <2>2 DEF Stop, SameThread
  <2>3. CASE \E e \in Executor : Crash(e)
    BY <2>3 DEF Crash, SameThread
  <2>4. CASE \/ \E tk \in Token : Signal(tk)
             \/ \E p \in ProcessInstance : Suspend(p) \/ Resume(p) \/ End(p)
    BY <2>4 DEF Signal, Suspend, Resume, SetSuspended, End, ClientCommit, SameThread
  <2>5. CASE Tick
    BY <2>5 DEF Tick, SameThread
  <2>6. QED
    BY <2>1, <2>2, <2>3, <2>4, <2>5 DEF OtherStep
<1>3. ASSUME NEW u \in Thread
      PROVE  current'[u] \notin todo'[u] /\ \A j \in Job : TryInv(u, j)'
  <2>1. CASE SameThread(u)
    BY <1>1, <2>1, TryUndisturbed DEF SameThread, HeldInv, RetriesInv
  <2>2. CASE ~SameThread(u)
    <3>1. current'[u] \notin todo'[u]
      BY <1>2, <2>2 DEF SameThread, HeldInv, RetriesInv
    <3>2. \A j \in Job : snapshot'[u][j].retries <= 1
      BY <1>2, <2>2 DEF BlankSnapshot, BlankRow, SameThread, HeldInv, RetriesInv, TryInv
    <3>3. QED
      BY <1>1, <1>2, <2>2, <3>1, <3>2, TryNothingInHand
  <2>3. QED
    BY <2>1, <2>2
<1>4. QED
  BY <1>1, <1>3 DEF RetriesInv, TryKept
-----------------------------------------------------------------------------
(* How often a job is executed.                                            *)

\* A job that has not been executed but by Errors, or not at all, still has
\* its try; the others have been executed once more.
Once(j) ==
  /\ executed[j] <= 1 + errors
  /\ jobs[j].status = "new" => executed[j] = 0
  /\ Stored(j) /\ jobs[j].retries > 0 => executed[j] <= errors

OnceInv == \A j \in Job : Kind[j] # "RepeatTimer" => Once(j)

\* A step gives job j no new try.
NoNewTry(j) ==
  /\ jobs'[j].status = "new" => jobs[j].status = "new"
  /\ Stored(j)' /\ jobs'[j].retries > 0 =>
       jobs[j].status = "new" \/ (Stored(j) /\ jobs[j].retries > 0)

LEMMA SameRow ==
  ASSUME NEW j \in Job, jobs'[j] = jobs[j]
  PROVE  NoNewTry(j)
  BY DEF NoNewTry, Stored

LEMMA LeaveGivesNoTry ==
  ASSUME HeldInv, NEW tk \in Token, NEW n \in 0 .. (LastNode - 1), FirstEntry(tk, n),
         NEW j \in Job, jobs'[j] = LeaveJobs(tk, n)[j]
  PROVE  NoNewTry(j)
<1>1. CASE j \in LeaveDeletes(tk, n)
  <2>1. jobs'[j].status = "deleted"
    BY <1>1, TokenTypes DEF LeaveJobs, Row
  <2>2. QED
    BY <2>1 DEF NoNewTry, Stored
<1>2. CASE j \in CreatedAt(tk, n + 1)
  BY <1>2 DEF FirstEntry, NoNewTry
<1>3. CASE j \notin LeaveDeletes(tk, n) /\ j \notin CreatedAt(tk, n + 1)
  BY <1>3, SameRow DEF LeaveJobs
<1>4. QED
  BY <1>1, <1>2, <1>3

\* Steps that execute no job.
LEMMA OnceKept ==
  ASSUME HeldInv, OnceInv, UNCHANGED <<executed, errors>>, \A j \in Job : NoNewTry(j)
  PROVE  OnceInv'
<1>1. errors \in Nat /\ executed \in [Job -> Nat]
  BY DEF HeldInv, IndInv, TypeInv, TypeOK
<1>2. QED
  BY <1>1 DEF OnceInv, Once, NoNewTry, Stored

\* A job that a thread executes is in the table or has been deleted.
LEMMA CurrentIsNotNew ==
  ASSUME HeldInv, NEW t \in Thread, pc[t] = "execute"
  PROVE  /\ current[t] \in Job /\ jobs[current[t]].status # "new"
         /\ TokenOf[current[t]] \in Token /\ NodeOf[current[t]] \in 0 .. (LastNode - 1)
<1>1. current[t] \in Job /\ Holds(t, current[t])
  BY DEF HeldInv, IndInv, TypeInv, CurrentInv, Holds
<1>2. QED
  BY <1>1, TokenTypes DEF HeldInv, IndInv, LockDiscipline

\* A transaction executes its job, which is then deleted or has lost its try.
LEMMA OnceSettled ==
  ASSUME HeldInv, OnceInv, NEW t \in Thread, pc[t] = "execute", Valid(t),
         NEW c, c = current[t], Executed(t), UNCHANGED errors,
         Kind[c] # "RepeatTimer" => /\ jobs'[c].status # "new"
                                    /\ ~(Stored(c)' /\ jobs'[c].retries > 0),
         \A j \in Job : j # c => NoNewTry(j)
  PROVE  OnceInv'
<1>1. c \in Job /\ Stored(c) /\ jobs[c].retries = 1
  BY ExecutedTries
<1>2. errors \in Nat /\ executed \in [Job -> Nat]
  BY DEF HeldInv, IndInv, TypeInv, TypeOK
<1> SUFFICES ASSUME NEW j \in Job, Kind[j] # "RepeatTimer"
             PROVE  Once(j)'
  BY DEF OnceInv
<1>3. Once(j)
  BY DEF OnceInv
<1>4. CASE j = c
  <2>1. executed[c] <= errors /\ executed'[c] = executed[c] + 1
    BY <1>1, <1>2, <1>3, <1>4 DEF Once, Executed
  <2>2. QED
    BY <1>2, <1>4, <2>1 DEF Once
<1>5. CASE j # c
  <2>1. executed'[j] = executed[j]
    BY <1>2, <1>5 DEF Executed
  <2>2. QED
    BY <1>2, <1>3, <1>5, <2>1 DEF Once, NoNewTry, Stored
<1>6. QED
  BY <1>4, <1>5

LEMMA OnceThreadStep ==
  ASSUME HeldInv, OnceInv, NEW t \in Thread, ThreadStep(t)
  PROVE  OnceInv'
<1> SUFFICES ASSUME NEW c, c = current[t]
             PROVE  OnceInv'
  OBVIOUS
<1> DEFINE tk == TokenOf[c]
           n == NodeOf[c]
<1>1. CASE UNCHANGED <<jobs, executed, errors>>
  BY <1>1, SameRow, OnceKept
<1>2. CASE AcquireCommit(t)
  <2>1. /\ pc[t] = "acquire" /\ UNCHANGED <<executed, errors>>
        /\ stale[t] = {} /\ \A j \in todo[t] : Stored(j)
        /\ \A j \in Job : jobs'[j] = IF j \in todo[t] THEN snapshot[t][j] ELSE jobs[j]
    BY <1>2 DEF AcquireCommit, Valid
  <2>2. ASSUME NEW j \in Job
        PROVE  NoNewTry(j)
    <3>1. CASE j \in todo[t]
      <4>1. Stored(j) /\ jobs[j].retries > 0
        BY <2>1, <3>1 DEF HeldInv, RetriesInv, TryInv
      <4>2. snapshot[t][j].status = "stored"
        BY <2>1, <3>1 DEF HeldInv, IndInv, LockDiscipline
      <4>3. QED
        BY <2>1, <3>1, <4>1, <4>2 DEF NoNewTry, Stored
    <3>2. CASE j \notin todo[t]
      BY <2>1, <3>2, SameRow
    <3>3. QED
      BY <3>1, <3>2
  <2>3. QED
    BY <2>1, <2>2, OnceKept
<1>3. CASE ExecuteAndStay(t) \/ ExecuteFails(t)
  <2>1. /\ pc[t] = "execute" /\ Valid(t) /\ Executed(t) /\ UNCHANGED errors
        /\ \/ jobs' = [jobs EXCEPT ![c] = DoneRow(t, c)]
           \/ jobs' = [jobs EXCEPT ![c] = FailedRow(t, c)]
    BY <1>3 DEF ExecuteAndStay, ExecuteFails
  <2>2. /\ c \in Job /\ FailedRow(t, c).retries <= 0 /\ FailedRow(t, c).retries \in Int
        /\ jobs[c] \in Row /\ snapshot[t][c] \in Row /\ snapshot[t][c].status = "stored"
    BY <2>1, ExecutedTries, ExecutedTypes, TokenTypes, ExecutionKeepsRows
       DEF Row, HeldInv, IndInv, TypeInv
  <2>3. /\ FailedRow(t, c).status = "stored"
        /\ Kind[c] # "RepeatTimer" => DoneRow(t, c).status = "deleted"
    BY <2>2 DEF FailedRow, DoneRow, Row
  <2>4. \A j \in Job : j # c => NoNewTry(j)
    BY <2>1, SameRow DEF HeldInv, IndInv, TypeInv, TypeOK
  <2>5. jobs'[c] = DoneRow(t, c) \/ jobs'[c] = FailedRow(t, c)
    BY <2>1, <2>2 DEF HeldInv, IndInv, TypeInv, TypeOK
  <2>6. Kind[c] # "RepeatTimer" => /\ jobs'[c].status # "new"
                                   /\ ~(Stored(c)' /\ jobs'[c].retries > 0)
    BY <2>2, <2>3, <2>5 DEF Stored
  <2>7. QED
    BY <2>1, <2>4, <2>6, OnceSettled
<1>4. CASE ExecuteAndLeave(t) \/ ExecuteFailsLater(t)
  <2>1. /\ pc[t] = "execute" /\ Valid(t) /\ Executed(t) /\ UNCHANGED errors
        /\ FirstEntry(tk, n)
        /\ \/ jobs' = [LeaveJobs(tk, n) EXCEPT ![c] = [jobs[c] EXCEPT !.status = "deleted"]]
           \/ jobs' = [LeaveJobs(tk, n) EXCEPT ![c] =
                         IF @.status = "deleted" THEN @ ELSE FailedRow(t, c)]
    BY <1>4 DEF ExecuteAndLeave, ExecuteFailsLater
  <2>2. /\ c \in Job /\ FailedRow(t, c).retries <= 0 /\ FailedRow(t, c).retries \in Int
        /\ jobs[c] \in Row /\ snapshot[t][c] \in Row /\ snapshot[t][c].status = "stored"
        /\ tk \in Token /\ n \in 0 .. (LastNode - 1)
    BY <2>1, ExecutedTries, ExecutedTypes, TokenTypes, ExecutionKeepsRows
       DEF Row, HeldInv, IndInv, TypeInv
  <2>3. FailedRow(t, c).status = "stored" /\ [jobs[c] EXCEPT !.status = "deleted"].status = "deleted"
    BY <2>2 DEF FailedRow, Row
  <2>4. LeaveJobs(tk, n) \in [Job -> Row]
    BY <2>2, LeaveTypes DEF HeldInv, IndInv, TypeInv
  <2>5. \A j \in Job : j # c => NoNewTry(j)
    <3>1. \A j \in Job : j # c => jobs'[j] = LeaveJobs(tk, n)[j]
      BY <2>1, <2>4
    <3>2. QED
      BY <2>1, <2>2, <3>1, LeaveGivesNoTry
  <2>6. jobs'[c].status = "deleted" \/ jobs'[c] = FailedRow(t, c)
    BY <2>1, <2>2, <2>3, <2>4
  <2>7. jobs'[c].status # "new" /\ ~(Stored(c)' /\ jobs'[c].retries > 0)
    BY <2>2, <2>3, <2>6 DEF Stored
  <2>8. QED
    BY <2>1, <2>5, <2>7, OnceSettled
<1>5. QED
  BY <1>1, <1>2, <1>3, <1>4
     DEF ThreadStep, Leave, AcquireNothing, Acquire, AcquireStale, Wake, Load, LoadMissing,
         ExecuteRollback

\* An Error: the job keeps its try, and the Error is counted.
LEMMA OnceErrorStep ==
  ASSUME HeldInv, OnceInv, NEW t \in Thread, ErrorStep(t)
  PROVE  OnceInv'
<1> SUFFICES ASSUME NEW j \in Job, Kind[j] # "RepeatTimer"
             PROVE  Once(j)'
  BY DEF OnceInv
<1> DEFINE c == current[t]
           tk == TokenOf[c]
           n == NodeOf[c]
<1>1. errors \in Nat /\ executed \in [Job -> Nat]
  BY DEF HeldInv, IndInv, TypeInv, TypeOK
<1>2. /\ pc[t] = "execute" /\ errors' = errors + 1
      /\ UNCHANGED executed \/ Executed(t)
      /\ UNCHANGED jobs \/ (FirstEntry(tk, n) /\ jobs' = LeaveJobs(tk, n))
  BY DEF ErrorStep, ExecuteError, ExecuteErrorLater, ExecuteErrorStale, ErrorEnds
<1>3. c \in Job /\ jobs[c].status # "new" /\ tk \in Token /\ n \in 0 .. (LastNode - 1)
  BY <1>2, CurrentIsNotNew
<1>4. NoNewTry(j)
  BY <1>2, <1>3, SameRow, LeaveGivesNoTry
<1>5. executed'[j] = executed[j] \/ (j = c /\ executed'[j] = executed[j] + 1)
  BY <1>1, <1>2, <1>3 DEF Executed
<1>6. Once(j)
  BY DEF OnceInv
<1>7. QED
  BY <1>1, <1>2, <1>3, <1>4, <1>5, <1>6 DEF Once, NoNewTry, Stored

LEMMA OnceOtherStep ==
  ASSUME HeldInv, OnceInv, OtherStep
  PROVE  OnceInv'
<1>1. UNCHANGED <<executed, errors>>
  BY DEF OtherStep, Start, Stop, Crash, Signal, Suspend, Resume, SetSuspended, End, Tick
<1>2. ASSUME NEW j \in Job
      PROVE  NoNewTry(j)
  <2>0. jobs[j] \in Row
    BY TokenTypes
  <2>1. CASE UNCHANGED jobs
    BY <2>1, SameRow
  <2>2. ASSUME NEW tk \in Token, Signal(tk)
        PROVE  NoNewTry(j)
    BY <2>2, SignalledNode, LeaveGivesNoTry DEF Signal
  <2>3. ASSUME NEW p \in ProcessInstance, NEW b \in BOOLEAN, SetSuspended(p, b)
        PROVE  NoNewTry(j)
    BY <2>0, <2>3 DEF SetSuspended, NoNewTry, Row, Stored
  <2>4. ASSUME NEW p \in ProcessInstance, End(p)
        PROVE  NoNewTry(j)
    BY <2>0, <2>4 DEF End, NoNewTry, Row, Stored
  <2>5. QED
    BY <2>1, <2>2, <2>3, <2>4 DEF OtherStep, Start, Stop, Crash, Suspend, Resume, Tick
<1>3. QED
  BY <1>1, <1>2, OnceKept

LEMMA HeldInit == Init => HeldInv /\ OnceInv
<1> SUFFICES ASSUME Init PROVE HeldInv /\ OnceInv
  OBVIOUS
<1>1. IndInv
  BY IndInit
<1>2. LastStartInv
  BY DEF Init, LastStartInv, Alive
<1>3. \A j \in Job : jobs[j].retries = 1
  BY DEF Init, NewRow, BlankRow
<1>4. RetriesInv
  BY <1>3 DEF Init, RetriesInv, TryInv, Holds, BlankSnapshot, BlankRow
<1>5. OnceInv
  BY DEF Init, OnceInv, Once
<1>6. QED
  BY <1>1, <1>2, <1>4, <1>5 DEF HeldInv

LEMMA HeldStep ==
  ASSUME NamesIdentifyThreads, HeldInv, [Next]_vars
  PROVE  HeldInv'
<1>1. IndInv'
  BY IndStep DEF HeldInv
<1>2. CASE UNCHANGED vars
  BY <1>1, <1>2 DEF HeldInv, LastStartInv, Alive, RetriesInv, TryInv, Holds, Stored
<1>3. CASE Next
  <2>1. LastStartInv'
    BY <1>3, LastStartStep DEF HeldInv, IndInv
  <2>2. RetriesInv'
    BY <1>3, RetriesThreadStep, RetriesErrorStep, RetriesOtherStep DEF Next, OtherStep
  <2>3. QED
    BY <1>1, <2>1, <2>2 DEF HeldInv
<1>4. QED
  BY <1>2, <1>3

LEMMA OnceStep ==
  ASSUME NamesIdentifyThreads, HeldInv, OnceInv, [Next]_vars
  PROVE  OnceInv'
<1>1. CASE UNCHANGED vars
  BY <1>1 DEF OnceInv, Once, Stored
<1>2. CASE Next
  BY <1>2, OnceThreadStep, OnceErrorStep, OnceOtherStep DEF Next, OtherStep
<1>3. QED
  BY <1>1, <1>2

\* When thread names are unique, a job that does not repeat is executed in at
\* most one committed transaction, whatever the outcome, plus one per Error.
THEOREM ExecutedOncePerTry ==
  ASSUME NamesIdentifyThreads
  PROVE  Spec => []OneCommitPerError
<1>1. HeldInv /\ OnceInv /\ [Next]_vars => (HeldInv /\ OnceInv)'
  BY HeldStep, OnceStep
<1>2. HeldInv /\ OnceInv => OneCommitPerError
  BY DEF OnceInv, Once, OneCommitPerError
<1>3. QED
  BY <1>1, <1>2, HeldInit, PTL DEF Spec
-----------------------------------------------------------------------------
(* Tokens.                                                                 *)

USE DEF TokenInv

\* Steps that make no job pending and leave tokens where they are.
LEMMA HomeKept ==
  ASSUME TokenInv,
         \A j \in Job : Pending(j)' => Pending(j),
         \A tk \in Token : /\ tokens'[tk].node = tokens[tk].node
                           /\ tokens'[tk].lock = tokens[tk].lock
  PROVE  HomeInv'
<1> SUFFICES ASSUME NEW j \in Job, Pending(j)'
             PROVE  AtHome(j)'
  BY DEF HomeInv
<1>1. AtHome(j) /\ TokenOf[j] \in Token
  BY TokenTypes DEF HomeInv
<1>2. QED
  BY <1>1 DEF AtHome

\* The token stays in its node; a continuation unlocks it and is done.
LEMMA HomeStay ==
  ASSUME TokenInv, NEW j \in Job, Pending(j) \/ j \notin NodeJobs,
         tokens' = StayToken(j),
         \A i \in Job : Pending(i)' => Pending(i),
         j \in NodeJobs => ~Pending(j)'
  PROVE  HomeInv'
<1>1. CASE j \notin NodeJobs
  <2>1. tokens' = tokens
    BY <1>1 DEF StayToken, NodeJobs
  <2>2. QED
    BY <2>1, HomeKept
<1>2. CASE j \in NodeJobs
  <2> SUFFICES ASSUME NEW i \in Job, Pending(i)'
               PROVE  AtHome(i)'
    BY DEF HomeInv
  <2>1. AtHome(i) /\ AtHome(j) /\ i # j
    BY <1>2 DEF HomeInv
  <2>2. i \in NodeJobs => TokenOf[i] # TokenOf[j]
    BY <1>2, <2>1 DEF AtHome
  <2>3. /\ TokenOf[i] \in Token /\ TokenOf[j] \in Token
        /\ tokens \in [Token -> TokenRow]
    BY TokenTypes DEF HeldInv, IndInv, TypeInv, TypeOK
  <2>4. /\ tokens'[TokenOf[i]].node = tokens[TokenOf[i]].node
        /\ TokenOf[i] # TokenOf[j] => tokens'[TokenOf[i]] = tokens[TokenOf[i]]
    BY <2>3 DEF StayToken, TokenRow
  <2>5. QED
    BY <2>1, <2>2, <2>4 DEF AtHome
<1>3. QED
  BY <1>1, <1>2

\* The token leaves the node it is in: its timers are cancelled, no other
\* continuation of it is pending, and the jobs of the next node are created.
LEMMA HomeLeave ==
  ASSUME TokenInv, NEW tk \in Token, NEW n \in 0 .. (LastNode - 1),
         tokens[tk].node = n,
         tokens' = LeaveToken(tk, n),
         \A i \in Job : Pending(i)' => jobs'[i] = LeaveJobs(tk, n)[i],
         \A i \in NodeJobs : TokenOf[i] = tk /\ Pending(i) => ~Pending(i)'
  PROVE  HomeInv'
<1> SUFFICES ASSUME NEW i \in Job, Pending(i)'
             PROVE  AtHome(i)'
  BY DEF HomeInv
<1>0. /\ tokens \in [Token -> TokenRow] /\ jobs[i] \in Row /\ TokenOf[i] \in Token
      /\ NodeOf[i] \in 0 .. (LastNode - 1) /\ LastNode \in Nat
      /\ jobs'[i] = LeaveJobs(tk, n)[i]
  BY ConstantsAssumption, TokenTypes DEF HeldInv, IndInv, TypeInv, TypeOK
<1>1. i \notin LeaveDeletes(tk, n)
  BY <1>0 DEF LeaveJobs, Pending, Stored, Row
<1>2. CASE i \in CreatedAt(tk, n + 1)
  <2>1. TokenOf[i] = tk /\ NodeOf[i] = n + 1
    BY <1>2 DEF CreatedAt
  <2>2. i \in NodeJobs => ContinuationLock(tk, n + 1) = i
    <3> SUFFICES ASSUME i \in NodeJobs
                 PROVE  ContinuationLock(tk, n + 1) = i
      OBVIOUS
    <3>1. \A k \in CreatedAt(tk, n + 1) \cap NodeJobs : k = i
      BY <2>1, OneContinuationAssumption DEF CreatedAt, NodeJobs
    <3>2. CreatedAt(tk, n + 1) \cap NodeJobs # {}
      BY <1>2
    <3>3. QED
      BY <3>1, <3>2 DEF ContinuationLock
  <2>3. n + 1 # LastNode
    BY <1>0, <2>1
  <2>4. /\ tokens'[tk].node = n + 1
        /\ tokens'[tk].lock = ContinuationLock(tk, n + 1)
    BY <1>0, <2>3 DEF LeaveToken
  <2>5. QED
    BY <2>1, <2>2, <2>4 DEF AtHome
<1>3. CASE i \notin CreatedAt(tk, n + 1)
  <2>1. jobs'[i] = jobs[i] /\ Pending(i)
    BY <1>0, <1>1, <1>3 DEF LeaveJobs, Pending, Stored
  <2>2. AtHome(i)
    BY <2>1 DEF HomeInv
  <2>3. TokenOf[i] # tk
    <3> SUFFICES ASSUME TokenOf[i] = tk
                 PROVE  FALSE
      OBVIOUS
    <3>1. i \in Timers
      BY <2>1 DEF Pending
    <3>2. i \in CancelledTimers(tk, n)
      BY <2>1, <2>2, <3>1 DEF AtHome, CancelledTimers, CreatedAt, Pending
    <3>3. QED
      BY <1>1, <3>2 DEF LeaveDeletes
  <2>4. QED
    BY <1>0, <2>2, <2>3 DEF LeaveToken, AtHome
<1>4. QED
  BY <1>2, <1>3

\* A thread that executes a timer or a continuation in a transaction that is
\* going to commit: the job is pending, hence its token waits for it.
LEMMA ExecutingIsPending ==
  ASSUME TokenInv, NEW t \in Thread, pc[t] = "execute", Valid(t)
  PROVE  /\ current[t] \in Timers \cup NodeJobs => Pending(current[t])
         /\ MayLeave(current[t]) => Pending(current[t]) /\ AtHome(current[t])
<1> DEFINE j == current[t]
<1>1. j \in Job /\ Stored(j) /\ jobs[j].retries = 1
  BY ExecutedTries
<1>2. j \in Timers \cup NodeJobs => Pending(j)
  BY <1>1 DEF Pending
<1>3. MayLeave(j) => j \in Timers \cup NodeJobs
  BY <1>1 DEF MayLeave, Timers, NodeJobs
<1>4. Pending(j) => AtHome(j)
  BY <1>1 DEF HomeInv
<1>5. QED
  BY <1>2, <1>3, <1>4

\* The execution of the current job takes its token out of its node.
LEMMA HomeExecuteLeave ==
  ASSUME TokenInv, NEW t \in Thread, pc[t] = "execute", Valid(t),
         NEW j, j = current[t], MayLeave(j),
         tokens' = LeaveToken(TokenOf[j], NodeOf[j]),
         \/ jobs' = [LeaveJobs(TokenOf[j], NodeOf[j]) EXCEPT ![j] =
                       [jobs[j] EXCEPT !.status = "deleted"]]
         \/ jobs' = [LeaveJobs(TokenOf[j], NodeOf[j]) EXCEPT ![j] =
                       IF @.status = "deleted" THEN @ ELSE FailedRow(t, j)]
  PROVE  HomeInv'
<1> DEFINE tk == TokenOf[j]
           n == NodeOf[j]
<1>1. /\ j \in Job /\ Stored(j) /\ FailedRow(t, j).retries <= 0 /\ FailedRow(t, j).retries \in Int
      /\ tk \in Token /\ n \in 0 .. (LastNode - 1) /\ jobs[j] \in Row
  BY ExecutedTries, ExecutedTypes, TokenTypes DEF Row, HeldInv, IndInv, TypeInv
<1>2. Pending(j) /\ AtHome(j)
  BY ExecutingIsPending
<1>3. LeaveJobs(tk, n) \in [Job -> Row]
  BY <1>1, LeaveTypes DEF HeldInv, IndInv, TypeInv
<1>4. ~Pending(j)'
  <2>1. CASE jobs'[j].status = "deleted"
    BY <2>1 DEF Pending, Stored
  <2>2. CASE jobs'[j].status # "deleted"
    <3>1. jobs'[j] = FailedRow(t, j)
      <4>1. [jobs[j] EXCEPT !.status = "deleted"].status = "deleted"
        BY <1>1 DEF Row
      <4>2. QED
        BY <1>1, <1>3, <2>2, <4>1
    <3>2. LeaveJobs(tk, n)[j].status # "deleted"
      <4>1. [jobs[j] EXCEPT !.status = "deleted"].status = "deleted"
        BY <1>1 DEF Row
      <4>2. QED
        BY <1>1, <1>3, <2>2, <4>1
    <3>3. j \notin Timers
      <4>1. j \in Timers => j \in CancelledTimers(tk, n)
        BY <1>1 DEF CancelledTimers, CreatedAt
      <4>2. j \in CancelledTimers(tk, n) => LeaveJobs(tk, n)[j].status = "deleted"
        BY <1>1 DEF LeaveJobs, LeaveDeletes, Row
      <4>3. QED
        BY <3>2, <4>1, <4>2
    <3>4. ~(jobs'[j].retries > 0)
      BY <1>1, <3>1
    <3>5. QED
      BY <3>3, <3>4 DEF Pending
  <2>3. QED
    BY <2>1, <2>2
<1>5. \A i \in Job : Pending(i)' => jobs'[i] = LeaveJobs(tk, n)[i]
  <2>1. \A i \in Job : i # j => jobs'[i] = LeaveJobs(tk, n)[i]
    BY <1>1, <1>3
  <2>2. QED
    BY <1>4, <2>1
<1>6. ASSUME NEW i \in NodeJobs, TokenOf[i] = tk, Pending(i)
      PROVE  i = j
  <2>1. i \in Job /\ AtHome(i)
    BY <1>6 DEF HomeInv, NodeJobs
  <2>2. CASE j \in NodeJobs
    BY <1>2, <1>6, <2>1, <2>2 DEF AtHome
  <2>3. CASE j \notin NodeJobs
    <3>1. tokens[tk].lock = None
      BY <1>1, <2>3 DEF MayLeave, NodeJobs
    <3>2. QED
      BY <1>6, <2>1, <3>1, NoneIsNoOwner DEF AtHome
  <2>4. QED
    BY <2>2, <2>3
<1>7. tokens[tk].node = n
  BY <1>2 DEF AtHome
<1>8. QED
  BY <1>1, <1>4, <1>5, <1>6, <1>7, HomeLeave

LEMMA HomeThreadStep ==
  ASSUME TokenInv, NEW t \in Thread, ThreadStep(t)
  PROVE  HomeInv'
<1> SUFFICES ASSUME NEW j, j = current[t]
             PROVE  HomeInv'
  OBVIOUS
<1>1. CASE UNCHANGED <<jobs, tokens>>
  BY <1>1, HomeKept DEF Pending, Stored
<1>2. CASE AcquireCommit(t)
  <2>1. /\ UNCHANGED tokens /\ pc[t] = "acquire" /\ stale[t] = {} /\ \A i \in todo[t] : Stored(i)
        /\ \A i \in Job : jobs'[i] = IF i \in todo[t] THEN snapshot[t][i] ELSE jobs[i]
    BY <1>2 DEF AcquireCommit, Valid
  <2>2. \A i \in Job : Pending(i)' => Pending(i)
    <3> TAKE i \in Job
    <3>1. i \in todo[t] => jobs[i].retries > 0
      BY <2>1 DEF HeldInv, RetriesInv, TryInv
    <3>2. QED
      BY <2>1, <3>1 DEF Pending, Stored
  <2>3. QED
    BY <2>1, <2>2, HomeKept
<1>3. CASE ExecuteAndStay(t) \/ ExecuteFails(t)
  <2>1. /\ pc[t] = "execute" /\ Valid(t) /\ tokens' = StayToken(j)
        /\ \/ jobs' = [jobs EXCEPT ![j] = DoneRow(t, j)]
           \/ jobs' = [jobs EXCEPT ![j] = FailedRow(t, j)]
    BY <1>3 DEF ExecuteAndStay, ExecuteFails
  <2>2. /\ j \in Job /\ Stored(j) /\ jobs[j].retries = 1 /\ jobs[j] \in Row
        /\ FailedRow(t, j).retries <= 0 /\ FailedRow(t, j).retries \in Int
        /\ jobs \in [Job -> Row]
    BY <2>1, ExecutedTries, ExecutedTypes, TokenTypes DEF Row, HeldInv, IndInv, TypeInv, TypeOK
  <2>3. \A i \in Job : Pending(i)' => Pending(i)
    <3> TAKE i \in Job
    <3>1. CASE i # j
      BY <2>1, <2>2, <3>1 DEF Pending, Stored
    <3>2. CASE i = j
      BY <2>2, <3>2 DEF Pending, Stored
    <3>3. QED
      BY <3>1, <3>2
  <2>4. ASSUME j \in NodeJobs
        PROVE  ~Pending(j)'
    <3>1. DoneRow(t, j).status = "deleted"
      BY <2>2, <2>4 DEF DoneRow, NodeJobs, Row
    <3>2. CASE jobs'[j] = DoneRow(t, j)
      BY <3>1, <3>2 DEF Pending, Stored
    <3>3. CASE jobs'[j] = FailedRow(t, j)
      <4>1. ~(jobs'[j].retries > 0)
        BY <2>2, <3>3
      <4>2. QED
        BY <2>4, <4>1 DEF Pending, NodeJobs, Timers
    <3>4. QED
      BY <2>1, <2>2, <3>2, <3>3
  <2>5. Pending(j) \/ j \notin NodeJobs
    BY <2>1, ExecutingIsPending
  <2>6. QED
    BY <2>1, <2>2, <2>3, <2>4, <2>5, HomeStay
<1>4. CASE ExecuteAndLeave(t) \/ ExecuteFailsLater(t)
  BY <1>4, HomeExecuteLeave DEF ExecuteAndLeave, ExecuteFailsLater
<1>5. QED
  BY <1>1, <1>2, <1>3, <1>4
     DEF ThreadStep, Leave, AcquireNothing, Acquire, AcquireStale, Wake, Load, LoadMissing,
         ExecuteRollback

LEMMA HomeOtherStep ==
  ASSUME TokenInv, OtherStep
  PROVE  HomeInv'
<1>1. CASE UNCHANGED <<jobs, tokens>>
  BY <1>1, HomeKept DEF Pending, Stored
<1>2. ASSUME NEW tk \in Token, Signal(tk)
      PROVE  HomeInv'
  <2> DEFINE n == tokens[tk].node
  <2>1. ASSUME NEW i \in NodeJobs, TokenOf[i] = tk
        PROVE  ~Pending(i)
    <3>1. i \in Job /\ tokens[tk].lock = None
      BY <1>2 DEF Signal, NodeJobs
    <3>2. QED
      BY <2>1, <3>1, NoneIsNoOwner DEF HomeInv, AtHome
  <2>2. PICK m \in 0 .. (LastNode - 1) : m = n
    BY <1>2, SignalledNode
  <2>3. tokens' = LeaveToken(tk, m) /\ jobs' = LeaveJobs(tk, m)
    BY <1>2, <2>2 DEF Signal
  <2>4. QED
    BY <2>1, <2>2, <2>3, HomeLeave
<1>3. ASSUME NEW p \in ProcessInstance, NEW b \in BOOLEAN, SetSuspended(p, b)
      PROVE  HomeInv'
  <2>1. \A i \in Job : Pending(i)' => Pending(i)
    <3> TAKE i \in Job
    <3>1. jobs'[i] = jobs[i] \/ jobs'[i] = [jobs[i] EXCEPT !.isSuspended = b]
      BY <1>3 DEF SetSuspended
    <3>2. jobs'[i].status = jobs[i].status /\ jobs'[i].retries = jobs[i].retries
      BY <3>1, TokenTypes DEF Row
    <3>3. QED
      BY <3>2 DEF Pending, Stored
  <2>2. \A tk \in Token : /\ tokens'[tk].node = tokens[tk].node
                          /\ tokens'[tk].lock = tokens[tk].lock
    <3> TAKE tk \in Token
    <3>1. tokens[tk] \in TokenRow
      BY DEF HeldInv, IndInv, TypeInv, TypeOK
    <3>2. tokens'[tk] = tokens[tk] \/ tokens'[tk] = [tokens[tk] EXCEPT !.isSuspended = b]
      BY <1>3 DEF SetSuspended
    <3>3. QED
      BY <3>1, <3>2 DEF TokenRow
  <2>3. QED
    BY <2>1, <2>2, HomeKept
<1>4. ASSUME NEW p \in ProcessInstance, End(p)
      PROVE  HomeInv'
  <2>1. \A i \in Job : Pending(i)' => Pending(i)
    <3> TAKE i \in Job
    <3>1. jobs'[i] = jobs[i] \/ jobs'[i].status = "deleted"
      BY <1>4, TokenTypes DEF End, Row
    <3>2. QED
      BY <3>1 DEF Pending, Stored
  <2>2. \A tk \in Token : /\ tokens'[tk].node = tokens[tk].node
                          /\ tokens'[tk].lock = tokens[tk].lock
    BY <1>4 DEF End, HeldInv, IndInv, TypeInv, TypeOK, TokenRow
  <2>3. QED
    BY <2>1, <2>2, HomeKept
<1>5. QED
  BY <1>1, <1>2, <1>3, <1>4 DEF OtherStep, Start, Stop, Crash, Suspend, Resume, Tick
-----------------------------------------------------------------------------
(* The theorems.                                                           *)

LEMMA TokenInit == Init => TokenInv
<1> SUFFICES ASSUME Init PROVE TokenInv
  OBVIOUS
<1>1. HeldInv
  BY HeldInit
<1>2. ASSUME NEW j \in Job, Pending(j)
      PROVE  AtHome(j)
  <2>1. NodeOf[j] = 0
    BY <1>2 DEF Init, Pending, Stored, BlankRow
  <2>2. /\ TokenOf[j] \in Token /\ tokens[TokenOf[j]].node = 0
        /\ tokens[TokenOf[j]].lock = ContinuationLock(TokenOf[j], 0)
    BY ConstantsAssumption DEF Init
  <2>3. ASSUME j \in NodeJobs
        PROVE  ContinuationLock(TokenOf[j], 0) = j
    <3>1. \A k \in CreatedAt(TokenOf[j], 0) \cap NodeJobs : k = j
      BY <2>1, <2>3, OneContinuationAssumption DEF CreatedAt, NodeJobs
    <3>2. j \in CreatedAt(TokenOf[j], 0) \cap NodeJobs
      BY <2>1, <2>3 DEF CreatedAt
    <3>3. QED
      BY <3>1, <3>2 DEF ContinuationLock
  <2>4. QED
    BY <2>1, <2>2, <2>3 DEF AtHome
<1>3. QED
  BY <1>1, <1>2 DEF HomeInv

\* An Error is counted.
LEMMA NoErrorCommits ==
  ASSUME TypeInv, errors' = 0, NEW t \in Thread
  PROVE  ~ErrorStep(t)
<1>1. errors \in Nat
  BY DEF TypeInv, TypeOK
<1>2. QED
  BY <1>1 DEF ErrorStep, ExecuteError, ExecuteErrorLater, ExecuteErrorStale, ErrorEnds

LEMMA ErrorsGrow ==
  ASSUME TypeInv, [Next]_vars, errors' = 0
  PROVE  errors = 0
<1>1. errors \in Nat
  BY DEF TypeInv, TypeOK
<1>2. errors' \in {errors, errors + 1}
  BY DEF Next, ThreadStep, ErrorStep, Leave, AcquireNothing, Acquire, AcquireCommit, AcquireStale,
         Wake, Load, LoadMissing, ExecuteAndStay, ExecuteAndLeave, ExecuteFails, ExecuteFailsLater,
         ExecuteRollback, ExecuteError, ExecuteErrorLater, ExecuteErrorStale, ErrorEnds, Start,
         Stop, Crash, Signal, Suspend, Resume, SetSuspended, End, Tick
<1>3. QED
  BY <1>1, <1>2

LEMMA TokenStep ==
  ASSUME NamesIdentifyThreads, CalmInv, [Next]_vars
  PROVE  CalmInv'
<1>1. HeldInv'
  BY HeldStep DEF CalmInv
<1>2. ASSUME errors' = 0
      PROVE  HomeInv'
  <2>1. HeldInv /\ HomeInv
    BY <1>2, ErrorsGrow DEF CalmInv, HeldInv, IndInv
  <2>2. CASE UNCHANGED vars
    BY <2>1, <2>2 DEF Stored, HomeInv, Pending, AtHome
  <2>3. CASE Next
    <3>1. \A t \in Thread : ~ErrorStep(t)
      BY <1>2, <2>1, NoErrorCommits DEF HeldInv, IndInv
    <3>2. QED
      BY <2>1, <2>3, <3>1, HomeThreadStep, HomeOtherStep DEF Next, OtherStep
  <2>4. QED
    BY <2>2, <2>3
<1>3. QED
  BY <1>1, <1>2 DEF CalmInv

\* Tokens and jobs stay together until the first Error.
LEMMA TokenInvariant ==
  ASSUME NamesIdentifyThreads
  PROVE  Spec => []CalmInv
<1>1. CalmInv /\ [Next]_vars => CalmInv'
  BY TokenStep
<1>2. Init => CalmInv
  BY TokenInit DEF CalmInv
<1>3. QED
  BY <1>1, <1>2, PTL DEF Spec

\* Until the first Error, while a continuation can still be executed, its
\* token waits in the continuation's node and is locked by it, whatever
\* crashes, restarts and administration happen, when thread names are unique.
THEOREM ContinuationsLockTheirTokens ==
  ASSUME NamesIdentifyThreads
  PROVE  Spec => []PendingContinuationLocksToken
<1>1. CalmInv => PendingContinuationLocksToken
  BY DEF CalmInv, HomeInv, Pending, AtHome, PendingContinuationLocksToken, NodeJobs
<1>2. QED
  BY <1>1, TokenInvariant, PTL

\* Until the first Error, a timer that is still stored belongs to the node its
\* token is in.
THEOREM TimersStayWithTheirTokens ==
  ASSUME NamesIdentifyThreads
  PROVE  Spec => []TimersFollowToken
<1>1. CalmInv => TimersFollowToken
  BY DEF CalmInv, HomeInv, Pending, AtHome, TimersFollowToken, Timers
<1>2. QED
  BY <1>1, TokenInvariant, PTL

\* Until the first Error, a continuation resumes the execution in the node
\* where it was suspended.
THEOREM ContinuationsResumeWhereSuspended ==
  ASSUME NamesIdentifyThreads
  PROVE  Spec => ResumesWhereSuspended
<1> DEFINE A == errors' = 0 =>
                  \A j \in NodeJobs :
                    executed'[j] # executed[j] => tokens[TokenOf[j]].node = NodeOf[j]
<1>1. ASSUME CalmInv, Next, errors' = 0, NEW j \in NodeJobs, executed'[j] # executed[j]
      PROVE  tokens[TokenOf[j]].node = NodeOf[j]
  <2>1. j \in Job /\ TypeInv /\ HeldInv
    BY <1>1 DEF NodeJobs, CalmInv, HeldInv, IndInv
  <2>2. PICK t \in Thread : pc[t] = "execute" /\ current[t] = j /\ Valid(t)
    BY <1>1, <2>1, ExecutedBy, NoErrorCommits
  <2>3. HomeInv
    BY <1>1, <2>1, ErrorsGrow DEF CalmInv
  <2>4. QED
    BY <2>1, <2>2, <2>3, ExecutingIsPending DEF HomeInv, AtHome
<1>2. CalmInv /\ [Next]_vars => [A]_vars
  BY <1>1
<1>3. QED
  BY <1>2, TokenInvariant, PTL DEF Spec, ResumesWhereSuspended
-----------------------------------------------------------------------------
(* The end of a process instance.                                          *)

\* The timers and continuations that were stored at the end are deleted.
RemainingAreDeleted ==
  \A j \in Timers \cup NodeJobs : j \in remaining => jobs[j].status = "deleted"

EndInv == IndInv /\ RemainingAreDeleted

\* Deleted rows do not come back.
LEMMA DeletedStays ==
  ASSUME IndInv, TypeInv', NEW j \in Job, jobs[j].status = "deleted", RowKept(j)
  PROVE  jobs'[j].status = "deleted"
  BY DEF RowKept, TypeInv, TypeOK, Row

\* Every step keeps the rows in the sense of RowKept, except that an
\* acquisition writes lock owners into rows that are stored.
LEMMA RowsKept ==
  ASSUME IndInv, TypeInv', Next, NEW j \in Job, jobs[j].status = "deleted"
  PROVE  jobs'[j].status = "deleted"
<1>0. jobs[j] \in Row
  BY DEF IndInv, TypeInv, TypeOK
<1>1. ASSUME NEW t \in Thread, ThreadStep(t) \/ ErrorStep(t)
      PROVE  jobs'[j].status = "deleted"
  <2> DEFINE c == current[t]
             tk == TokenOf[c]
             n == NodeOf[c]
  <2>a. pc[t] = "execute" => tk \in Token /\ n \in 0 .. (LastNode - 1)
    BY ConstantsAssumption DEF IndInv, TypeInv, CurrentInv
  <2>1. CASE UNCHANGED jobs
    BY <2>1
  <2>2. CASE AcquireCommit(t)
    BY <2>2 DEF AcquireCommit, Valid, Stored
  <2>3. CASE ExecuteAndStay(t) \/ ExecuteFails(t)
    <3>1. RowKept(j)
      BY <2>3, ExecutedRows DEF ExecuteAndStay, ExecuteFails
    <3>2. QED
      BY <3>1, DeletedStays
  <2>4. CASE ExecuteAndLeave(t) \/ ExecuteFailsLater(t)
    <3>1. RowKept(j)
      BY <2>4, <2>a, ExecutedRows DEF ExecuteAndLeave, ExecuteFailsLater
    <3>2. QED
      BY <3>1, DeletedStays
  <2>5. CASE ExecuteErrorLater(t)
    <3>1. RowKept(j)
      BY <2>5, <2>a, LeaveKeepsRows DEF ExecuteErrorLater, ErrorEnds, IndInv, TypeInv
    <3>2. QED
      BY <3>1, DeletedStays
  <2>6. QED
    BY <1>1, <2>1, <2>2, <2>3, <2>4, <2>5
       DEF ThreadStep, ErrorStep, Leave, AcquireNothing, Acquire, AcquireStale, Wake, Load,
           LoadMissing, ExecuteRollback, ExecuteError, ExecuteErrorStale
<1>2. ASSUME NEW tk \in Token, Signal(tk)
      PROVE  jobs'[j].status = "deleted"
  <2>1. tokens[tk].node \in 0 .. (LastNode - 1)
    BY <1>2, ConstantsAssumption DEF Signal, IndInv, TypeInv, TypeOK, TokenRow
  <2>2. RowKept(j)
    BY <1>2, <2>1, LeaveKeepsRows DEF Signal, IndInv, TypeInv
  <2>3. QED
    BY <2>2, DeletedStays
<1>3. ASSUME NEW p \in ProcessInstance, Suspend(p) \/ Resume(p) \/ End(p)
      PROVE  jobs'[j].status = "deleted"
  BY <1>0, <1>3 DEF Suspend, Resume, SetSuspended, End, Row
<1>4. CASE Tick \/ \E e \in Executor : Start(e) \/ Stop(e) \/ Crash(e)
  BY <1>4 DEF Tick, Start, Stop, Crash
<1>5. QED
  BY <1>1, <1>2, <1>3, <1>4 DEF Next

\* A transition that ends the process instance deletes what remains.
LEMMA LeaveDeletesRemaining ==
  ASSUME IndInv, NEW tk \in Token, NEW n \in 0 .. (LastNode - 1),
         NEW j \in Timers \cup NodeJobs, j \in Remaining(tk, n) \ remaining
  PROVE  LeaveJobs(tk, n)[j].status = "deleted"
<1>1. j \in Job /\ jobs[j] \in Row
  BY DEF Timers, NodeJobs, IndInv, TypeInv, TypeOK
<1>2. j \in LeaveDeletes(tk, n)
  BY DEF Remaining, LeaveDeletes, DeletedAtEnd
<1>3. QED
  BY <1>1, <1>2 DEF LeaveJobs, Row

LEMMA EndStep ==
  ASSUME EndInv, [Next]_vars
  PROVE  EndInv'
<1>1. IndInv'
  BY IndStep DEF EndInv
<1> SUFFICES ASSUME NEW j \in Timers \cup NodeJobs, j \in remaining'
             PROVE  jobs'[j].status = "deleted"
  BY <1>1 DEF EndInv, RemainingAreDeleted
<1>2. j \in Job /\ jobs[j] \in Row /\ IndInv /\ TypeInv'
  BY <1>1 DEF Timers, NodeJobs, EndInv, IndInv, TypeInv, TypeOK
<1>3. CASE UNCHANGED vars
  BY <1>3 DEF EndInv, RemainingAreDeleted
<1>4. CASE Next /\ j \in remaining
  BY <1>2, <1>4, RowsKept DEF EndInv, RemainingAreDeleted
<1>5. CASE Next /\ j \notin remaining
  <2>1. ASSUME NEW t \in Thread,
               ExecuteAndLeave(t) \/ ExecuteFailsLater(t) \/ ExecuteErrorLater(t)
        PROVE  jobs'[j].status = "deleted"
    <3> DEFINE c == current[t]
               tk == TokenOf[c]
               n == NodeOf[c]
    <3>1. /\ pc[t] = "execute" /\ remaining' = Remaining(tk, n)
          /\ \/ jobs' = LeaveJobs(tk, n)
             \/ jobs' = [LeaveJobs(tk, n) EXCEPT ![c] = [jobs[c] EXCEPT !.status = "deleted"]]
             \/ jobs' = [LeaveJobs(tk, n) EXCEPT ![c] =
                           IF @.status = "deleted" THEN @ ELSE FailedRow(t, c)]
      BY <2>1 DEF ExecuteAndLeave, ExecuteFailsLater, ExecuteErrorLater, ErrorEnds
    <3>2. tk \in Token /\ n \in 0 .. (LastNode - 1)
      BY <1>2, <3>1, ConstantsAssumption DEF IndInv, TypeInv, CurrentInv
    <3>3. LeaveJobs(tk, n)[j].status = "deleted"
      BY <1>2, <1>5, <3>1, <3>2, LeaveDeletesRemaining
    <3>4. LeaveJobs(tk, n) \in [Job -> Row]
      BY <1>2, <3>2, LeaveTypes DEF IndInv, TypeInv
    <3>5. j = c => [jobs[c] EXCEPT !.status = "deleted"].status = "deleted"
      BY <1>2 DEF Row
    <3>6. QED
      BY <1>2, <3>1, <3>3, <3>4, <3>5
  <2>2. ASSUME NEW tk \in Token, Signal(tk)
        PROVE  jobs'[j].status = "deleted"
    <3>1. tokens[tk].node \in 0 .. (LastNode - 1)
      BY <1>2, <2>2, ConstantsAssumption DEF Signal, IndInv, TypeInv, TypeOK, TokenRow
    <3>2. QED
      BY <1>2, <1>5, <2>2, <3>1, LeaveDeletesRemaining DEF Signal
  <2>3. ASSUME NEW p \in ProcessInstance, End(p)
        PROVE  jobs'[j].status = "deleted"
    BY <1>2, <1>5, <2>3 DEF End, DeletedAtEnd, Row
  <2>4. ASSUME UNCHANGED remaining
        PROVE  jobs'[j].status = "deleted"
    BY <1>5, <2>4
  <2>5. QED
    BY <1>5, <2>1, <2>2, <2>3, <2>4
       DEF Next, ThreadStep, ErrorStep, Leave, AcquireNothing, Acquire, AcquireCommit, AcquireStale,
           Wake, Load, LoadMissing, ExecuteAndStay, ExecuteFails, ExecuteRollback, ExecuteError,
           ExecuteErrorStale, Start, Stop, Crash, Suspend, Resume, SetSuspended, Tick
<1>6. QED
  BY <1>3, <1>4, <1>5

\* Until the first Error, no timer and no continuation that is stored when its
\* process instance ends is executed by a transaction that commits later, for
\* any names of threads, even if it was being executed at that moment.
THEOREM EndCancelsJobs == Spec => NothingFiresAfterEnd
<1> DEFINE A == errors' = 0 =>
                  \A j \in Timers \cup NodeJobs : executed'[j] # executed[j] => j \notin remaining
<1>1. ASSUME EndInv, Next, errors' = 0, NEW j \in Timers \cup NodeJobs, executed'[j] # executed[j]
      PROVE  j \notin remaining
  <2>1. j \in Job /\ TypeInv
    BY <1>1 DEF Timers, NodeJobs, EndInv, IndInv
  <2>2. PICK t \in Thread : pc[t] = "execute" /\ current[t] = j /\ Valid(t)
    BY <1>1, <2>1, ExecutedBy, NoErrorCommits
  <2>3. QED
    BY <1>1, <2>2 DEF Valid, Stored, EndInv, RemainingAreDeleted
<1>2. EndInv /\ [Next]_vars => [A]_vars
  BY <1>1
<1>3. Init => EndInv
  BY IndInit DEF Init, EndInv, RemainingAreDeleted
<1>4. EndInv /\ [Next]_vars => EndInv'
  BY EndStep
<1>5. QED
  BY <1>2, <1>3, <1>4, PTL DEF Spec, NothingFiresAfterEnd
=============================================================================
