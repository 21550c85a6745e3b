---------------------------- MODULE JobExecutor ----------------------------
(***************************************************************************)
(* The jPDL job executor: job executor threads that acquire and execute    *)
(* the rows of JBPM_JOB, the process executions (tokens) that create and   *)
(* cancel those rows, and the administration that suspends, resumes and    *)
(* ends process instances.                                                 *)
(*                                                                         *)
(* Every database transaction of a job executor thread is two steps, one   *)
(* that reads and one that commits, and everything may happen in between.  *)
(* Hibernate's version check is the set stale[t]: the rows thread t has    *)
(* read that another transaction has written since.  A versioned write     *)
(* adds to it; a bulk HQL update or delete does not, exactly as it leaves  *)
(* VERSION_ alone.  A flushed entity writes all of its columns.            *)
(*                                                                         *)
(* The process of a token is a line of nodes 0 .. LastNode; LastNode is    *)
(* its end state.  The jobs of node n (an async continuation, async event  *)
(* actions, timers) are created when the token enters n.                   *)
(***************************************************************************)
EXTENDS Integers, FiniteSets

CONSTANTS
  Job, Token, ProcessInstance, Executor,
  None,            \* a null reference
  Kind,            \* job -> its class; RepeatTimer is a Timer with repeat
  Exclusive,       \* the jobs with isExclusive
  TokenOf,         \* job -> its token
  NodeOf,          \* job -> the node whose entry creates it
  InstanceOf,      \* token -> its process instance
  DueIn,           \* job -> dueDate at creation, relative to the clock
  Repeat,          \* the repeat duration of RepeatTimers
  NbrOfThreads,    \* threads of one job executor
  GroupName,       \* executor -> its name and host address
  Joins,           \* TRUE: a job executor is stopped with stopAndJoin
  LastNode,        \* the end state
  MaxLockTime,
  MaxTime,         \* bound: the clock stops here
  MaxStarts,       \* bound: starts of one job executor
  MaxDeaths,       \* bound: JVMs that crash and threads that an Error ends
  MaxAdmin         \* bound: requests to suspend or to end

Kinds == {"ExecuteNodeJob", "ExecuteActionJob", "Timer", "RepeatTimer"}

ASSUME ConstantsAssumption ==
  /\ Kind \in [Job -> Kinds]
  /\ Exclusive \subseteq Job
  /\ TokenOf \in [Job -> Token]
  /\ LastNode \in Nat \ {0}
  /\ NodeOf \in [Job -> 0 .. (LastNode - 1)]
  /\ InstanceOf \in [Token -> ProcessInstance]
  /\ DueIn \in [Job -> Nat]
  /\ Repeat \in Nat \ {0}
  /\ NbrOfThreads \in Nat
  /\ DOMAIN GroupName = Executor
  /\ Joins \in BOOLEAN
  /\ MaxLockTime \in Nat
  /\ {MaxTime, MaxStarts, MaxDeaths, MaxAdmin} \subseteq Nat

ASSUME NamesAssumption ==
  /\ None \notin Job
  /\ None \notin {GroupName[e] : e \in Executor} \X Nat
  /\ Job \cap Token = {}

\* A node has one continuation, so at most one ExecuteNodeJob per entry.
ASSUME OneContinuationAssumption ==
  \A j, k \in Job :
    /\ Kind[j] = "ExecuteNodeJob" /\ Kind[k] = "ExecuteNodeJob"
    /\ TokenOf[j] = TokenOf[k] /\ NodeOf[j] = NodeOf[k]
    => j = k

Timers == {j \in Job : Kind[j] \in {"Timer", "RepeatTimer"}}
NodeJobs == {j \in Job : Kind[j] = "ExecuteNodeJob"}

\* A thread is an executor, the number of its start, and the thread's index.
Thread == Executor \X (1 .. MaxStarts) \X (1 .. NbrOfThreads)
LockOwner == {GroupName[e] : e \in Executor} \X Nat

\* Mutant: names go on counting over the starts of an executor.
ThreadNameWithStart(t) == <<GroupName[t[1]], t[3] + NbrOfThreads * (t[2] - 1)>>

\* getThreadName: name:host:index, with no trace of the start it belongs to.
ThreadName(t) == <<GroupName[t[1]], t[3]>>

VARIABLES
  jobs,       \* JBPM_JOB
  tokens,     \* JBPM_TOKEN
  now,        \* the clock all parties share
  starts,     \* executor -> how often it has been started
  isStarted,  \* executor -> JobExecutor.isStarted
  pc,         \* thread -> where its run() is
  isActive,   \* thread -> JobExecutorThread.isActive
  todo,       \* thread -> jobs to lock, then jobs acquired and not yet loaded
  current,    \* thread -> the job it is executing
  snapshot,   \* thread -> the rows its Hibernate session holds
  stale,      \* thread -> rows it has read that were written since
  fired,      \* history: job -> committed transactions in which it succeeded
  executed,   \* history: job -> committed transactions that executed it
  remaining,  \* history: the jobs that were stored when their instance ended
  crashes, errors, admin  \* how much of the bounds is used

threadVars == <<pc, isActive, todo, current, snapshot>>
bounds == <<crashes, errors, admin>>
history == <<fired, executed, remaining>>
vars == <<jobs, tokens, now, starts, isStarted, threadVars, stale, history, bounds>>

Row == [status : {"new", "stored", "deleted"},
        lockOwner : LockOwner \cup {None}, lockTime : Nat,
        retries : Int, dueDate : Int, isSuspended : BOOLEAN]

TokenRow == [node : 0 .. LastNode, lock : Job \cup {None},
             isSuspended : BOOLEAN, ended : BOOLEAN]

TypeOK ==
  /\ jobs \in [Job -> Row]
  /\ tokens \in [Token -> TokenRow]
  /\ now \in Nat
  /\ starts \in [Executor -> Nat]
  /\ isStarted \in [Executor -> BOOLEAN]
  /\ pc \in [Thread -> {"new", "idle", "acquire", "run", "execute", "wait", "dead"}]
  /\ isActive \in [Thread -> BOOLEAN]
  /\ todo \in [Thread -> SUBSET Job]
  /\ current \in [Thread -> Job \cup {None}]
  /\ snapshot \in [Thread -> [Job -> Row]]
  /\ stale \in [Thread -> SUBSET (Job \cup Token)]
  /\ fired \in [Job -> Nat] /\ executed \in [Job -> Nat]
  /\ remaining \subseteq Job
  /\ crashes \in Nat /\ errors \in Nat /\ admin \in Nat
-----------------------------------------------------------------------------
(* The process execution, as far as it touches tokens and jobs.            *)

Stored(j) == jobs[j].status = "stored"

BlankRow == [status |-> "new", lockOwner |-> None, lockTime |-> 0,
             retries |-> 1, dueDate |-> 0, isSuspended |-> FALSE]

\* Mutant: setDueDate is forgotten.
NewRowWithoutDueDate(j, time) == [BlankRow EXCEPT !.status = "stored", !.dueDate = None]

\* A job as createAsyncContinuationJob, createAsyncActionExecutionJob or
\* createTimer fill it and JobSession.saveJob inserts it.
NewRow(j, time) ==
  [status |-> "stored", lockOwner |-> None, lockTime |-> 0,
   retries |-> 1, dueDate |-> time + DueIn[j], isSuspended |-> FALSE]

CreatedAt(tk, n) == {j \in Job : TokenOf[j] = tk /\ NodeOf[j] = n}

\* Mutant: the continuation is sent without token.lock.
ContinuationLockForgotten(tk, n) == None

\* The lock Node.enter leaves on the token: the async continuation, if any.
ContinuationLock(tk, n) ==
  IF CreatedAt(tk, n) \cap NodeJobs = {}
  THEN None
  ELSE CHOOSE j \in CreatedAt(tk, n) \cap NodeJobs : TRUE

\* Mutant: node-leave cancels nothing.
CancelledTimersForgotten(tk, n) == {}

\* The cancel-timer action on node-leave: the token's timers of that node.
CancelledTimers(tk, n) == {j \in CreatedAt(tk, n) \cap Timers : Stored(j)}

\* Mutant: ProcessInstance.end keeps the jobs.
DeletedAtEndForgotten(p) == {}

StoredOf(p) == {j \in Job : InstanceOf[TokenOf[j]] = p /\ Stored(j)}

\* The jobs ProcessInstance.end deletes in bulk: timers and execute-node jobs.
DeletedAtEnd(p) == StoredOf(p) \cap (Timers \cup NodeJobs)

\* Taking the transition out of node n: leave fires node-leave, enter moves
\* the token, fires node-enter, executes or sends the continuation.
LeaveToken(tk, n) ==
  [tokens EXCEPT ![tk] = [node |-> n + 1,
                          lock |-> ContinuationLock(tk, n + 1),
                          isSuspended |-> tokens[tk].isSuspended,
                          ended |-> tokens[tk].ended \/ n + 1 = LastNode]]

\* The process instance ends with the last of its tokens.  A token that has
\* ended before reaches the end state without effect.
EndsInstance(tk, n) ==
  /\ n + 1 = LastNode
  /\ ~tokens[tk].ended
  /\ \A u \in Token \ {tk} : InstanceOf[u] = InstanceOf[tk] => tokens[u].ended

LeaveDeletes(tk, n) ==
  CancelledTimers(tk, n) \cup
  (IF EndsInstance(tk, n) THEN DeletedAtEnd(InstanceOf[tk]) ELSE {})

\* The jobs that are left when the transition ends the process instance.
Remaining(tk, n) ==
  remaining \cup (IF EndsInstance(tk, n) THEN StoredOf(InstanceOf[tk]) ELSE {})

LeaveJobs(tk, n) ==
  [j \in Job |->
     IF j \in LeaveDeletes(tk, n) THEN [jobs[j] EXCEPT !.status = "deleted"]
     ELSE IF j \in CreatedAt(tk, n + 1) THEN NewRow(j, now)
     ELSE jobs[j]]

\* Bound: a node is entered for the first time (a second entry would insert
\* a second row for the same job).
FirstEntry(tk, n) == \A j \in CreatedAt(tk, n + 1) : jobs[j].status = "new"

\* What each transaction in progress has read.
Reads(t) == IF pc[t] = "acquire" THEN todo[t]
            ELSE IF pc[t] = "execute" THEN {current[t], TokenOf[current[t]]}
            ELSE {}

\* A commit that wrote the rows W makes them stale to all other sessions.
Commit(t, W) ==
  stale' = [u \in Thread |-> IF u = t THEN {} ELSE stale[u] \cup (W \cap Reads(u))]

\* The same for a transaction that is not a job executor thread's.
ClientCommit(W) ==
  stale' = [u \in Thread |-> stale[u] \cup (W \cap Reads(u))]
-----------------------------------------------------------------------------
(* Clients: signals and administration, each one transaction.              *)

\* Token.signal, from outside the job executor.  It asks for suspension and
\* lock, and does not ask whether the token has ended.
Signal(tk) ==
  LET n == tokens[tk].node IN
  /\ n < LastNode            \* an end state has no leaving transition
  /\ ~tokens[tk].isSuspended
  /\ tokens[tk].lock = None
  /\ FirstEntry(tk, n)
  /\ tokens' = LeaveToken(tk, n)
  /\ jobs' = LeaveJobs(tk, n)
  /\ remaining' = Remaining(tk, n)
  /\ ClientCommit({tk} \cup CancelledTimers(tk, n))
  /\ UNCHANGED <<now, starts, isStarted, threadVars, fired, executed, bounds>>

TokensOf(p) == {tk \in Token : InstanceOf[tk] = p}

\* ProcessInstance.suspend and resume: versioned on the tokens, a bulk
\* update on their jobs.
SetSuspended(p, b) ==
  /\ tokens' = [tk \in Token |->
                  IF tk \in TokensOf(p) THEN [tokens[tk] EXCEPT !.isSuspended = b]
                  ELSE tokens[tk]]
  /\ jobs' = [j \in Job |->
                IF Stored(j) /\ TokenOf[j] \in TokensOf(p)
                THEN [jobs[j] EXCEPT !.isSuspended = b]
                ELSE jobs[j]]
  /\ ClientCommit(TokensOf(p))
  /\ UNCHANGED <<now, starts, isStarted, threadVars, history, crashes, errors>>

Suspend(p) ==
  /\ admin < MaxAdmin
  /\ \E tk \in TokensOf(p) : ~tokens[tk].isSuspended
  /\ admin' = admin + 1
  /\ SetSuspended(p, TRUE)

Resume(p) ==
  /\ \E tk \in TokensOf(p) : tokens[tk].isSuspended
  /\ SetSuspended(p, FALSE)
  /\ UNCHANGED admin

\* ProcessInstance.end: ends every token, then deletes jobs in bulk.
End(p) ==
  /\ admin < MaxAdmin
  /\ \E tk \in TokensOf(p) : ~tokens[tk].ended
  /\ admin' = admin + 1
  /\ tokens' = [tk \in Token |->
                  IF tk \in TokensOf(p) THEN [tokens[tk] EXCEPT !.ended = TRUE]
                  ELSE tokens[tk]]
  /\ jobs' = [j \in Job |->
                IF j \in DeletedAtEnd(p) THEN [jobs[j] EXCEPT !.status = "deleted"]
                ELSE jobs[j]]
  /\ remaining' = remaining \cup StoredOf(p)
  /\ ClientCommit({tk \in TokensOf(p) : ~tokens[tk].ended})
  /\ UNCHANGED <<now, starts, isStarted, threadVars, fired, executed, crashes, errors>>

Tick ==
  /\ now < MaxTime
  /\ now' = now + 1
  /\ UNCHANGED <<jobs, tokens, starts, isStarted, threadVars, stale, history, bounds>>
-----------------------------------------------------------------------------
(* JobExecutor: start and stop, and what may befall it.                    *)

\* acquireJobs holds the monitor of its job executor for a whole transaction.
MonitorFree(e) == \A t \in Thread : t[1] = e => pc[t] # "acquire"

ThreadsOf(e, n) == {t \in Thread : t[1] = e /\ t[2] = n}

Start(e) ==
  /\ ~isStarted[e]
  /\ Joins => \A t \in Thread : t[1] = e => pc[t] \in {"new", "dead"}
  /\ starts[e] < MaxStarts
  /\ MonitorFree(e)
  /\ starts' = [starts EXCEPT ![e] = @ + 1]
  /\ isStarted' = [isStarted EXCEPT ![e] = TRUE]
  /\ pc' = [t \in Thread |-> IF t \in ThreadsOf(e, starts[e] + 1) THEN "idle" ELSE pc[t]]
  /\ isActive' = [t \in Thread |->
                    IF t \in ThreadsOf(e, starts[e] + 1) THEN TRUE ELSE isActive[t]]
  /\ UNCHANGED <<jobs, tokens, now, todo, current, snapshot, stale, history, bounds>>

\* stop() deactivates the threads and does not wait for them.
Stop(e) ==
  /\ isStarted[e]
  /\ MonitorFree(e)
  /\ isStarted' = [isStarted EXCEPT ![e] = FALSE]
  /\ isActive' = [t \in Thread |->
                    IF t \in ThreadsOf(e, starts[e]) THEN FALSE ELSE isActive[t]]
  /\ UNCHANGED <<jobs, tokens, now, starts, pc, todo, current, snapshot, stale, history, bounds>>

BlankSnapshot == [j \in Job |-> BlankRow]

\* The JVM of executor e dies; its open transactions roll back.
Crash(e) ==
  LET dies(t) == t[1] = e /\ pc[t] # "new" IN
  /\ crashes + errors < MaxDeaths
  /\ \E t \in Thread : dies(t) /\ pc[t] # "dead"
  /\ crashes' = crashes + 1
  /\ isStarted' = [isStarted EXCEPT ![e] = FALSE]
  /\ pc' = [t \in Thread |-> IF dies(t) THEN "dead" ELSE pc[t]]
  /\ isActive' = [t \in Thread |-> IF dies(t) THEN FALSE ELSE isActive[t]]
  /\ todo' = [t \in Thread |-> IF dies(t) THEN {} ELSE todo[t]]
  /\ current' = [t \in Thread |-> IF dies(t) THEN None ELSE current[t]]
  /\ snapshot' = [t \in Thread |-> IF dies(t) THEN BlankSnapshot ELSE snapshot[t]]
  /\ stale' = [t \in Thread |-> IF dies(t) THEN {} ELSE stale[t]]
  /\ UNCHANGED <<jobs, tokens, now, starts, history, errors, admin>>
-----------------------------------------------------------------------------
(* JobExecutorThread.run                                                   *)

\* Mutant: the query does not look at lockOwner.
AcquirableByAnybody(j, owner) ==
  Stored(j) /\ jobs[j].retries > 0 /\ jobs[j].dueDate <= now /\ ~jobs[j].isSuspended

\* The query getFirstAcquirableJob, and the conditions findExclusiveJobs adds.
Acquirable(j, owner) ==
  /\ Stored(j)
  /\ jobs[j].lockOwner \in {None, owner}
  /\ jobs[j].retries > 0
  /\ jobs[j].dueDate <= now
  /\ ~jobs[j].isSuspended

FirstAcquirable(owner) ==
  {j \in Job : /\ Acquirable(j, owner)
               /\ \A k \in Job : Acquirable(k, owner) => jobs[j].dueDate <= jobs[k].dueDate}

JobsToLock(j, owner) ==
  IF j \in Exclusive
  THEN {k \in Exclusive : /\ InstanceOf[TokenOf[k]] = InstanceOf[TokenOf[j]]
                          /\ Acquirable(k, owner)}
  ELSE {j}

\* The thread is at point p of run() with nothing in hand.
Drop(t, p) ==
  /\ pc' = [pc EXCEPT ![t] = p]
  /\ todo' = [todo EXCEPT ![t] = {}]
  /\ current' = [current EXCEPT ![t] = None]
  /\ snapshot' = [snapshot EXCEPT ![t] = BlankSnapshot]

\* run() leaves its loops once the thread is deactivated.
Leave(t) ==
  /\ pc[t] \in {"idle", "run", "wait"}
  /\ ~isActive[t]
  /\ Drop(t, "dead")
  /\ UNCHANGED <<jobs, tokens, now, starts, isStarted, isActive, stale, history, bounds>>

\* acquireJobs up to the commit, when the query finds nothing.
AcquireNothing(t) ==
  /\ pc[t] = "idle" /\ isActive[t]
  /\ MonitorFree(t[1])
  /\ FirstAcquirable(ThreadName(t)) = {}
  /\ Drop(t, "wait")
  /\ UNCHANGED <<jobs, tokens, now, starts, isStarted, isActive, stale, history, bounds>>

\* setLockOwner and setLockTime.
Locked(row, owner) == [[row EXCEPT !.lockOwner = owner] EXCEPT !.lockTime = now]

\* acquireJobs up to the commit: query, setLockOwner, setLockTime.
Acquire(t) ==
  /\ pc[t] = "idle" /\ isActive[t]
  /\ MonitorFree(t[1])
  /\ \E j \in FirstAcquirable(ThreadName(t)) :
       /\ todo' = [todo EXCEPT ![t] = JobsToLock(j, ThreadName(t))]
       /\ snapshot' = [snapshot EXCEPT ![t] =
            [k \in Job |->
               IF k \in JobsToLock(j, ThreadName(t))
               THEN Locked(jobs[k], ThreadName(t))
               ELSE BlankRow]]
  /\ pc' = [pc EXCEPT ![t] = "acquire"]
  /\ UNCHANGED <<jobs, tokens, now, starts, isStarted, isActive, current, stale, history, bounds>>

\* Mutant: Job is mapped without a version.
ValidUnversioned(t) ==
  \A j \in (IF pc[t] = "execute" THEN {current[t]} ELSE todo[t]) : Stored(j)

\* The version check Hibernate makes of the rows it flushes.
Valid(t) ==
  /\ stale[t] = {}
  /\ \A j \in (IF pc[t] = "execute" THEN {current[t]} ELSE todo[t]) : Stored(j)

\* jbpmContext.close() in acquireJobs: commit, every column written.
AcquireCommit(t) ==
  /\ pc[t] = "acquire"
  /\ Valid(t)
  /\ jobs' = [j \in Job |-> IF j \in todo[t] THEN snapshot[t][j] ELSE jobs[j]]
  /\ Commit(t, todo[t])
  /\ pc' = [pc EXCEPT ![t] = "run"]
  /\ UNCHANGED <<tokens, now, starts, isStarted, isActive, todo, current, snapshot, history, bounds>>

\* StaleObjectStateException: nothing acquired, so the thread waits.
AcquireStale(t) ==
  /\ pc[t] = "acquire"
  /\ ~Valid(t)
  /\ Drop(t, "wait")
  /\ Commit(t, {})
  /\ UNCHANGED <<jobs, tokens, now, starts, isStarted, isActive, history, bounds>>

\* jobExecutor.wait is always bounded by the idle interval.
Wake(t) ==
  /\ pc[t] = "wait" /\ isActive[t]
  /\ pc' = [pc EXCEPT ![t] = "idle"]
  /\ UNCHANGED <<jobs, tokens, now, starts, isStarted, isActive, todo, current, snapshot,
                 stale, history, bounds>>

\* The list was queried in the order of dueDate.
NextTodo(t) ==
  {j \in todo[t] : \A k \in todo[t] : snapshot[t][j].dueDate <= snapshot[t][k].dueDate}

\* executeJob, loadJob: the row is read again; lock and suspension are not checked.
Load(t) ==
  /\ pc[t] = "run" /\ isActive[t]
  /\ \E j \in NextTodo(t) :
       /\ Stored(j)
       /\ current' = [current EXCEPT ![t] = j]
       /\ todo' = [todo EXCEPT ![t] = @ \ {j}]
       /\ snapshot' = [snapshot EXCEPT ![t][j] = jobs[j]]
  /\ pc' = [pc EXCEPT ![t] = "execute"]
  /\ UNCHANGED <<jobs, tokens, now, starts, isStarted, isActive, stale, history, bounds>>

\* The row is gone: ObjectNotFoundException leaves the loop over the list.
LoadMissing(t) ==
  /\ pc[t] = "run" /\ isActive[t]
  /\ \E j \in NextTodo(t) : ~Stored(j)
  /\ Drop(t, "wait")
  /\ UNCHANGED <<jobs, tokens, now, starts, isStarted, isActive, stale, history, bounds>>

\* After one job: the next one of the list, or the next acquisition.
Finish(t) ==
  /\ pc' = [pc EXCEPT ![t] = IF todo[t] = {} THEN "idle" ELSE "run"]
  /\ current' = [current EXCEPT ![t] = None]
  /\ snapshot' = [snapshot EXCEPT ![t] =
                    IF todo[t] = {} THEN BlankSnapshot
                    ELSE [@ EXCEPT ![current[t]] = BlankRow]]
  /\ UNCHANGED <<todo, isActive>>

\* The transaction of t that commits has executed the current job of t.
Executed(t) == executed' = [executed EXCEPT ![current[t]] = @ + 1]

LockedTooLong(t) == now - snapshot[t][current[t]].lockTime > MaxLockTime

\* Job.execute takes the token out of the node of job j.
MayLeave(j) ==
  LET tk == TokenOf[j] IN
  CASE Kind[j] = "ExecuteNodeJob" -> tokens[tk].lock \in {None, j}
    [] Kind[j] = "Timer" -> /\ tokens[tk].node = NodeOf[j]
                            /\ ~tokens[tk].isSuspended
                            /\ tokens[tk].lock = None
    [] OTHER -> FALSE

\* Job.execute returns without leaving the node: a wait state, a timer whose
\* transition does not exist here, a timer or an async action without transition.
MayStay(j) ==
  LET tk == TokenOf[j] IN
  CASE Kind[j] = "ExecuteNodeJob" -> tokens[tk].lock \in {None, j}
    [] Kind[j] = "Timer" -> tokens[tk].node # NodeOf[j]
    [] OTHER -> TRUE

\* The token after executing j, when it stays: ExecuteNodeJob has unlocked it.
StayToken(j) ==
  IF Kind[j] = "ExecuteNodeJob" /\ tokens[TokenOf[j]].lock \in {None, j}
  THEN [tokens EXCEPT ![TokenOf[j]] = [@ EXCEPT !.lock = None]]
  ELSE tokens

\* Timer.execute: repeat durations are added until the date is past now.
NextDueDate(due) ==
  IF due > now THEN due ELSE due + (((now - due) \div Repeat) + 1) * Repeat

\* Mutant: ExecuteActionJob.execute returns false.
DoneRowActionKept(t, j) ==
  IF Kind[j] = "ExecuteActionJob" THEN snapshot[t][j]
  ELSE [jobs[j] EXCEPT !.status = "deleted"]

\* The row of j after a successful execution.
DoneRow(t, j) ==
  IF Kind[j] = "RepeatTimer"
  THEN [snapshot[t][j] EXCEPT !.dueDate = NextDueDate(@)]
  ELSE [jobs[j] EXCEPT !.status = "deleted"]

\* executeJob: job.execute succeeds, the job is deleted or rescheduled, commit.
ExecuteAndStay(t) ==
  LET j == current[t] IN
  /\ pc[t] = "execute"
  /\ Valid(t) /\ ~LockedTooLong(t)
  /\ MayStay(j)
  /\ tokens' = StayToken(j)
  /\ jobs' = [jobs EXCEPT ![j] = DoneRow(t, j)]
  /\ fired' = [fired EXCEPT ![j] = @ + 1]
  /\ Executed(t)
  /\ Commit(t, {j, TokenOf[j]})
  /\ Finish(t)
  /\ UNCHANGED <<now, starts, isStarted, remaining, bounds>>

ExecuteAndLeave(t) ==
  LET j == current[t]
      tk == TokenOf[j]
      n == NodeOf[j] IN
  /\ pc[t] = "execute"
  /\ Valid(t) /\ ~LockedTooLong(t)
  /\ MayLeave(j) /\ FirstEntry(tk, n)
  /\ tokens' = LeaveToken(tk, n)
  /\ jobs' = [LeaveJobs(tk, n) EXCEPT ![j] = [jobs[j] EXCEPT !.status = "deleted"]]
  /\ fired' = [fired EXCEPT ![j] = @ + 1]
  /\ Executed(t)
  /\ remaining' = Remaining(tk, n)
  /\ Commit(t, {j, tk} \cup CancelledTimers(tk, n))
  /\ Finish(t)
  /\ UNCHANGED <<now, starts, isStarted, bounds>>

\* Mutant: a failure does not use up a retry.
FailedRowForever(t, j) == snapshot[t][j]

\* job.execute throws an Exception: it is recorded in the job, one retry is
\* used up, and the transaction commits with what was done before it.
FailedRow(t, j) == [snapshot[t][j] EXCEPT !.retries = @ - 1]

ExecuteFails(t) ==
  LET j == current[t] IN
  /\ pc[t] = "execute"
  /\ Valid(t) /\ ~LockedTooLong(t)
  /\ tokens' = StayToken(j)
  /\ jobs' = [jobs EXCEPT ![j] = FailedRow(t, j)]
  /\ Executed(t)
  /\ Commit(t, {j, TokenOf[j]})
  /\ Finish(t)
  /\ UNCHANGED <<now, starts, isStarted, fired, remaining, bounds>>

\* The exception comes from the node the token has moved to.  A timer has
\* been deleted by its own node-leave event by then.
ExecuteFailsLater(t) ==
  LET j == current[t]
      tk == TokenOf[j]
      n == NodeOf[j]
      left == LeaveJobs(tk, n) IN
  /\ pc[t] = "execute"
  /\ Valid(t) /\ ~LockedTooLong(t)
  /\ MayLeave(j) /\ FirstEntry(tk, n)
  /\ tokens' = LeaveToken(tk, n)
  /\ jobs' = [left EXCEPT ![j] = IF @.status = "deleted" THEN @ ELSE FailedRow(t, j)]
  /\ Executed(t)
  /\ remaining' = Remaining(tk, n)
  /\ Commit(t, {j, tk} \cup CancelledTimers(tk, n))
  /\ Finish(t)
  /\ UNCHANGED <<now, starts, isStarted, fired, bounds>>

\* setRollbackOnly after too long a lock, or a stale object at commit.
ExecuteRollback(t) ==
  /\ pc[t] = "execute"
  /\ ~Valid(t) \/ LockedTooLong(t)
  /\ Commit(t, {})
  /\ Finish(t)
  /\ UNCHANGED <<jobs, tokens, now, starts, isStarted, history, bounds>>

\* job.execute throws an Error: the finally clause still closes, and thereby
\* commits, the context; then the thread ends.
ErrorEnds(t) ==
  /\ pc[t] = "execute"
  /\ crashes + errors < MaxDeaths
  /\ errors' = errors + 1
  /\ Drop(t, "dead")
  /\ UNCHANGED <<now, starts, isStarted, isActive, fired, crashes, admin>>

\* The version check of that commit: the row of the job is not dirty, so only
\* that of the token is flushed.
ErrorCommits(t) == TokenOf[current[t]] \notin stale[t]

ExecuteError(t) ==
  LET j == current[t] IN
  /\ ErrorEnds(t)
  /\ ErrorCommits(t)
  /\ tokens' = StayToken(j)
  /\ Executed(t)
  /\ Commit(t, {TokenOf[j]})
  /\ UNCHANGED <<jobs, remaining>>

\* The same, after the token has left the node.
ExecuteErrorLater(t) ==
  LET j == current[t]
      tk == TokenOf[j]
      n == NodeOf[j] IN
  /\ ErrorEnds(t)
  /\ ErrorCommits(t)
  /\ MayLeave(j) /\ FirstEntry(tk, n)
  /\ tokens' = LeaveToken(tk, n)
  /\ jobs' = LeaveJobs(tk, n)
  /\ Executed(t)
  /\ remaining' = Remaining(tk, n)
  /\ Commit(t, {tk} \cup CancelledTimers(tk, n))

\* The same, with a stale token: the commit fails, and so does the thread.
ExecuteErrorStale(t) ==
  /\ ErrorEnds(t)
  /\ ~ErrorCommits(t)
  /\ Commit(t, {})
  /\ UNCHANGED <<jobs, tokens, executed, remaining>>
-----------------------------------------------------------------------------
Init ==
  /\ jobs = [j \in Job |-> IF NodeOf[j] = 0 THEN NewRow(j, 0) ELSE BlankRow]
  /\ tokens = [tk \in Token |-> [node |-> 0, lock |-> ContinuationLock(tk, 0),
                                 isSuspended |-> FALSE, ended |-> FALSE]]
  /\ now = 0
  /\ starts = [e \in Executor |-> 0]
  /\ isStarted = [e \in Executor |-> FALSE]
  /\ pc = [t \in Thread |-> "new"]
  /\ isActive = [t \in Thread |-> FALSE]
  /\ todo = [t \in Thread |-> {}]
  /\ current = [t \in Thread |-> None]
  /\ snapshot = [t \in Thread |-> BlankSnapshot]
  /\ stale = [t \in Thread |-> {}]
  /\ fired = [j \in Job |-> 0] /\ executed = [j \in Job |-> 0]
  /\ remaining = {}
  /\ crashes = 0 /\ errors = 0 /\ admin = 0

ThreadStep(t) ==
  \/ Leave(t)
  \/ AcquireNothing(t) \/ Acquire(t) \/ AcquireCommit(t) \/ AcquireStale(t)
  \/ Wake(t)
  \/ Load(t) \/ LoadMissing(t)
  \/ ExecuteAndStay(t) \/ ExecuteAndLeave(t)
  \/ ExecuteFails(t) \/ ExecuteFailsLater(t)
  \/ ExecuteRollback(t)

ErrorStep(t) == ExecuteError(t) \/ ExecuteErrorLater(t) \/ ExecuteErrorStale(t)

Next ==
  \/ \E t \in Thread : ThreadStep(t) \/ ErrorStep(t)
  \/ \E e \in Executor : Start(e) \/ Stop(e) \/ Crash(e)
  \/ \E tk \in Token : Signal(tk)
  \/ \E p \in ProcessInstance : Suspend(p) \/ Resume(p) \/ End(p)
  \/ Tick

Spec == Init /\ [][Next]_vars

\* A thread that can take a step of run() takes one: waits are bounded and
\* transactions end.  An executor that is down is started again.
ThreadFairness == \A t \in Thread : WF_vars(ThreadStep(t))
StartFairness == \A e \in Executor : WF_vars(Start(e))

FairSpec == Spec /\ ThreadFairness /\ StartFairness
-----------------------------------------------------------------------------
(* Properties.                                                             *)

Alive(t) == pc[t] \notin {"new", "dead"}

\* Thread t has acquired job j and has yet to settle it.
Holds(t, j) == pc[t] \in {"run", "execute"} /\ j \in todo[t] \cup {current[t]}

\* JobExecutorThread: a thread has a current job exactly while it executes,
\* and does nothing before the start it belongs to.
CurrentInv ==
  \A t \in Thread :
    /\ IF pc[t] = "execute" THEN current[t] \in Job ELSE current[t] = None
    /\ t[2] > starts[t[1]] => pc[t] = "new"

\* A row another session has not written since t read it to lock it is free
\* or locked by the name of t.
StillLockable(t, j) ==
  \/ j \in stale[t]
  \/ ~Stored(j)
  \/ jobs[j].lockOwner \in {None, ThreadName(t)}

\* acquireJobs and executeJob: a job a thread has acquired carries the
\* thread's name, and what a session is about to write back says so too.
LockDiscipline ==
  \A t \in Thread, j \in Job :
    /\ Holds(t, j) => jobs[j].lockOwner = ThreadName(t) /\ jobs[j].status # "new"
    /\ pc[t] = "acquire" /\ j \in todo[t] =>
         /\ jobs[j].status # "new"
         /\ snapshot[t][j].status = "stored"
         /\ snapshot[t][j].lockOwner = ThreadName(t)
         /\ StillLockable(t, j)
    /\ pc[t] = "execute" /\ j = current[t] =>
         /\ snapshot[t][j].status = "stored"
         /\ snapshot[t][j].lockOwner = ThreadName(t)

\* acquireJobs: two threads of different names never have the same job
\* acquired, whatever crashes, restarts and cancellations come in between.
MutualExclusion ==
  \A t, u \in Thread, j \in Job :
    Holds(t, j) /\ Holds(u, j) => ThreadName(t) = ThreadName(u)

\* executeJob: once a job that does not repeat has succeeded, no transaction
\* that executes it commits any more: no second success, no failure, no effects
\* left by an Error, not even in a thread of the same name that was executing
\* it at that moment.
AtMostOnce ==
  [][\A j \in Job : Kind[j] # "RepeatTimer" /\ fired[j] > 0 => executed'[j] = executed[j]]_vars

\* executeJob, where names identify threads: what a job that does not repeat
\* does is committed once, in success or failure, and once more per Error,
\* which leaves the job in the table as if nothing had been done.
OneCommitPerError ==
  \A j \in Job : Kind[j] # "RepeatTimer" => executed[j] <= 1 + errors

\* Node.enter and ExecuteNodeJob.execute: while a continuation can still be
\* executed, its token waits in the continuation's node, locked by it.  An
\* Error ends that: it commits the token's move and leaves the job stored.
PendingContinuationLocksToken ==
  errors = 0 =>
    \A j \in NodeJobs : Stored(j) /\ jobs[j].retries > 0 =>
      /\ tokens[TokenOf[j]].lock = j
      /\ tokens[TokenOf[j]].node = NodeOf[j]

\* The cancel-timer action on node-leave: a timer that is still stored
\* belongs to the node its token is in, as long as there was no Error.
TimersFollowToken ==
  errors = 0 => \A j \in Timers : Stored(j) => tokens[TokenOf[j]].node = NodeOf[j]

\* ExecuteNodeJob.execute: as long as there was no Error, a continuation
\* resumes the execution in the node where it was suspended, whether its
\* execution then succeeds or fails.
ResumesWhereSuspended ==
  [][errors' = 0 =>
       \A j \in NodeJobs :
         executed'[j] # executed[j] => tokens[TokenOf[j]].node = NodeOf[j]]_vars

\* ProcessInstance.end: as long as there was no Error, no timer and no
\* continuation that is stored when its process instance ends commits
\* afterwards, even if it is being executed at that moment.  (A job created
\* later, by the signal of an ended token, does.)
NothingFiresAfterEnd ==
  [][errors' = 0 =>
       \A j \in Timers \cup NodeJobs : executed'[j] # executed[j] => j \notin remaining]_vars

\* A job the queries offer to some thread.
Due(j) == \E t \in Thread : Acquirable(j, ThreadName(t))

\* A bound of the model, not of the code: executor e has used up its starts.
DownForGood(e) == ~isStarted[e] /\ starts[e] = MaxStarts

\* An Error has ended a thread of executor e, which goes on without it:
\* nobody starts another one until e is stopped.
Crippled(e) == isStarted[e] /\ \E t \in ThreadsOf(e, starts[e]) : pc[t] = "dead"

\* JobExecutorThread.run: a due job is executed, fails, or is cancelled or
\* suspended, even if the executor that locked it goes down and comes back,
\* unless an Error has taken a thread away.  In other words, time and again
\* it is not due.
DueJobsSettle ==
  \A j \in Job : []<>(~Due(j) \/ \E e \in Executor : DownForGood(e) \/ Crippled(e))
-----------------------------------------------------------------------------
(* What the documentation promises and the code does not keep.             *)

\* ProcessInstance.suspend: the queries of the job executor do not offer the
\* jobs of a suspended process instance.
SuspendedJobsAreHidden ==
  \A j \in Job, t \in Thread : tokens[TokenOf[j]].isSuspended => ~Acquirable(j, ThreadName(t))
=============================================================================
