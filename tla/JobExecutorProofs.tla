------------------------- MODULE JobExecutorProofs -------------------------
(***************************************************************************)
(* Theorems about JobExecutor, for every number of jobs, tokens, executors *)
(* and threads, with and without crashes, errors and shared thread names.  *)
(***************************************************************************)
EXTENDS JobExecutor, TLAPS

\* The names None, Job and Token stand apart (see NamesAssumption).
LEMMA ThreadNameType == \A t \in Thread : ThreadName(t) \in LockOwner
  BY ConstantsAssumption DEF Thread, ThreadName, LockOwner

LEMMA RowTypes ==
  /\ BlankRow \in Row
  /\ BlankSnapshot \in [Job -> Row]
  /\ \A j \in Job, n \in Nat : NewRow(j, n) \in Row
  BY ConstantsAssumption DEF BlankRow, BlankSnapshot, NewRow, Row

\* What the actions assign to one column keeps a row a row.
LEMMA RowUpdates ==
  ASSUME NEW r \in Row
  PROVE  /\ [r EXCEPT !.status = "deleted"] \in Row
         /\ [r EXCEPT !.retries = @ - 1] \in Row
         /\ \A d \in Int : [r EXCEPT !.dueDate = d] \in Row
         /\ \A b \in BOOLEAN : [r EXCEPT !.isSuspended = b] \in Row
         /\ \A o \in LockOwner : [r EXCEPT !.lockOwner = o] \in Row
         /\ \A n \in Nat : [r EXCEPT !.lockTime = n] \in Row
  BY DEF Row

LEMMA TokenUpdates ==
  ASSUME NEW r \in TokenRow
  PROVE  /\ [r EXCEPT !.lock = None] \in TokenRow
         /\ [r EXCEPT !.ended = TRUE] \in TokenRow
         /\ \A b \in BOOLEAN : [r EXCEPT !.isSuspended = b] \in TokenRow
  BY DEF TokenRow

\* Leaving a node keeps the tables well-formed.
LEMMA LeaveTypes ==
  ASSUME TypeOK, NEW tk \in Token, NEW n \in 0 .. (LastNode - 1)
  PROVE  /\ LeaveToken(tk, n) \in [Token -> TokenRow]
         /\ LeaveJobs(tk, n) \in [Job -> Row]
         /\ CancelledTimers(tk, n) \subseteq Job
         /\ Remaining(tk, n) \subseteq Job
<1>1. ContinuationLock(tk, n + 1) \in Job \cup {None}
  BY DEF ContinuationLock, CreatedAt
<1>2. LeaveToken(tk, n) \in [Token -> TokenRow]
  BY <1>1, ConstantsAssumption DEF LeaveToken, TypeOK, TokenRow
<1>3. LeaveJobs(tk, n) \in [Job -> Row]
  BY RowUpdates, RowTypes DEF LeaveJobs, TypeOK
<1>4. QED
  BY <1>2, <1>3 DEF CancelledTimers, CreatedAt, Remaining, StoredOf, TypeOK

\* What an execution leaves of the job's row and of the token.
LEMMA ExecutedTypes ==
  ASSUME TypeOK, NEW t \in Thread, NEW j \in Job
  PROVE  /\ DoneRow(t, j) \in Row
         /\ FailedRow(t, j) \in Row
         /\ StayToken(j) \in [Token -> TokenRow]
<1>1. snapshot[t][j] \in Row /\ jobs[j] \in Row /\ snapshot[t][j].dueDate \in Int
  BY DEF TypeOK, Row
<1>2. \A due \in Int : NextDueDate(due) \in Int
  BY ConstantsAssumption DEF NextDueDate, TypeOK
<1>3. DoneRow(t, j) \in Row
  BY <1>1, <1>2, RowUpdates DEF DoneRow
<1>4. FailedRow(t, j) \in Row
  BY <1>1, RowUpdates DEF FailedRow
<1>5. StayToken(j) \in [Token -> TokenRow]
  BY ConstantsAssumption, TokenUpdates DEF StayToken, TypeOK
<1>6. QED
  BY <1>3, <1>4, <1>5
-----------------------------------------------------------------------------
(* Type correctness.                                                       *)

TypeInv == TypeOK /\ CurrentInv

USE DEF vars, threadVars, bounds, history

LEMMA DropTypes ==
  ASSUME TypeInv, NEW t \in Thread, pc[t] # "new", UNCHANGED starts,
         NEW p \in {"idle", "wait", "dead"}, Drop(t, p)
  PROVE  /\ pc' \in [Thread -> {"new", "idle", "acquire", "run", "execute", "wait", "dead"}]
         /\ todo' \in [Thread -> SUBSET Job]
         /\ current' \in [Thread -> Job \cup {None}]
         /\ snapshot' \in [Thread -> [Job -> Row]]
         /\ CurrentInv'
  BY RowTypes DEF TypeInv, TypeOK, CurrentInv, Drop

LEMMA FinishTypes ==
  ASSUME TypeInv, NEW t \in Thread, pc[t] # "new", UNCHANGED starts, Finish(t)
  PROVE  /\ pc' \in [Thread -> {"new", "idle", "acquire", "run", "execute", "wait", "dead"}]
         /\ todo' \in [Thread -> SUBSET Job]
         /\ isActive' \in [Thread -> BOOLEAN]
         /\ current' \in [Thread -> Job \cup {None}]
         /\ snapshot' \in [Thread -> [Job -> Row]]
         /\ CurrentInv'
  BY RowTypes DEF TypeInv, TypeOK, CurrentInv, Finish

LEMMA CommitTypes ==
  ASSUME TypeInv, NEW W \in SUBSET (Job \cup Token)
  PROVE  /\ ClientCommit(W) => stale' \in [Thread -> SUBSET (Job \cup Token)]
         /\ \A t \in Thread : Commit(t, W) => stale' \in [Thread -> SUBSET (Job \cup Token)]
  BY DEF TypeInv, TypeOK, ClientCommit, Commit

LEMMA TypeInit == Init => TypeInv
<1> SUFFICES ASSUME Init PROVE TypeInv
  OBVIOUS
<1>1. \A tk \in Token : ContinuationLock(tk, 0) \in Job \cup {None}
  BY DEF ContinuationLock, CreatedAt
<1>2. tokens \in [Token -> TokenRow]
  BY <1>1, ConstantsAssumption DEF Init, TokenRow
<1>3. jobs \in [Job -> Row]
  BY RowTypes DEF Init
<1>4. QED
  BY <1>2, <1>3, RowTypes DEF Init, TypeInv, TypeOK, CurrentInv

\* One step per action; the transactions of job executor threads first.
LEMMA TypeThreadStep ==
  ASSUME TypeInv, NEW t \in Thread,
         ThreadStep(t) \/ ErrorStep(t)
  PROVE  TypeInv'
<1> DEFINE j == current[t]
<1> USE TypeInv
<1>0. pc[t] = "execute" =>
        /\ j \in Job /\ TokenOf[j] \in Token /\ NodeOf[j] \in 0 .. (LastNode - 1)
        /\ {j, TokenOf[j]} \in SUBSET (Job \cup Token)
        /\ CancelledTimers(TokenOf[j], NodeOf[j]) \subseteq Job
        /\ DoneRow(t, j) \in Row /\ FailedRow(t, j) \in Row
        /\ StayToken(j) \in [Token -> TokenRow]
        /\ LeaveToken(TokenOf[j], NodeOf[j]) \in [Token -> TokenRow]
        /\ LeaveJobs(TokenOf[j], NodeOf[j]) \in [Job -> Row]
        /\ [jobs[j] EXCEPT !.status = "deleted"] \in Row
        /\ Remaining(TokenOf[j], NodeOf[j]) \subseteq Job
        /\ Executed(t) => executed' \in [Job -> Nat]
  <2> SUFFICES ASSUME pc[t] = "execute"
               PROVE  <1>0!2
    OBVIOUS
  <2>1. j \in Job /\ TokenOf[j] \in Token /\ NodeOf[j] \in 0 .. (LastNode - 1)
    BY ConstantsAssumption DEF TypeInv, CurrentInv
  <2>2. jobs[j] \in Row
    BY <2>1 DEF TypeInv, TypeOK
  <2>3. Executed(t) => executed' \in [Job -> Nat]
    BY <2>1 DEF Executed, TypeInv, TypeOK
  <2>4. QED
    BY <2>1, <2>2, <2>3, ExecutedTypes, LeaveTypes, RowUpdates DEF TypeInv
<1>1. CASE Leave(t) \/ AcquireNothing(t) \/ LoadMissing(t)
  BY <1>1, DropTypes DEF Leave, AcquireNothing, LoadMissing, TypeInv, TypeOK
<1>2. CASE Acquire(t)
  <2>1. PICK k \in Job :
          /\ todo' = [todo EXCEPT ![t] = JobsToLock(k, ThreadName(t))]
          /\ snapshot' = [snapshot EXCEPT ![t] =
               [i \in Job |-> IF i \in JobsToLock(k, ThreadName(t))
                              THEN Locked(jobs[i], ThreadName(t)) ELSE BlankRow]]
    BY <1>2 DEF Acquire, FirstAcquirable
  <2>2. \A i \in Job : Locked(jobs[i], ThreadName(t)) \in Row
    BY RowUpdates, ThreadNameType DEF Locked, TypeInv, TypeOK
  <2>3. JobsToLock(k, ThreadName(t)) \in SUBSET Job
    BY ConstantsAssumption DEF JobsToLock
  <2>4. snapshot' \in [Thread -> [Job -> Row]] /\ todo' \in [Thread -> SUBSET Job]
    BY <2>1, <2>2, <2>3, RowTypes DEF TypeInv, TypeOK
  <2>5. QED
    BY <1>2, <2>4 DEF Acquire, TypeInv, TypeOK, CurrentInv
<1>3. CASE AcquireCommit(t)
  <2>1. stale' \in [Thread -> SUBSET (Job \cup Token)]
    BY <1>3, CommitTypes DEF AcquireCommit, TypeInv, TypeOK
  <2>2. jobs' \in [Job -> Row]
    BY <1>3 DEF AcquireCommit, TypeInv, TypeOK
  <2>3. QED
    BY <1>3, <2>1, <2>2 DEF AcquireCommit, TypeInv, TypeOK, CurrentInv
<1>4. CASE AcquireStale(t)
  BY <1>4, DropTypes, CommitTypes DEF AcquireStale, TypeInv, TypeOK
<1>5. CASE Wake(t)
  BY <1>5 DEF Wake, TypeInv, TypeOK, CurrentInv
<1>6. CASE Load(t)
  <2>1. PICK k \in Job :
          /\ current' = [current EXCEPT ![t] = k]
          /\ todo' = [todo EXCEPT ![t] = @ \ {k}]
          /\ snapshot' = [snapshot EXCEPT ![t][k] = jobs[k]]
    BY <1>6 DEF Load, NextTodo, TypeInv, TypeOK
  <2>2. snapshot' \in [Thread -> [Job -> Row]]
    BY <2>1 DEF TypeInv, TypeOK
  <2>3. QED
    BY <1>6, <2>1, <2>2 DEF Load, TypeInv, TypeOK, CurrentInv
<1>7. CASE ExecuteAndStay(t)
  <2>1. stale' \in [Thread -> SUBSET (Job \cup Token)]
    BY <1>0, <1>7, CommitTypes DEF ExecuteAndStay
  <2>2. jobs' \in [Job -> Row] /\ fired' \in [Job -> Nat]
    BY <1>0, <1>7 DEF ExecuteAndStay, TypeInv, TypeOK
  <2>3. QED
    BY <1>0, <1>7, <2>1, <2>2, FinishTypes DEF ExecuteAndStay, TypeInv, TypeOK
<1>8. CASE ExecuteAndLeave(t)
  <2>1. stale' \in [Thread -> SUBSET (Job \cup Token)]
    BY <1>0, <1>8, CommitTypes DEF ExecuteAndLeave
  <2>2. jobs' \in [Job -> Row] /\ fired' \in [Job -> Nat]
    BY <1>0, <1>8 DEF ExecuteAndLeave, TypeInv, TypeOK
  <2>3. QED
    BY <1>0, <1>8, <2>1, <2>2, FinishTypes DEF ExecuteAndLeave, TypeInv, TypeOK
<1>9. CASE ExecuteFails(t)
  <2>1. stale' \in [Thread -> SUBSET (Job \cup Token)] /\ jobs' \in [Job -> Row]
    BY <1>0, <1>9, CommitTypes DEF ExecuteFails, TypeInv, TypeOK
  <2>2. QED
    BY <1>0, <1>9, <2>1, FinishTypes DEF ExecuteFails, TypeInv, TypeOK
<1>10. CASE ExecuteFailsLater(t)
  <2>1. stale' \in [Thread -> SUBSET (Job \cup Token)]
    BY <1>0, <1>10, CommitTypes DEF ExecuteFailsLater
  <2>2. jobs' \in [Job -> Row]
    BY <1>0, <1>10 DEF ExecuteFailsLater
  <2>3. QED
    BY <1>0, <1>10, <2>1, <2>2, FinishTypes DEF ExecuteFailsLater, TypeInv, TypeOK
<1>11. CASE ExecuteRollback(t)
  BY <1>11, FinishTypes, CommitTypes DEF ExecuteRollback, TypeInv, TypeOK
<1>12. CASE ExecuteError(t)
  <2>1. stale' \in [Thread -> SUBSET (Job \cup Token)]
    BY <1>0, <1>12, CommitTypes DEF ExecuteError, ErrorEnds
  <2>2. QED
    BY <1>0, <1>12, <2>1, DropTypes DEF ExecuteError, ErrorEnds, TypeInv, TypeOK
<1>13. CASE ExecuteErrorLater(t)
  <2>1. stale' \in [Thread -> SUBSET (Job \cup Token)]
    BY <1>0, <1>13, CommitTypes DEF ExecuteErrorLater, ErrorEnds
  <2>2. QED
    BY <1>0, <1>13, <2>1, DropTypes DEF ExecuteErrorLater, ErrorEnds, TypeInv, TypeOK
<1>14. CASE ExecuteErrorStale(t)
  <2>1. stale' \in [Thread -> SUBSET (Job \cup Token)]
    BY <1>14, CommitTypes DEF ExecuteErrorStale
  <2>2. QED
    BY <1>14, <2>1, DropTypes DEF ExecuteErrorStale, ErrorEnds, TypeInv, TypeOK
<1>15. QED
  BY <1>1, <1>2, <1>3, <1>4, <1>5, <1>6, <1>7, <1>8, <1>9, <1>10, <1>11, <1>12, <1>13, <1>14
     DEF ThreadStep, ErrorStep

LEMMA TypeOtherStep ==
  ASSUME TypeInv,
         \/ \E e \in Executor : Start(e) \/ Stop(e) \/ Crash(e)
         \/ \E tk \in Token : Signal(tk)
         \/ \E p \in ProcessInstance : Suspend(p) \/ Resume(p) \/ End(p)
         \/ Tick
  PROVE  TypeInv'
<1> USE TypeInv
<1>1. ASSUME NEW e \in Executor, Start(e)
      PROVE  TypeInv'
  <2>1. starts' \in [Executor -> Nat] /\ isStarted' \in [Executor -> BOOLEAN]
    BY <1>1 DEF Start, TypeInv, TypeOK
  <2>2. isActive' \in [Thread -> BOOLEAN]
    BY <1>1 DEF Start, TypeInv, TypeOK
  <2>3. pc' \in [Thread -> {"new", "idle", "acquire", "run", "execute", "wait", "dead"}]
    BY <1>1 DEF Start, TypeInv, TypeOK
  <2>4. CurrentInv'
    <3>1. \A t \in ThreadsOf(e, starts[e] + 1) : pc[t] = "new"
      BY <1>1 DEF ThreadsOf, TypeInv, TypeOK, CurrentInv
    <3>2. SUFFICES ASSUME NEW t \in Thread
                   PROVE  CurrentInv!(t)'
      BY DEF CurrentInv
    <3>3. current[t] = current'[t] /\ t[1] \in Executor /\ t[2] \in Nat /\ starts[t[1]] \in Nat
      BY <1>1 DEF Start, TypeInv, TypeOK, Thread
    <3>4. t[2] > starts'[t[1]] => t[2] > starts[t[1]] /\ t \notin ThreadsOf(e, starts[e] + 1)
      BY <1>1, <3>3 DEF Start, TypeInv, TypeOK, ThreadsOf
    <3>5. QED
      BY <1>1, <3>1, <3>3, <3>4 DEF Start, TypeInv, TypeOK, CurrentInv
  <2>5. QED
    BY <1>1, <2>1, <2>2, <2>3, <2>4 DEF Start, TypeInv, TypeOK
<1>2. ASSUME NEW e \in Executor, Stop(e)
      PROVE  TypeInv'
  BY <1>2 DEF Stop, TypeInv, TypeOK, CurrentInv
<1>3. ASSUME NEW e \in Executor, Crash(e)
      PROVE  TypeInv'
  <2>1. snapshot' \in [Thread -> [Job -> Row]]
    BY <1>3, RowTypes DEF Crash, TypeInv, TypeOK
  <2>2. QED
    <3>1. isStarted' \in [Executor -> BOOLEAN] /\ crashes' \in Nat
      BY <1>3 DEF Crash, TypeInv, TypeOK
    <3>2. /\ isActive' \in [Thread -> BOOLEAN]
          /\ todo' \in [Thread -> SUBSET Job]
          /\ current' \in [Thread -> Job \cup {None}]
      BY <1>3 DEF Crash, TypeInv, TypeOK
    <3>3. /\ pc' \in [Thread -> {"new", "idle", "acquire", "run", "execute", "wait", "dead"}]
          /\ stale' \in [Thread -> SUBSET (Job \cup Token)]
      BY <1>3 DEF Crash, TypeInv, TypeOK
    <3>4. CurrentInv'
      BY <1>3 DEF Crash, TypeInv, TypeOK, CurrentInv
    <3>5. QED
      BY <1>3, <2>1, <3>1, <3>2, <3>3, <3>4 DEF Crash, TypeInv, TypeOK
<1>4. ASSUME NEW tk \in Token, Signal(tk)
      PROVE  TypeInv'
  <2> DEFINE n == tokens[tk].node
  <2>1. n \in 0 .. (LastNode - 1)
    BY <1>4, ConstantsAssumption DEF Signal, TypeInv, TypeOK, TokenRow
  <2>2. tokens' \in [Token -> TokenRow] /\ jobs' \in [Job -> Row]
        /\ {tk} \cup CancelledTimers(tk, n) \in SUBSET (Job \cup Token)
        /\ remaining' \subseteq Job
    BY <1>4, <2>1, LeaveTypes DEF Signal, TypeInv
  <2>3. stale' \in [Thread -> SUBSET (Job \cup Token)]
    BY <1>4, <2>2, CommitTypes DEF Signal
  <2>4. QED
    BY <1>4, <2>2, <2>3 DEF Signal, TypeInv, TypeOK, CurrentInv
<1>5. ASSUME NEW p \in ProcessInstance, NEW b \in BOOLEAN, SetSuspended(p, b),
             admin' \in {admin, admin + 1}
      PROVE  TypeInv'
  <2>1. tokens' \in [Token -> TokenRow]
    BY <1>5, TokenUpdates DEF SetSuspended, TypeInv, TypeOK
  <2>2. jobs' \in [Job -> Row]
    BY <1>5, RowUpdates DEF SetSuspended, TypeInv, TypeOK
  <2>3. TokensOf(p) \in SUBSET (Job \cup Token)
    BY DEF TokensOf
  <2>4. stale' \in [Thread -> SUBSET (Job \cup Token)]
    BY <1>5, <2>3, CommitTypes DEF SetSuspended
  <2>5. QED
    BY <1>5, <2>1, <2>2, <2>4 DEF SetSuspended, TypeInv, TypeOK, CurrentInv
<1>6. ASSUME NEW p \in ProcessInstance, End(p)
      PROVE  TypeInv'
  <2>1. tokens' \in [Token -> TokenRow]
    BY <1>6, TokenUpdates DEF End, TypeInv, TypeOK
  <2>2. jobs' \in [Job -> Row]
    BY <1>6, RowUpdates DEF End, TypeInv, TypeOK
  <2>3. {tk \in TokensOf(p) : ~tokens[tk].ended} \in SUBSET (Job \cup Token)
    BY DEF TokensOf
  <2>4. stale' \in [Thread -> SUBSET (Job \cup Token)]
    BY <1>6, <2>3, CommitTypes DEF End
  <2>5. QED
    BY <1>6, <2>1, <2>2, <2>4 DEF End, StoredOf, TypeInv, TypeOK, CurrentInv
<1>7. ASSUME Tick
      PROVE  TypeInv'
  BY <1>7 DEF Tick, TypeInv, TypeOK, CurrentInv
<1>8. QED
  BY <1>1, <1>2, <1>3, <1>4, <1>5, <1>6, <1>7 DEF Suspend, Resume

LEMMA TypeStep == TypeInv /\ [Next]_vars => TypeInv'
<1> SUFFICES ASSUME TypeInv, [Next]_vars
             PROVE  TypeInv'
  OBVIOUS
<1>1. CASE UNCHANGED vars
  BY <1>1 DEF TypeInv, TypeOK, CurrentInv
<1>2. CASE Next
  BY <1>2, TypeThreadStep, TypeOtherStep DEF Next
<1>3. QED
  BY <1>1, <1>2

\* Every reachable state of JobExecutor is well-typed: tables, thread
\* positions and sessions keep their shape through every transaction.
THEOREM TypeCorrect == Spec => []TypeOK
<1>1. Spec => []TypeInv
  BY TypeInit, TypeStep, PTL DEF Spec
<1>2. TypeInv => TypeOK
  BY DEF TypeInv
<1>3. QED
  BY <1>1, <1>2, PTL
-----------------------------------------------------------------------------
(* Locking and at-most-once execution.                                     *)

\* A job that has succeeded is deleted.
SucceededIsGone ==
  \A j \in Job : Kind[j] # "RepeatTimer" =>
    fired[j] <= 1 /\ (fired[j] = 1 => jobs[j].status = "deleted")

\* Job j of thread t has succeeded in another thread: t, if it still executes
\* j, holds a token that was written since.
Seen(t, j) == pc[t] = "execute" /\ current[t] = j /\ fired[j] > 0 => TokenOf[j] \in stale[t]

SuccessIsSeen == \A t \in Thread, j \in Job : Kind[j] # "RepeatTimer" => Seen(t, j)

IndInv == TypeInv /\ LockDiscipline /\ SucceededIsGone /\ SuccessIsSeen

\* LockDiscipline for one thread and one job.
Disciplined(t, j) == LockDiscipline!(t, j)

\* A step does to the row of j nothing that a session which holds it or is
\* about to lock it would have to know of: it creates the row, deletes it, or
\* leaves its lock owner alone.
RowKept(j) ==
  \/ jobs[j].status = "new"
  \/ /\ jobs'[j].lockOwner = jobs[j].lockOwner
     /\ jobs'[j].status # "new"
     /\ jobs'[j].status = "stored" => jobs[j].status = "stored"

\* The local state of thread t does not change.
SameThread(t) ==
  /\ pc'[t] = pc[t] /\ todo'[t] = todo[t] /\ current'[t] = current[t]
  /\ snapshot'[t] = snapshot[t] /\ stale[t] \subseteq stale'[t]

LEMMA NoneIsNoOwner == None \notin LockOwner /\ None \notin Job
  BY NamesAssumption DEF LockOwner

\* What other sessions do to the table does not disturb a thread's discipline.
LEMMA Undisturbed ==
  ASSUME IndInv, NEW u \in Thread, NEW j \in Job, SameThread(u), RowKept(j)
  PROVE  Disciplined(u, j)'
<1> USE DEF Disciplined, SameThread, Holds, StillLockable, Stored
<1>1. Disciplined(u, j)
  BY DEF IndInv, LockDiscipline
<1>2. CASE jobs[j].status = "new"
  BY <1>1, <1>2
<1>3. CASE jobs[j].status # "new"
  BY <1>1, <1>3 DEF RowKept, ThreadName
<1>4. QED
  BY <1>2, <1>3

\* A thread with nothing in hand is trivially disciplined.
LEMMA NothingInHand ==
  ASSUME NEW u \in Thread, NEW j \in Job, pc'[u] \notin {"acquire", "run", "execute"}
  PROVE  Disciplined(u, j)'
  BY DEF Disciplined, Holds

\* The rows after Token.signal, or a job that leaves its node.
LEMMA LeaveKeepsRows ==
  ASSUME TypeOK, NEW tk \in Token, NEW n \in 0 .. (LastNode - 1), FirstEntry(tk, n),
         NEW j \in Job, jobs'[j] = LeaveJobs(tk, n)[j]
  PROVE  RowKept(j)
<1>1. CASE j \in LeaveDeletes(tk, n)
  <2>1. Stored(j)
    BY <1>1 DEF LeaveDeletes, CancelledTimers, DeletedAtEnd, StoredOf
  <2>2. jobs'[j] = [jobs[j] EXCEPT !.status = "deleted"] /\ jobs[j] \in Row
    BY <1>1 DEF LeaveJobs, TypeOK
  <2>3. QED
    BY <2>1, <2>2 DEF RowKept, Row
<1>2. CASE j \in CreatedAt(tk, n + 1)
  BY <1>2 DEF FirstEntry, RowKept
<1>3. CASE j \notin LeaveDeletes(tk, n) /\ j \notin CreatedAt(tk, n + 1)
  BY <1>3 DEF LeaveJobs, RowKept
<1>4. QED
  BY <1>1, <1>2, <1>3

\* Without an execution, deleted rows stay deleted.
LEMMA NoExecution ==
  ASSUME IndInv, TypeInv', UNCHANGED fired, \A j \in Job : RowKept(j)
  PROVE  SucceededIsGone'
<1> SUFFICES ASSUME NEW j \in Job, Kind[j] # "RepeatTimer"
             PROVE  fired'[j] <= 1 /\ (fired'[j] = 1 => jobs'[j].status = "deleted")
  BY DEF SucceededIsGone
<1>1. jobs'[j].status \in {"new", "stored", "deleted"}
  BY DEF TypeInv, TypeOK, Row
<1>2. fired[j] <= 1 /\ (fired[j] = 1 => jobs[j].status = "deleted")
  BY DEF IndInv, SucceededIsGone
<1>3. QED
  BY <1>1, <1>2 DEF RowKept

\* A job executes only while its row is stored, and then the row is deleted.
LEMMA Execution ==
  ASSUME IndInv, TypeInv', NEW j \in Job, Stored(j), \A k \in Job : RowKept(k),
         fired' = [fired EXCEPT ![j] = @ + 1],
         Kind[j] # "RepeatTimer" => jobs'[j].status = "deleted"
  PROVE  SucceededIsGone'
<1> SUFFICES ASSUME NEW k \in Job, Kind[k] # "RepeatTimer"
             PROVE  fired'[k] <= 1 /\ (fired'[k] = 1 => jobs'[k].status = "deleted")
  BY DEF SucceededIsGone
<1>1. jobs'[k].status \in {"new", "stored", "deleted"}
  BY DEF TypeInv, TypeOK, Row
<1>2. fired[k] \in Nat /\ fired[k] <= 1 /\ (fired[k] = 1 => jobs[k].status = "deleted")
  BY DEF IndInv, SucceededIsGone, TypeInv, TypeOK
<1>3. CASE k = j
  BY <1>2, <1>3 DEF Stored, IndInv, TypeInv, TypeOK
<1>4. CASE k # j
  BY <1>1, <1>2, <1>4 DEF RowKept, IndInv, TypeInv, TypeOK
<1>5. QED
  BY <1>3, <1>4

\* Commit and Finish leave the other threads alone.
LEMMA OtherThreads ==
  ASSUME IndInv, NEW t \in Thread, NEW u \in Thread, u # t
  PROVE  /\ \A W : Commit(t, W) => stale[u] \subseteq stale'[u]
         /\ Finish(t) => UNCHANGED <<pc[u], todo[u], current[u], snapshot[u]>>
         /\ \A p : Drop(t, p) => UNCHANGED <<pc[u], todo[u], current[u], snapshot[u]>>
<1>1. \A W : Commit(t, W) => stale[u] \subseteq stale'[u]
  BY DEF Commit
<1>2. Finish(t) => UNCHANGED <<pc[u], todo[u], current[u], snapshot[u]>>
  BY DEF Finish, IndInv, TypeInv, TypeOK
<1>3. \A p : Drop(t, p) => UNCHANGED <<pc[u], todo[u], current[u], snapshot[u]>>
  BY DEF Drop, IndInv, TypeInv, TypeOK
<1>4. QED
  BY <1>1, <1>2, <1>3

\* A thread that has settled its current job still owns the rest of its list.
LEMMA RestOfTheList ==
  ASSUME IndInv, NEW t \in Thread, pc[t] = "execute", Finish(t), \A k \in Job : RowKept(k)
  PROVE  \A j \in Job : Disciplined(t, j)'
<1> SUFFICES ASSUME NEW j \in Job
             PROVE  Disciplined(t, j)'
  OBVIOUS
<1>1. pc'[t] \in {"idle", "run"} /\ todo'[t] = todo[t] /\ current'[t] = None
  BY DEF Finish, IndInv, TypeInv, TypeOK
<1>2. j \in todo[t] => jobs[j].lockOwner = ThreadName(t) /\ jobs[j].status # "new"
  BY DEF IndInv, LockDiscipline, Holds
<1>3. Holds(t, j)' => j \in todo[t]
  BY <1>1, NoneIsNoOwner DEF Holds
<1>4. QED
  BY <1>1, <1>2, <1>3 DEF Disciplined, RowKept, ThreadName

\* The transactions that execute a job: the row they write is the current
\* job's, which is stored and carries the thread's name.
LEMMA ExecutionKeepsRows ==
  ASSUME IndInv, NEW t \in Thread, pc[t] = "execute", Valid(t)
  PROVE  LET j == current[t] IN
         /\ j \in Job /\ Stored(j) /\ jobs[j] \in Row
         /\ jobs[j].lockOwner = ThreadName(t)
         /\ snapshot[t][j] \in Row
         /\ snapshot[t][j].status = "stored"
         /\ snapshot[t][j].lockOwner = ThreadName(t)
<1>1. current[t] \in Job /\ Stored(current[t])
  BY DEF IndInv, TypeInv, CurrentInv, Valid
<1>2. Holds(t, current[t])
  BY DEF Holds
<1>3. QED
  BY <1>1, <1>2 DEF IndInv, LockDiscipline, TypeInv, TypeOK

\* Splitting the goal by thread.
LEMMA ByThread ==
  ASSUME IndInv, NEW t \in Thread,
         \A j \in Job : Disciplined(t, j)',
         \A u \in Thread : u # t => SameThread(u),
         \A j \in Job : RowKept(j)
  PROVE  LockDiscipline'
<1>1. \A u \in Thread, j \in Job : u # t => Disciplined(u, j)'
  BY Undisturbed
<1>2. \A u \in Thread, j \in Job : Disciplined(u, j)'
  BY <1>1
<1>3. QED
  BY <1>2 DEF LockDiscipline, Disciplined

\* What the execution of a job by t does to the rows, in each of its outcomes.
LEMMA ExecutedRows ==
  ASSUME IndInv, NEW t \in Thread, pc[t] = "execute", Valid(t), NEW j, j = current[t]
  PROVE  /\ jobs' = [jobs EXCEPT ![j] = DoneRow(t, j)] \/
            jobs' = [jobs EXCEPT ![j] = FailedRow(t, j)]
              => \A k \in Job : RowKept(k)
         /\ \A tk \in Token, n \in 0 .. (LastNode - 1) :
              FirstEntry(tk, n) /\
              (\/ jobs' = LeaveJobs(tk, n)
               \/ jobs' = [LeaveJobs(tk, n) EXCEPT ![j] = [jobs[j] EXCEPT !.status = "deleted"]]
               \/ jobs' = [LeaveJobs(tk, n) EXCEPT ![j] =
                             IF @.status = "deleted" THEN @ ELSE FailedRow(t, j)])
              => \A k \in Job : RowKept(k)
<1>0. /\ j \in Job /\ jobs[j] \in Row /\ jobs[j].status = "stored"
      /\ jobs[j].lockOwner = ThreadName(t)
      /\ snapshot[t][j] \in Row /\ snapshot[t][j].status = "stored"
      /\ snapshot[t][j].lockOwner = ThreadName(t)
  BY ExecutionKeepsRows DEF Stored
<1>1. \A r \in {DoneRow(t, j), FailedRow(t, j), [jobs[j] EXCEPT !.status = "deleted"]} :
        r.status # "new" /\ r.lockOwner = jobs[j].lockOwner
  <2>1. FailedRow(t, j).status # "new" /\ FailedRow(t, j).lockOwner = jobs[j].lockOwner
    BY <1>0 DEF Row, FailedRow
  <2>2. /\ [jobs[j] EXCEPT !.status = "deleted"].status # "new"
        /\ [jobs[j] EXCEPT !.status = "deleted"].lockOwner = jobs[j].lockOwner
    BY <1>0 DEF Row
  <2>3. DoneRow(t, j).status # "new" /\ DoneRow(t, j).lockOwner = jobs[j].lockOwner
    BY <1>0, <2>2 DEF Row, DoneRow
  <2>4. QED
    BY <2>1, <2>2, <2>3
<1>2. jobs \in [Job -> Row]
  BY DEF IndInv, TypeInv, TypeOK
<1>3. ASSUME jobs' = [jobs EXCEPT ![j] = DoneRow(t, j)] \/
             jobs' = [jobs EXCEPT ![j] = FailedRow(t, j)]
      PROVE  \A k \in Job : RowKept(k)
  BY <1>0, <1>1, <1>2, <1>3 DEF RowKept
<1>4. ASSUME NEW tk \in Token, NEW n \in 0 .. (LastNode - 1), FirstEntry(tk, n),
             \/ jobs' = LeaveJobs(tk, n)
             \/ jobs' = [LeaveJobs(tk, n) EXCEPT ![j] = [jobs[j] EXCEPT !.status = "deleted"]]
             \/ jobs' = [LeaveJobs(tk, n) EXCEPT ![j] =
                           IF @.status = "deleted" THEN @ ELSE FailedRow(t, j)],
             NEW k \in Job
      PROVE  RowKept(k)
  <2>1. CASE jobs'[k] = LeaveJobs(tk, n)[k]
    BY <1>4, <2>1, LeaveKeepsRows DEF IndInv, TypeInv
  <2>2. CASE jobs'[k] # LeaveJobs(tk, n)[k]
    <3>1. LeaveJobs(tk, n) \in [Job -> Row]
      BY LeaveTypes DEF IndInv, TypeInv
    <3>2. k = j /\ jobs'[k] \in {FailedRow(t, j), [jobs[j] EXCEPT !.status = "deleted"]}
      BY <1>4, <2>2, <3>1
    <3>3. QED
      BY <1>0, <1>1, <3>2 DEF RowKept
  <2>3. QED
    BY <2>1, <2>2
<1>5. QED
  BY <1>3, <1>4

\* Steps of a thread that leave the tables alone and the thread empty-handed.
LEMMA DropStep ==
  ASSUME IndInv, TypeInv', NEW t \in Thread, UNCHANGED <<jobs, fired>>,
         pc'[t] \notin {"acquire", "run", "execute"},
         \A u \in Thread : u # t => SameThread(u)
  PROVE  LockDiscipline' /\ SucceededIsGone'
<1>1. \A j \in Job : RowKept(j)
  BY DEF RowKept
<1>2. \A j \in Job : Disciplined(t, j)'
  BY NothingInHand
<1>3. QED
  BY <1>1, <1>2, ByThread, NoExecution

\* AcquireCommit: the version check has ruled out that another name owns one
\* of the rows, so every other thread that holds one has the same name.
LEMMA AcquireCommitStep ==
  ASSUME IndInv, TypeInv', NEW t \in Thread, AcquireCommit(t)
  PROVE  LockDiscipline' /\ SucceededIsGone'
<1>1. /\ pc[t] = "acquire" /\ pc' = [pc EXCEPT ![t] = "run"]
      /\ UNCHANGED <<todo, current, snapshot, fired>>
      /\ stale[t] = {} /\ \A j \in todo[t] : Stored(j)
      /\ jobs' = [j \in Job |-> IF j \in todo[t] THEN snapshot[t][j] ELSE jobs[j]]
      /\ \A u \in Thread : u # t => stale'[u] = stale[u] \cup (todo[t] \cap Reads(u))
  BY DEF AcquireCommit, Valid, Commit
<1>2. \A j \in todo[t] : /\ j \in Job /\ Stored(j)
                         /\ jobs[j].lockOwner \in {None, ThreadName(t)}
                         /\ jobs'[j].status = "stored"
                         /\ jobs'[j].lockOwner = ThreadName(t)
  <2> TAKE j \in todo[t]
  <2>1. j \in Job
    BY DEF IndInv, TypeInv, TypeOK
  <2>2. Disciplined(t, j)
    BY <2>1 DEF IndInv, LockDiscipline, Disciplined
  <2>3. jobs'[j] = snapshot[t][j]
    BY <1>1, <2>1
  <2>4. QED
    BY <1>1, <2>1, <2>2, <2>3 DEF Disciplined, StillLockable
<1>3. \A j \in Job : j \notin todo[t] => jobs'[j] = jobs[j] /\ RowKept(j)
  BY <1>1 DEF RowKept
<1>4. \A j \in Job : Disciplined(t, j)'
  <2> TAKE j \in Job
  <2>1. pc'[t] = "run" /\ todo'[t] = todo[t] /\ current'[t] = None
    BY <1>1 DEF IndInv, TypeInv, TypeOK, CurrentInv
  <2>2. Holds(t, j)' => j \in todo[t]
    BY <2>1, NoneIsNoOwner DEF Holds
  <2>3. QED
    BY <1>2, <2>1, <2>2 DEF Disciplined, ThreadName
<1>5. ASSUME NEW u \in Thread, u # t, NEW j \in Job
      PROVE  Disciplined(u, j)'
  <2>1. SameThread(u)
    BY <1>1, <1>5 DEF SameThread, IndInv, TypeInv, TypeOK
  <2>2. CASE j \notin todo[t]
    BY <1>3, <2>1, <2>2, Undisturbed
  <2>3. CASE j \in todo[t]
    <3>1. Disciplined(u, j)
      BY DEF IndInv, LockDiscipline, Disciplined
    <3>2. Holds(u, j) => ThreadName(u) = ThreadName(t)
      BY <1>2, <2>3, <3>1, ThreadNameType, NoneIsNoOwner DEF Disciplined
    <3>3. pc[u] = "acquire" /\ j \in todo[u] => j \in stale'[u]
      BY <1>1, <1>5, <2>3 DEF Reads
    <3>4. Holds(u, j)' = Holds(u, j)
      BY <2>1 DEF SameThread, Holds
    <3>5. QED
      BY <1>2, <2>1, <2>3, <3>1, <3>2, <3>3, <3>4
         DEF Disciplined, SameThread, StillLockable, ThreadName
  <2>4. QED
    BY <2>2, <2>3
<1>6. LockDiscipline'
  BY <1>4, <1>5 DEF LockDiscipline, Disciplined
<1>7. SucceededIsGone'
  BY <1>1, <1>2, <1>3 DEF IndInv, SucceededIsGone, Stored
<1>8. QED
  BY <1>6, <1>7

\* The steps that execute a job and then go on with the list.
LEMMA SettleStep ==
  ASSUME IndInv, TypeInv', NEW t \in Thread, pc[t] = "execute", Finish(t),
         NEW W, Commit(t, W), \A j \in Job : RowKept(j)
  PROVE  LockDiscipline'
<1>1. \A u \in Thread : u # t => SameThread(u)
  BY OtherThreads DEF SameThread
<1>2. QED
  BY <1>1, RestOfTheList, ByThread

\* One step per action of a job executor thread.
LEMMA IndThreadStep ==
  ASSUME IndInv, TypeInv', NEW t \in Thread,
         ThreadStep(t) \/ ErrorStep(t)
  PROVE  LockDiscipline' /\ SucceededIsGone'
<1> DEFINE j == current[t]
           tk == TokenOf[j]
           n == NodeOf[j]
<1>a. pc[t] = "execute" => j \in Job /\ tk \in Token /\ n \in 0 .. (LastNode - 1)
  BY ConstantsAssumption DEF IndInv, TypeInv, CurrentInv
<1>b. UNCHANGED jobs => \A k \in Job : RowKept(k)
  BY DEF RowKept
<1>c. \A p \in {"idle", "wait", "dead"} : Drop(t, p) => pc'[t] = p
  BY DEF Drop, IndInv, TypeInv, TypeOK
<1>1. CASE Leave(t) \/ AcquireNothing(t) \/ LoadMissing(t)
  <2>1. /\ UNCHANGED <<jobs, fired, stale>>
        /\ \E p \in {"idle", "wait", "dead"} : Drop(t, p)
    BY <1>1 DEF Leave, AcquireNothing, LoadMissing
  <2>2. \A u \in Thread : u # t => SameThread(u)
    BY <2>1, OtherThreads DEF SameThread
  <2>3. QED
    BY <1>c, <2>1, <2>2, DropStep
<1>2. CASE Acquire(t)
  <2>1. PICK k \in FirstAcquirable(ThreadName(t)) :
          /\ todo' = [todo EXCEPT ![t] = JobsToLock(k, ThreadName(t))]
          /\ snapshot' = [snapshot EXCEPT ![t] =
               [i \in Job |-> IF i \in JobsToLock(k, ThreadName(t))
                              THEN Locked(jobs[i], ThreadName(t)) ELSE BlankRow]]
    BY <1>2 DEF Acquire
  <2>2. \A i \in JobsToLock(k, ThreadName(t)) : i \in Job /\ Acquirable(i, ThreadName(t))
    BY <2>1, ConstantsAssumption DEF FirstAcquirable, JobsToLock
  <2>3. \A u \in Thread : u # t => SameThread(u)
    BY <1>2, <2>1 DEF Acquire, SameThread, IndInv, TypeInv, TypeOK
  <2>4. \A i \in Job : Disciplined(t, i)'
    <3> TAKE i \in Job
    <3>1. pc'[t] = "acquire" /\ todo'[t] = JobsToLock(k, ThreadName(t)) /\ jobs'[i] = jobs[i]
      BY <1>2, <2>1 DEF Acquire, IndInv, TypeInv, TypeOK
    <3>2. CASE i \in todo'[t]
      <4>1. jobs[i].status = "stored" /\ jobs[i].lockOwner \in {None, ThreadName(t)}
        BY <2>2, <3>1, <3>2 DEF Acquirable, Stored
      <4>2. snapshot'[t][i] = Locked(jobs[i], ThreadName(t)) /\ jobs[i] \in Row
        BY <2>1, <3>1, <3>2 DEF IndInv, TypeInv, TypeOK
      <4>3. snapshot'[t][i].status = "stored" /\ snapshot'[t][i].lockOwner = ThreadName(t)
        BY <4>1, <4>2 DEF Locked, Row
      <4>4. QED
        BY <3>1, <4>1, <4>3 DEF Disciplined, Holds, StillLockable, ThreadName
    <3>3. CASE i \notin todo'[t]
      BY <3>1, <3>3 DEF Disciplined, Holds
    <3>4. QED
      BY <3>2, <3>3
  <2>5. QED
    BY <1>2, <1>b, <2>3, <2>4, ByThread, NoExecution DEF Acquire
<1>3. CASE AcquireCommit(t)
  BY <1>3, AcquireCommitStep
<1>4. CASE AcquireStale(t)
  <2>1. \A u \in Thread : u # t => SameThread(u)
    BY <1>4, OtherThreads DEF AcquireStale, SameThread
  <2>2. QED
    BY <1>4, <1>c, <2>1, DropStep DEF AcquireStale
<1>5. CASE Wake(t)
  <2>1. \A u \in Thread : u # t => SameThread(u)
    BY <1>5 DEF Wake, SameThread, IndInv, TypeInv, TypeOK
  <2>2. pc'[t] = "idle"
    BY <1>5 DEF Wake, IndInv, TypeInv, TypeOK
  <2>3. QED
    BY <1>5, <2>1, <2>2, DropStep DEF Wake
<1>6. CASE Load(t)
  <2>1. PICK k \in todo[t] :
          /\ Stored(k)
          /\ current' = [current EXCEPT ![t] = k]
          /\ todo' = [todo EXCEPT ![t] = @ \ {k}]
          /\ snapshot' = [snapshot EXCEPT ![t][k] = jobs[k]]
    BY <1>6 DEF Load, NextTodo
  <2>2. \A u \in Thread : u # t => SameThread(u)
    BY <1>6, <2>1 DEF Load, SameThread, IndInv, TypeInv, TypeOK
  <2>3. k \in Job
    BY DEF IndInv, TypeInv, TypeOK
  <2>4. \A i \in Job : Disciplined(t, i)'
    <3> TAKE i \in Job
    <3>1. /\ pc[t] = "run" /\ pc'[t] = "execute" /\ current'[t] = k
          /\ todo'[t] = todo[t] \ {k} /\ snapshot'[t][k] = jobs[k] /\ UNCHANGED jobs
      BY <1>6, <2>1, <2>3 DEF Load, IndInv, TypeInv, TypeOK
    <3>2. Holds(t, i)' => Holds(t, i)
      BY <3>1 DEF Holds
    <3>3. Holds(t, k)
      BY <3>1 DEF Holds
    <3>4. \A m \in Job : Holds(t, m) => jobs[m].lockOwner = ThreadName(t) /\ jobs[m].status # "new"
      BY DEF IndInv, LockDiscipline
    <3>5. QED
      BY <2>1, <2>3, <3>1, <3>2, <3>3, <3>4 DEF Disciplined, Stored, ThreadName
  <2>5. QED
    BY <1>6, <1>b, <2>2, <2>4, ByThread, NoExecution DEF Load
<1>7. CASE ExecuteAndStay(t)
  <2>1. \A k \in Job : RowKept(k)
    BY <1>7, ExecutedRows DEF ExecuteAndStay
  <2>2. LockDiscipline'
    BY <1>7, <2>1, SettleStep DEF ExecuteAndStay
  <2>3. Kind[j] # "RepeatTimer" => jobs'[j].status = "deleted"
    BY <1>7, <1>a DEF ExecuteAndStay, DoneRow, IndInv, TypeInv, TypeOK, Row
  <2>4. QED
    BY <1>7, <1>a, <2>1, <2>2, <2>3, Execution, ExecutionKeepsRows DEF ExecuteAndStay
<1>8. CASE ExecuteAndLeave(t)
  <2>1. \A k \in Job : RowKept(k)
    BY <1>8, <1>a, ExecutedRows DEF ExecuteAndLeave
  <2>2. LockDiscipline'
    BY <1>8, <2>1, SettleStep DEF ExecuteAndLeave
  <2>3. jobs'[j].status = "deleted"
    BY <1>8, <1>a, LeaveTypes DEF ExecuteAndLeave, IndInv, TypeInv, TypeOK, Row
  <2>4. QED
    BY <1>8, <1>a, <2>1, <2>2, <2>3, Execution, ExecutionKeepsRows DEF ExecuteAndLeave
<1>9. CASE ExecuteFails(t)
  <2>1. \A k \in Job : RowKept(k)
    BY <1>9, ExecutedRows DEF ExecuteFails
  <2>2. QED
    BY <1>9, <2>1, SettleStep, NoExecution DEF ExecuteFails
<1>10. CASE ExecuteFailsLater(t)
  <2>1. \A k \in Job : RowKept(k)
    BY <1>10, <1>a, ExecutedRows DEF ExecuteFailsLater
  <2>2. QED
    BY <1>10, <2>1, SettleStep, NoExecution DEF ExecuteFailsLater
<1>11. CASE ExecuteRollback(t)
  BY <1>11, <1>b, SettleStep, NoExecution DEF ExecuteRollback
<1>12. CASE ExecuteError(t)
  <2>1. \A u \in Thread : u # t => SameThread(u)
    BY <1>12, OtherThreads DEF ExecuteError, ErrorEnds, SameThread
  <2>2. QED
    BY <1>12, <1>c, <2>1, DropStep DEF ExecuteError, ErrorEnds
<1>13. CASE ExecuteErrorLater(t)
  <2>1. \A u \in Thread : u # t => SameThread(u)
    BY <1>13, OtherThreads DEF ExecuteErrorLater, ErrorEnds, SameThread
  <2>2. \A k \in Job : RowKept(k)
    BY <1>13, <1>a, LeaveKeepsRows DEF ExecuteErrorLater, ErrorEnds, IndInv, TypeInv
  <2>3. \A k \in Job : Disciplined(t, k)'
    BY <1>13, <1>c, NothingInHand DEF ExecuteErrorLater, ErrorEnds
  <2>4. QED
    BY <1>13, <2>1, <2>2, <2>3, ByThread, NoExecution DEF ExecuteErrorLater, ErrorEnds
<1>14. CASE ExecuteErrorStale(t)
  <2>1. \A u \in Thread : u # t => SameThread(u)
    BY <1>14, OtherThreads DEF ExecuteErrorStale, ErrorEnds, SameThread
  <2>2. QED
    BY <1>14, <1>c, <2>1, DropStep DEF ExecuteErrorStale, ErrorEnds
<1>15. QED
  BY <1>1, <1>2, <1>3, <1>4, <1>5, <1>6, <1>7, <1>8, <1>9, <1>10, <1>11, <1>12, <1>13, <1>14
     DEF ThreadStep, ErrorStep

\* Steps of clients, of the administration and of job executors: every
\* thread keeps its state or ends up empty-handed.
LEMMA OtherSteps ==
  ASSUME IndInv,
         \/ \E e \in Executor : Start(e) \/ Stop(e) \/ Crash(e)
         \/ \E tk \in Token : Signal(tk)
         \/ \E p \in ProcessInstance : Suspend(p) \/ Resume(p) \/ End(p)
         \/ Tick
  PROVE  \A u \in Thread : SameThread(u) \/ pc'[u] \notin {"acquire", "run", "execute"}
<1>1. CASE \E e \in Executor : Start(e)
  BY <1>1 DEF Start, SameThread, IndInv, TypeInv, TypeOK
<1>2. CASE \E e \in Executor : Stop(e)
  BY <1>2 DEF Stop, SameThread
<1>3. CASE \E e \in Executor : Crash(e)
  BY <1>3 DEF Crash, SameThread
<1>4. CASE \/ \E tk \in Token : Signal(tk)
           \/ \E p \in ProcessInstance : Suspend(p) \/ Resume(p) \/ End(p)
  BY <1>4 DEF Signal, Suspend, Resume, SetSuspended, End, ClientCommit, SameThread
<1>5. CASE Tick
  BY <1>5 DEF Tick, SameThread
<1>6. QED
  BY <1>1, <1>2, <1>3, <1>4, <1>5

LEMMA IndOtherStep ==
  ASSUME IndInv, TypeInv',
         \/ \E e \in Executor : Start(e) \/ Stop(e) \/ Crash(e)
         \/ \E tk \in Token : Signal(tk)
         \/ \E p \in ProcessInstance : Suspend(p) \/ Resume(p) \/ End(p)
         \/ Tick
  PROVE  LockDiscipline' /\ SucceededIsGone'
<1>1. UNCHANGED fired
  BY DEF Start, Stop, Crash, Signal, Suspend, Resume, SetSuspended, End, Tick
<1>2. \A u \in Thread : SameThread(u) \/ pc'[u] \notin {"acquire", "run", "execute"}
  BY OtherSteps
<1>3. \A j \in Job : RowKept(j)
  <2> TAKE j \in Job
  <2>0. jobs[j] \in Row
    BY DEF IndInv, TypeInv, TypeOK
  <2>1. CASE UNCHANGED jobs
    BY <2>1 DEF RowKept
  <2>2. ASSUME NEW tk \in Token, Signal(tk)
        PROVE  RowKept(j)
    <3>1. tokens[tk].node \in 0 .. (LastNode - 1)
      BY <2>2, ConstantsAssumption DEF Signal, IndInv, TypeInv, TypeOK, TokenRow
    <3>2. QED
      BY <2>2, <3>1, LeaveKeepsRows DEF Signal, IndInv, TypeInv
  <2>3. ASSUME NEW p \in ProcessInstance, NEW b \in BOOLEAN, SetSuspended(p, b)
        PROVE  RowKept(j)
    BY <2>0, <2>3 DEF SetSuspended, RowKept, Row
  <2>4. ASSUME NEW p \in ProcessInstance, End(p)
        PROVE  RowKept(j)
    <3>1. jobs'[j] = jobs[j] \/ (Stored(j) /\ jobs'[j] = [jobs[j] EXCEPT !.status = "deleted"])
      BY <2>4 DEF End, DeletedAtEnd, StoredOf
    <3>2. QED
      BY <2>0, <3>1 DEF RowKept, Row, Stored
  <2>5. QED
    BY <2>1, <2>2, <2>3, <2>4 DEF Start, Stop, Crash, Suspend, Resume, Tick
<1>4. \A u \in Thread, j \in Job : Disciplined(u, j)'
  BY <1>2, <1>3, Undisturbed, NothingInHand
<1>5. LockDiscipline'
  BY <1>4 DEF LockDiscipline, Disciplined
<1>6. QED
  BY <1>1, <1>3, <1>5, NoExecution

\* A transaction that executes t's job successfully writes the job's token,
\* which all other threads that execute the job have read.
LEMMA SeenAfterSuccess ==
  ASSUME IndInv, NEW t \in Thread, pc[t] = "execute",
         fired' = [fired EXCEPT ![current[t]] = @ + 1],
         NEW W, TokenOf[current[t]] \in W, Commit(t, W), Finish(t)
  PROVE  SuccessIsSeen'
<1> SUFFICES ASSUME NEW u \in Thread, NEW j \in Job, Kind[j] # "RepeatTimer",
                    pc'[u] = "execute", current'[u] = j, fired'[j] > 0
             PROVE  TokenOf[j] \in stale'[u]
  BY DEF SuccessIsSeen, Seen
<1>1. u # t
  BY DEF Finish, IndInv, TypeInv, TypeOK
<1>2. /\ pc[u] = "execute" /\ current[u] = j
      /\ stale'[u] = stale[u] \cup (W \cap Reads(u))
  BY <1>1, OtherThreads DEF Commit
<1>3. CASE j = current[t]
  BY <1>2, <1>3 DEF Reads
<1>4. CASE j # current[t]
  <2>1. fired[j] > 0
    BY <1>4 DEF IndInv, TypeInv, TypeOK
  <2>2. QED
    BY <1>2, <2>1 DEF IndInv, SuccessIsSeen, Seen
<1>5. QED
  BY <1>3, <1>4

\* A step without a success: every thread that executes a job did so before,
\* or has just read the row, which is there.
LEMMA SeenKept ==
  ASSUME IndInv, UNCHANGED fired,
         \A u \in Thread : \/ pc'[u] # "execute"
                           \/ SameThread(u)
                           \/ Stored(current'[u])
  PROVE  SuccessIsSeen'
<1> SUFFICES ASSUME NEW u \in Thread, NEW j \in Job, Kind[j] # "RepeatTimer",
                    pc'[u] = "execute", current'[u] = j, fired[j] > 0
             PROVE  TokenOf[j] \in stale'[u]
  BY DEF SuccessIsSeen, Seen
<1>1. fired[j] = 1 /\ jobs[j].status = "deleted"
  BY DEF IndInv, SucceededIsGone, TypeInv, TypeOK
<1>2. SameThread(u)
  BY <1>1 DEF Stored
<1>3. QED
  BY <1>2 DEF SameThread, IndInv, SuccessIsSeen, Seen

LEMMA SeenStep ==
  ASSUME IndInv, TypeInv', Next
  PROVE  SuccessIsSeen'
<1>1. ASSUME NEW t \in Thread, ExecuteAndStay(t) \/ ExecuteAndLeave(t)
      PROVE  SuccessIsSeen'
  BY <1>1, SeenAfterSuccess DEF ExecuteAndStay, ExecuteAndLeave
<1>2. ASSUME NEW t \in Thread, Load(t)
      PROVE  SuccessIsSeen'
  <2>1. Stored(current'[t])
    BY <1>2 DEF Load, IndInv, TypeInv, TypeOK
  <2>2. \A u \in Thread : u # t => SameThread(u)
    BY <1>2 DEF Load, SameThread, IndInv, TypeInv, TypeOK
  <2>3. QED
    BY <1>2, <2>1, <2>2, SeenKept DEF Load
<1>3. ASSUME NEW t \in Thread,
             \/ Leave(t) \/ AcquireNothing(t) \/ Acquire(t) \/ AcquireCommit(t)
             \/ AcquireStale(t) \/ Wake(t) \/ LoadMissing(t)
             \/ ExecuteFails(t) \/ ExecuteFailsLater(t) \/ ExecuteRollback(t) \/ ErrorStep(t)
      PROVE  SuccessIsSeen'
  <2>1. UNCHANGED fired
    BY <1>3 DEF Leave, AcquireNothing, Acquire, AcquireCommit, AcquireStale, Wake, LoadMissing,
                ExecuteFails, ExecuteFailsLater, ExecuteRollback, ErrorStep, ExecuteError,
                ExecuteErrorLater, ExecuteErrorStale, ErrorEnds
  <2>2. pc'[t] # "execute"
    BY <1>3 DEF Leave, AcquireNothing, Acquire, AcquireCommit, AcquireStale, Wake, LoadMissing,
                ExecuteFails, ExecuteFailsLater, ExecuteRollback, ErrorStep, ExecuteError,
                ExecuteErrorLater, ExecuteErrorStale, ErrorEnds, Drop, Finish,
                IndInv, TypeInv, TypeOK
  <2>3. \A u \in Thread : u # t => SameThread(u)
    <3> TAKE u \in Thread
    <3>1. stale[u] \subseteq stale'[u] \/ u = t
      BY <1>3, OtherThreads
         DEF Leave, AcquireNothing, Acquire, AcquireCommit, AcquireStale, Wake, LoadMissing,
             ExecuteFails, ExecuteFailsLater, ExecuteRollback, ErrorStep, ExecuteError,
             ExecuteErrorLater, ExecuteErrorStale
    <3>2. u # t => UNCHANGED <<pc[u], todo[u], current[u], snapshot[u]>>
      BY <1>3, OtherThreads
         DEF Leave, AcquireNothing, Acquire, AcquireCommit, AcquireStale, Wake, LoadMissing,
             ExecuteFails, ExecuteFailsLater, ExecuteRollback, ErrorStep, ExecuteError,
             ExecuteErrorLater, ExecuteErrorStale, ErrorEnds, IndInv, TypeInv, TypeOK
    <3>3. QED
      BY <3>1, <3>2 DEF SameThread
  <2>4. QED
    BY <2>1, <2>2, <2>3, SeenKept
<1>4. ASSUME \/ \E e \in Executor : Start(e) \/ Stop(e) \/ Crash(e)
             \/ \E tk \in Token : Signal(tk)
             \/ \E p \in ProcessInstance : Suspend(p) \/ Resume(p) \/ End(p)
             \/ Tick
      PROVE  SuccessIsSeen'
  <2>1. UNCHANGED fired
    BY <1>4 DEF Start, Stop, Crash, Signal, Suspend, Resume, SetSuspended, End, Tick
  <2>2. QED
    BY <1>4, <2>1, OtherSteps, SeenKept
<1>5. QED
  BY <1>1, <1>2, <1>3, <1>4 DEF Next, ThreadStep

LEMMA IndInit == Init => IndInv
<1> SUFFICES ASSUME Init PROVE IndInv
  OBVIOUS
<1>1. TypeInv
  BY TypeInit
<1>2. LockDiscipline
  BY DEF Init, LockDiscipline, Holds
<1>3. SucceededIsGone /\ SuccessIsSeen
  BY DEF Init, SucceededIsGone, SuccessIsSeen, Seen
<1>4. QED
  BY <1>1, <1>2, <1>3 DEF IndInv

LEMMA IndStep == IndInv /\ [Next]_vars => IndInv'
<1> SUFFICES ASSUME IndInv, [Next]_vars
             PROVE  IndInv'
  OBVIOUS
<1>1. TypeInv'
  BY TypeStep DEF IndInv
<1>2. CASE UNCHANGED vars
  <2>1. \A u \in Thread : SameThread(u)
    BY <1>2 DEF SameThread
  <2>2. \A j \in Job : RowKept(j)
    BY <1>2 DEF RowKept
  <2>3. LockDiscipline'
    BY <2>1, <2>2, Undisturbed DEF LockDiscipline, Disciplined
  <2>4. SucceededIsGone'
    BY <1>1, <1>2, <2>2, NoExecution
  <2>5. SuccessIsSeen'
    BY <1>2, <2>1, SeenKept
  <2>6. QED
    BY <1>1, <2>3, <2>4, <2>5 DEF IndInv
<1>3. CASE Next
  BY <1>1, <1>3, IndThreadStep, IndOtherStep, SeenStep DEF Next, IndInv
<1>4. QED
  BY <1>2, <1>3

\* A thread that has acquired a job owns its row: the row carries the thread's
\* name until the thread has settled the job, for any number of threads,
\* executors, restarts, crashes and errors.
THEOREM LocksAreDisciplined == Spec => []LockDiscipline
<1>1. Spec => []IndInv
  BY IndInit, IndStep, PTL DEF Spec
<1>2. IndInv => LockDiscipline
  BY DEF IndInv
<1>3. QED
  BY <1>1, <1>2, PTL

\* Two threads of different names never have the same job acquired.
THEOREM AcquisitionIsExclusive == Spec => []MutualExclusion
<1>1. LockDiscipline => MutualExclusion
  BY DEF LockDiscipline, MutualExclusion
<1>2. QED
  BY <1>1, LocksAreDisciplined, PTL

\* A transaction that executes a job and commits: the thread has the job as
\* its current one, and its version check has passed.
LEMMA ExecutedBy ==
  ASSUME TypeInv, Next, NEW j \in Job, executed'[j] # executed[j]
  PROVE  \E t \in Thread : /\ pc[t] = "execute" /\ current[t] = j
                           /\ Valid(t) \/ (ErrorStep(t) /\ ErrorCommits(t))
<1>1. PICK t \in Thread : \/ ExecuteAndStay(t) \/ ExecuteAndLeave(t)
                          \/ ExecuteFails(t) \/ ExecuteFailsLater(t)
                          \/ ExecuteError(t) \/ ExecuteErrorLater(t)
  BY ZenonT(60)
     DEF Next, ThreadStep, ErrorStep, Leave, AcquireNothing, Acquire, AcquireCommit, AcquireStale,
         Wake, Load, LoadMissing, ExecuteRollback, ExecuteErrorStale, Start, Stop, Crash, Signal,
         Suspend, Resume, SetSuspended, End, Tick
<1>2. /\ pc[t] = "execute" /\ Executed(t)
      /\ Valid(t) \/ (ErrorStep(t) /\ ErrorCommits(t))
  BY <1>1 DEF ExecuteAndStay, ExecuteAndLeave, ExecuteFails, ExecuteFailsLater, ExecuteError,
              ExecuteErrorLater, ErrorEnds, ErrorStep
<1>3. j = current[t]
  BY <1>2 DEF Executed, TypeInv, TypeOK
<1>4. QED
  BY <1>2, <1>3

\* Once a job that does not repeat has succeeded, nothing of it is committed
\* any more, even if a thread of the same name is executing it at that moment
\* and whether that execution succeeds, fails or ends with an Error.
THEOREM ExecutedAtMostOnce == Spec => AtMostOnce
<1> DEFINE A == \A j \in Job :
                  Kind[j] # "RepeatTimer" /\ fired[j] > 0 => executed'[j] = executed[j]
<1>1. IndInv /\ Next => A
  <2> SUFFICES ASSUME IndInv, Next, NEW j \in Job, Kind[j] # "RepeatTimer", fired[j] > 0,
                      executed'[j] # executed[j]
               PROVE  FALSE
    OBVIOUS
  <2>1. PICK t \in Thread : /\ pc[t] = "execute" /\ current[t] = j
                            /\ Valid(t) \/ ErrorCommits(t)
    BY ExecutedBy DEF IndInv
  <2>2. fired[j] = 1 /\ ~Stored(j)
    BY DEF IndInv, SucceededIsGone, TypeInv, TypeOK, Stored
  <2>3. ~Valid(t)
    BY <2>1, <2>2 DEF Valid
  <2>4. ~ErrorCommits(t)
    BY <2>1 DEF ErrorCommits, IndInv, SuccessIsSeen, Seen
  <2>5. QED
    BY <2>1, <2>3, <2>4
<1>2. IndInv /\ [Next]_vars => [A]_vars
  BY <1>1
<1>3. QED
  BY <1>2, IndInit, IndStep, PTL DEF Spec, AtMostOnce
=============================================================================
