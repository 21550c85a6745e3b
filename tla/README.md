# TLA+ models of jBPM jPDL and jBPM BPEL

This directory is a verification project for the two process engines of this
repository: the jPDL engine (`jpdl/jar`) and the BPEL engine built on it
(`bpel/library`).  It holds TLA+ modules translated from the Java sources and
the Hibernate mappings, TLC configurations that check them on small instances,
and TLAPS proofs of what matters most.  `PROJECT.json` maps every definition to
the lines it models, and lists runs, mutants, hazards, findings and theorems.

## 1. Inventory

### The parts and the state they keep

| part | sources | state | operations |
|---|---|---|---|
| job executor | `jpdl/.../job/executor` | threads map, `isStarted`; per thread `isActive`, the list of acquired jobs, an idle interval | start, stop, stopAndJoin, acquireJobs, executeJob, getWaitPeriod; lock monitor (constructed, never started) |
| job table | `jpdl/.../job`, `db/JobSession`, `db/hibernate.queries.hbm.xml` | rows of `JBPM_JOB`: lock owner and time, retries, due date, suspension, version | insert, lock, load, delete, cancel by name, suspend, resume, delete for a process instance |
| tokens and graph | `jpdl/.../graph/exe`, `graph/def`, `graph/node` | token: node, lock, suspension, end, children; process instance: end | signal, enter, execute, leave, take, fork, join, end, suspend, resume, lock, unlock |
| persistence and services | `jpdl/.../persistence/db`, `svc`, `tx` | Hibernate session, transaction, rollback-only flag | createJbpmContext, save, close (commit or roll back) |
| scheduler and messages | `jpdl/.../scheduler`, `msg/db` | none of their own (rows of the job table) | createTimer, cancel, send |
| task management | `jpdl/.../taskmgmt` | task instances: create, start, end, actor, blocking, signalling | create, assign, start, end, cancel, suspend |
| context variables | `jpdl/.../context` | token variable maps | get, set, create, delete along the token tree |
| commands | `jpdl/.../command` | none | one transaction per command |
| business calendar | `jpdl/.../calendar` | none (pure) | add a duration to a date |
| BPEL scopes | `bpel/.../graph/exe`, `graph/scope` | scope instance: state, fault, compensator; tokens primary, handler, events | faulted, terminate, compensate, completed, childrenTerminated, childrenCompensated |
| BPEL activities and links | `bpel/.../graph/def`, `struct`, `basic` | link status, target token | enter, leave, skip, eliminatePath, targetDetermined, flow, pick, while |
| BPEL integration | `bpel/.../integration` | JMS listeners, outstanding requests, correlation sets, partner links | receive, reply, invoke, cancelReception, redelivery |
| deployment and parsing | `bpel/.../deploy`, `par`, `xml`, `jpdl/.../jpdl` | none at run time | read definitions |
| user interfaces, EJBs, tools | `console`, `jbpm4jsf`, `bamconsole`, `enterprise`, `designer`, `bpel/tools` | none of the engine's | call the engine |
| native connectors | `bpel/native` | vendored C (APR, OpenSSL, zlib, Tomcat native) | not this project's code |

### How they interact

A client or a job executor thread opens a `JbpmContext`, which opens a
Hibernate session and transaction; it loads tokens and jobs, calls `signal`,
`Job.execute` or an administration method, and closes the context, which
commits or rolls back.  Process execution inserts jobs (asynchronous
continuations, asynchronous actions, timers) into `JBPM_JOB` in its own
transaction; job executor threads find them there.  All parties share nothing
but the database; within one job executor, `acquireJobs` also holds the
executor's monitor.  In the BPEL engine a message or an alarm is a transaction
that resumes a token, and scope instances signal each other (faulted,
terminated, compensated, completed) by nested method calls within it.

### What is hard

Conflicting transactions are resolved by Hibernate's version check alone, and
some writes (bulk HQL updates and deletes) do not take part in it.  Jobs are
acquired in one transaction and executed in another, so a thread may die, be
stopped, or be overtaken by a cancellation, a suspension or the end of the
process instance in between.  Exceptions are caught and committed; Errors are
not caught but committed too.  Timers race with signals.  Scope instances react
to signals that arrive in any order the messages cause.

Concurrent paths of one process instance (child tokens, tasks, branches of a
flow) complete in transactions that do not see each other, and the last one has
to notice that it is the last.  Links run their targets by nested calls in the
middle of the loop that determines the next link.  Request listeners and
outstanding requests live in memory and change before the transaction that they
belong to ends, and the request is acknowledged after it: a conflict, a failure,
a termination or a crash in between leaves memory, database and queue at
different points.  `PROJECT.json` lists these as hazards, each at its line.

### What makes each part correct

* Job executor: a job is executed by at most one thread name at a time, nothing
  of it commits after it has succeeded, nothing but an Error makes it commit
  twice, and a due job is eventually settled.
* Tokens and jobs: a queued continuation keeps its token in place and locked;
  timers live as long as the token is in their node; no job that is there when
  the process instance ends acts later; a suspended instance does not move.
* Scopes: every signal arrives in a state that accepts it; a faulted or
  terminated scope reaches an end state and tells its parent; completed scopes
  are compensated once, in reverse order of completion.
* Concurrent paths: whatever transactions collide, deadlock or fail, the effect
  is that of paths which arrive one at a time, and the arrival that makes enough
  of them lets the parent continue, once.
* Links: every link of a flow gets the one status its definition calls for, and
  an activity runs at most once, only after all its incoming links are
  determined, and if and only if the definition calls for it.
* Reception: a waiting token can be reached and is served, requests move it in
  order and once, and a reply goes to the partner whose request was accepted.

## 2. Plan

Done:

1. `JobExecutor`: job executor, job table, tokens, persistence.  Runs: safety
   and liveness with crashes, Errors and joins, safety with shared names.
   Theorems: types, lock discipline, mutual exclusion, at most once, and what
   jobs and tokens promise each other.
2. `ScopeInstance`: the BPEL scope state machine as nested signals with an
   explicit call stack; every pair of state and signal, the order of
   compensation, termination of nested scopes, rollback of failed messages.
   Theorem: types, for every process definition.
3. `AtomicJoin`, `ConcurrentTokens`: what concurrent paths promise their parent,
   and the transactions that implement it.  A refinement, checked as a PROPERTY
   and proved as a theorem.
4. `FlowLinks`: links, join conditions, dead path elimination, if and pick.
   Theorems, for every process definition: types, everything happens once and is
   what the definition calls for, links wait for links, completion leaves nothing
   behind.
5. `IntegrationControl`: listeners, redelivery, outstanding requests, crash and
   restart.  Theorems: types, the waiting token is reachable, requests move it
   once and in order, replies go to accepted requests.

Left, in this order:

6. Theorems about `ScopeInstance` beyond its types: which call accepts what, and
   receptions that belong to live tokens, for definitions without the faults of
   section 4.
7. Loops: while and repeatUntil, with scopes and links executed again.
8. The listeners of a pick or of events as a group, and start listeners with
   multiple start, as an extension of `IntegrationControl`.
9. Sub-processes (`ProcessState`) as a pair of token trees.

The order puts first what can lose or repeat work (1, 2), then the shared rows
and the memory of the server (3 to 5), then proofs of what is so far only
checked, then what widens the processes that are covered.

## 3. Modules

### JobExecutor

| variable | stands for |
|---|---|
| `jobs` | the rows of `JBPM_JOB`; a job of the model is a row that does not exist yet (`new`), exists (`stored`) or is gone (`deleted`) |
| `tokens` | node, lock, suspension and end of the rows of `JBPM_TOKEN` |
| `starts`, `isStarted` | `JobExecutor.isStarted` and how often it was started |
| `pc`, `isActive`, `todo`, `current` | where `JobExecutorThread.run` is, its flag, the acquired list, the job in `executeJob` |
| `snapshot` | the columns the thread's Hibernate session holds |
| `stale` | rows that session has read and others have written with a version increment since |
| `fired`, `executed` | history: how often a job has succeeded, and how many transactions that executed it have committed, in success, failure or by an Error |
| `remaining` | history: the jobs that were stored when their process instance ended |

A transaction of a thread is a step that reads and a step that commits.  The
version check is `Valid`: no row in `stale`, and every row to be written still
stored.  A commit puts its versioned writes in `stale` of every session that has
read them (`Commit`, `ClientCommit`); bulk statements (`SetSuspended`, the
deletions of `End`) write the rows and leave `stale` alone, as they leave
`VERSION_` alone.  A flushed entity writes all its columns (there is no
`dynamic-update` in `Job.hbm.xml`): `AcquireCommit` stores the whole `snapshot`.
The two queries of one acquisition see one snapshot of the table, as the user
guide requires (REPEATABLE_READ).

The process of a token is a line of nodes `0 .. LastNode`.  The definitions of
nodes are reduced to the jobs they create on entry (`CreatedAt`); the node
either ends as a wait state (`ExecuteAndStay`) or leaves at once
(`ExecuteAndLeave`), which is the choice of the process author and of user code.
User code may throw an exception before (`ExecuteFails`) or after
(`ExecuteFailsLater`) the token has moved, or an Error (`ExecuteError`,
`ExecuteErrorLater`).  An Error is not caught, but the `finally` clause closes the
context, which commits what was done so far and leaves the row of the job alone, or
finds that the row of the token has changed (`ExecuteErrorStale`).

`Signal` is `Token.signal`, which asks whether the token is suspended or locked and
not whether it has ended (`ProcessInstance.signal` does ask).  A token that
`ProcessInstance.end` has ended in a wait state can therefore be signalled, and
gets new jobs in the next node (section 4).

`Joins` tells whether executors are stopped with `stopAndJoin` or with plain
`stop`, which is what `JobExecutorLauncher` and `JbpmConfiguration` do.

### MCJobExecutor

Instances: a continuation `n1` and an asynchronous action `a1` of node 0, a
timer `t1` and a repeating timer `r1` of node 1, two executors.

### JobExecutorProofs, JobExecutorTokenProofs

Theorems about `JobExecutor` (section 5).

### ScopeInstance

The scopes of one process instance, their event handlers and the tokens they
run on.

| variable | stands for |
|---|---|
| `state`, `compensator` | the fields of `ScopeInstance`; `"none"` before it is created |
| `pos` | how far the body token of an instance has gone: the nested scopes, then a receive |
| `created`, `live` | the tokens that exist and those without an end date |
| `completions` | scopes in the order of the end dates of their tokens |
| `waiting` | tokens with a `RequestListener` registered in `IntegrationControl` that is not closed |
| `orphaned` | tokens with a listener that is open but no longer registered |
| `calls` | the calls of the running transaction that are still to be made |
| `saved` | what the database held when the transaction began |

A message, an alarm or the start of the process begins a transaction (`Start`,
`MessageReceived`, `EventReceived`).  Within it the code calls from object to
object; the model keeps the calls that are still to be made in `calls`, next one
first, and each action performs the next call and puts the calls it makes in
front (`Then`).  This keeps the order of the nested Java calls: what follows a
call in a method is put behind that call.  `ActiveSignal`, `FaultingSignal`,
`TerminatingSignal`, `CompensatingSignal` and `EndSignal` are the classes of
`graph.exe.state`; `Accepts` lists the signals that do not throw.  A call that
throws makes `Rollback` the only step.  It restores the rows of the database; it
does not restore the listeners, which live in memory: new ones are closed
(`JmsIntegrationService.close`; they stay in the map of the control, but no message
reaches them, so `waiting` drops them), cancelled ones stay cancelled, and the one
whose message failed has left the control and is never closed
(`RequestListener.onMessage`), so that a later message still reaches it but a
cancellation does not.

Tokens are named by their instance and role (scope, primary, handler, events,
concurrent branch of a flow).  `Above` is the ancestry and `EndedWith` the
recursion of `Token.end`, which stops at tokens that have ended.

The process is given by constants: `Body` (the scopes nested in a primary or
event activity, in sequence or, for instances in `Flow`, concurrent),
`OnEvents`, which scopes have which handler, and what the handlers do: a
receive, `<compensate>`, or `<compensateScope>` of a scope.  A body ends with a
receive after which the activity completes or throws, so every interleaving of
completions and faults happens.

An event instance has the definition of its scope (`Definition`): when it faults it
runs the fault handler of the scope, on a handler token of its own.  The
definition is a tree (`NestingAssumption`): the readers build one, and
`<compensateScope>` finds its target among the nested scopes
(`CompensateScopeReader.java:42`), which the global scope is not.

Abstractions: a fault handler is a catchAll and faults carry no data; an event
handler has one instance; a definition is executed once (no loops); the
transactions of one process instance are serial; the end dates of tokens are
all different.

### MCScopeInstance

The process definitions of the runs: nested scopes in sequence, a flow of three
branches, an event handler with three nested levels, and the flow of two scopes
of the violation.

### ScopeInstanceProofs

The type theorem of `ScopeInstance` (section 5).

### AtomicJoin and ConcurrentTokens

`AtomicJoin` is the promise: paths arrive one at a time, and the parent
continues with the arrival that makes `Enough` (all, the first, or n of them).

`ConcurrentTokens` is what the code does.  `construct` says who collects the
paths: a jPDL `Join` with one of three rules, a `TaskNode` (signal first or
last), a BPEL `Flow`, the end of the parent with its last child
(`Token.notifyParentOfTokenEnd`), or the target of links.

| variable | stands for |
|---|---|
| `version`, `done`, `able`, `left` | the rows: `VERSION_`, end dates, `isAbleToReactivateParent` or `isSignalling`, how often the parent continued |
| `lock` | the row locks of the database |
| `phase`, `seen`, `wasAble`, `wasDone`, `dirty`, `leaves` | the transaction of a path: where it is, what its Hibernate session has loaded and changed, what it has decided |

A transaction loads its path, ends it and loads the parent (`End`), loads the
siblings and decides (`CheckJoin`, `CheckTasks`, `CheckLast`, or `LeaveFlow`
with one `LockSibling` per sibling), writes the changed rows one by one, taking
their locks (`Write`), and commits.  It may find a version changed (`Stale`), be
the victim of a deadlock (`Victim`) or fail by itself (`Fail`); it is then undone
and begun again.

The model shows what the constructs rest on.  `TaskNode.isLastToComplete` takes
no lock at all.  It is right because ending a task or a token logs on the parent
token, and a log takes its index from `Token.nextLogIndex`, a mapped property:
every completion writes, and so version-checks, the row of the parent.  The
mutant `ChangedUnlogged` (no log) breaks `ArrivalsAreAtomic`.  The explicit locks
of `Join.execute` and `Flow.mustReactivateParent` come on top of that.  Links are
the one construct without such a row, and the run `tokens_links` shows the lost
wake-up.

Not covered: `join` with token names or a script, tasks that are created later,
`end-tasks`, a parent written by others than its paths.

### FlowLinks

One flow with everything nested in it.

| variable | stands for |
|---|---|
| `holds`, `choice`, `receives` | the outcome of transition conditions, the branch an if or a pick takes, whether a basic activity waits; chosen at the start, since no property depends on when they are evaluated |
| `parent`, `node`, `ended` | the token tree: branch tokens and the token that holds the links of a flow |
| `status`, `targetToken` | the fields of `LinkInstance` |
| `waiting`, `outcome` | the executions that wait for a message, the fate of the enclosing scope |
| `phase` | history: how far each activity has come (idle, entered, started, left, skipped, dead, that is, eliminated) |
| `calls` | the calls still to be made, as in `ScopeInstance` |

Each action is one method: `Enter`, `Leave`, `Proceed`, `Skip`,
`EliminateBasic` and `EliminateStructure` (`eliminatePath`), `TargetDetermined`,
`StatusDetermined`, and the `execute` of each kind of activity.  `Performed` is
the reference: a recursive function of the definition alone that says which
activities run, without tokens or order.  `EndedWith` is the recursion of
`Token.end`, as the least set of tokens that holds a token and its children that
have not ended.

What the module assumes of a definition is what the readers build: activities
form a tree (`TreeAssumption`), and a link has one source and one target, both
within the flow that declares it (`LinkAssumption`).

Abstractions: the Begin of a structure has the structure's name, an End none; a
join failure ends the scope, as `ScopeInstance` shows in detail; at most one
activity throws; loops and faults of transition conditions are left out.

Three things in these classes are known to be off and are kept out of the
instance.  TLC confirmed the first two on definitions of their own, which no run of
the project keeps.  `Flow.eliminatePath` (`Flow.java:156`) creates a token for the
links that nobody ends (the comment at `Flow.java:138` says "if a token was created
to contain link instances, end it"); a later flow without links on the same token
finds it as an able sibling and never completes: an if with the branches
`flow g (link m)` and `flow h { u | v }` of which the second is taken.  In the
instance the eliminated flow `g` is on another token than the flow `h`.
`StructuredActivity.eliminatePath` (`StructuredActivity.java:69-75`) does not wait
for the undetermined links into the structure, although `Activity.java:288-292`
says so of elimination; `ControlDependencies` exempts structures that are
eliminated, and in the instance `i` has no incoming link and `s` is never
eliminated.  `Activity.targetDetermined` does not ask whether the token has ended.
The theorems of section 5 hold for definitions with these constructs too; only
`FlowCompletes`, which is not among them, is lost.

### FlowLinksProofs

Theorems about `FlowLinks` (section 5).

### IntegrationControl

A token that executes a line of receives, the listeners of its receptions and
the JMS sessions that run them.

| variable | stands for |
|---|---|
| `pos`, `ended`, `version` | the row of the token, with the rows its transactions share with others |
| `queue`, `holder` | each request: unsent, queued, delivered to a session, to be redelivered, kept unacknowledged, acknowledged |
| `up`, `listener`, `registered`, `outstanding` | the memory of the server: all `RequestListener`s with the transaction each runs, `requestListeners` and `outstandingRequests` of `IntegrationControl` |
| `terminator` | another thread that terminates the scope of the token |
| `accepted`, `moves`, `replies`, `count` | history; `count.lost` is the number of failed commits that had made a listener, since the last restart |

A delivery is `OnMessage` (remove the listener), `LoadToken`, `Deliver` (or
`DeliverFaults`, `DeliverToEnded`, `LockFails`), `Commit` or `CommitFails`,
`OpenListeners`, `Acknowledge`, `Recover` or `RecoverFails`, or `Rollback`; every other thread may
step between any two of them.  The order commit, open, acknowledge is that of the
services in `bpel/library/src/main/config/jbpm.cfg.xml` and of
`Services.close`: persistence closes first, integration last.

What the code does at the edges, all of it in the model: a redelivered two-way
request finds the outstanding request of its own first delivery, which is a
conflicting request and faults the process; a reply is sent before the commit, so
a transaction that is tried again sends it again, or finds it missing; a
termination that cancels a listener between the commit that created it and its
opening makes the deliverer give up after its commit, with its own listener left
open and its request kept.  A failed commit marks nothing for rollback, so the
listeners of the lost transaction are opened (run `reception_lost`).  Any commit may
fail, at any receive: because the row of the token, or another row that the
delivery writes, has changed (`Conflict`: the token is suspended or resumed, another
branch receives into the same variable or ends), or by itself, as the victim of a
deadlock.  A consumer that is closed hands what it had not consumed back to the
queue (`Returned`); one whose recovery fails keeps its request.  The token has ended when its last receive is done (`Flow.leave` ends it);
a message that finds it so changes no row, and a transaction that changed no row
(`dirty`) has no version to check.  The history counts the listeners that a
termination cancelled, each of which may leave a request to be delivered again.

Left out: picks and events (several listeners on one session, cancelled together
and, after a rollback, still cancelled), `StartListener`,
`disableInboundMessageActivities`, correlation sets, callers, and a termination
whose own transaction fails for good, after which the token is unreachable until
a restart.

### IntegrationControlProofs, IntegrationOrderProofs

Theorems about `IntegrationControl` (section 5).

### MCConcurrentTokens, MCFlowLinks, MCIntegrationControl

Three paths; the flow of fourteen activities and five links that the comment in
the module draws; a loop over a two-way receive followed by another receive.

## 4. Runs

| run | question | result |
|---|---|---|
| `job_core` | do tokens and jobs stay consistent under crashes, restarts, suspension and end, does only an Error make the effects of a job commit twice, and is every due job settled? | holds |
| `job_shared` | does locking survive shared names and Errors, and is nothing of a job committed once it has succeeded? | holds |
| `job_suspend` | are jobs of suspended instances hidden from the queries? | violated by a concurrent acquisition |
| `scope_nested` | are signals always accepted, is compensation in reverse order, do faulted scopes finish? | holds |
| `scope_flow` | does a flow wait for its branches, and are they compensated in reverse order of completion? | holds |
| `scope_events` | do scopes wait for their events, and does termination cancel receptions, also after rollbacks? | holds |
| `scope_flowfault` | does a fault terminate the other branches of a flow? | violated: the token's node is the Begin of the flow, whose `terminate` does nothing |
| `tokens_join` | do concurrent transactions on joins, task nodes, flows and ends of tokens amount to arrivals one at a time, and does every path complete? | holds |
| `tokens_links` | is the target of links woken by the last of them? | violated: two transactions each find the other's link undetermined |
| `links` | do links and activities follow the definition in every order of messages, and does the flow complete? | holds |
| `reception` | is a waiting token reachable, served, moved in order and once, and are replies sent to the accepted partner, under conflicts, failures, a termination and a crash? | holds |
| `reception_lost` | does a receive block for its message when the commit of a delivery fails? | violated: the listener of the lost transaction is opened |

What Errors do to jobs is stated in three ways.  `AtMostOnce`: once a job has
succeeded, nothing of it commits again, whatever names threads have.
`OneCommitPerError`: before that, an execution that commits without success is an
exception, which uses up the only try, or an Error, which does not; so there is at
most one commit more than there are Errors.  That the effects of a job commit
once and no more is false: an Error commits half of them and the job starts
over.  The other properties about tokens (`PendingContinuationLocksToken`,
`TimersFollowToken`, `ResumesWhereSuspended`, `NothingFiresAfterEnd`) say what holds
until the first Error; with one Error TLC finds a continuation whose token has left
its node.

`MovesInOrder` and `RepliesToAccepted` say what holds until a failed commit
has opened the listener it made.  `ReceivesBlock` is `MovesInOrder` without that
condition; its counterexample takes one version conflict at the first receive, and
`RepliesToAccepted` fails for the same reason without it.  A restart closes all
listeners and makes the right ones, so the condition holds again after it.
`MovesInOrder` also excepts a termination, for the reason that the comment of the
module gives.

Other disagreements that the models were used to confirm and no run of the
project states.  `Token.signal` refuses a suspended or a locked token but not an
ended one (`Token.java:178`; `ProcessInstance.java:268` refuses it with "couldn't
signal token : token has ended"): a token that `ProcessInstance.end` has ended in a
wait state enters the next node when it is signalled and creates a timer that fires,
although `jpdl/userguide/en/modules/modelling.xml:128-129` says that "the token is
ended and the path of execution is finished."  `NothingFiresAfterEnd` therefore
speaks of the jobs that are stored at the end.  Among these are the continuations,
which `DeleteJobsSynchronization` deletes with the timers (`JobSession.java:195`)
although `ProcessInstance.java:327` notes that "messages-type of jobs should be
kept".  `JobExecutor.start` constructs the lock monitor thread and never
starts it, so a job locked by an executor that stays down is never released,
although `jpdl/userguide/en/modules/async.xml:151-154` says that it will be
unlocked.  A scope that ignores Terminate in its fault handler loses the token of
that handler to `terminateToken` and never finishes
(`FaultingState.java:99-104`).  A fault in an event handler meets a primary token
whose node is the scope and ends in a null pointer (`ScopeInstance.java:263`).
`Compensate.scopeCompensated` takes the parent of the scope compensated last for
its own scope (`Compensate.java:62`), so that a `<compensate>` over two levels
never finishes.  A scope that faults while an event handler runs a nested scope
terminates that scope, whose report finds the event instance active and is refused
(`ScopeInstance.java:131`): the fault is rolled back with its message.  Of these,
`scope_events` reaches the last and the null pointer, and checks what remains after
the rollback; the instances of the other passing scope runs stay clear of all.

Further disagreements with the user guide (`jpdl/userguide/en/modules/async.xml`)
that the model shows and no run of its own states: thread names repeat after
`stop` and `start` (line 143 calls them unique; `job_shared` relies on it
happening), a failed job commits what it did before it failed (line 194 says it
is rolled back), and after an Error a continuation may resume in another node
than the one it was queued for (`ResumesWhereSuspended` holds until then).

Bounds of the job runs.  Two executors with one thread each are enough for every
race between two sessions; two starts of each let a thread meet its own successor.
`MaxDeaths` = 1 is one death of either kind, a crash, which is enough to lose an
acquisition, or an Error; `MaxAdmin` = 1 is one
suspension, which may be resumed, or one end.  In `job_core` (a
continuation followed by a repeating timer) the clock runs to 1, past `MaxLockTime` =
0, so that locks expire: 494,504 states.  `job_shared` (two exclusive jobs of one
node) needs no clock; its two executors are interchangeable and taken as a symmetry
set: 540,575 states.  `FirstEntry` limits each node to one entry per token,
since a job of the model is one row.  Jobs have `retries` = 1, the only value
the sources ever give them.  The runs do not check deadlock: a process that has
ended and executors that are down may well stop.

Bounds of the scope runs.  The process definitions are the bound: up to six
scopes, four levels, three concurrent branches, one event handler.  Together
they reach every pair of state and signal that the model accepts.  The state
spaces are finite without further limits.  Deadlock is not checked: a process
that has ended stops.

Bounds of the token runs.  Three paths are the fewest for which two of three
differs from all and from the first, and for which a transaction can collide with
one sibling while another one waits; the theorems remove the bound.  One failure
is enough to show that a completion is begun again.  Deadlock is not checked: when
all paths have completed nothing is left to do.

Bounds of `links`.  The definition is the bound.  It has a link out of and into
structures, a link that crosses into a flow nested in a branch that may not be
taken, an activity that is eliminated before its incoming link is known, a chain
of links, and a join failure that is
not suppressed.  Every outcome of the three conditions, the if and the pick, and
every subset of five activities that wait, in any order of their messages.  For
the safety properties the theorems of section 5 remove the bound.

Bounds of the reception runs.  Two requests for the action of the loop and one for
the other, so that a request can wait in the queue while another one is redelivered.
`Troubles` are the combinations of troubles that a behaviour may meet: in
`reception` one conflict, or one failure (of a delivery, a commit or a recovery) and
one crash, in each case with one termination, in any order, over three receives:
680,248 states.  All of them at once are beyond the time of a run.  For
the safety properties the theorems of section 5 remove the bounds, except for
replies during a termination.

Fairness of the job runs.  `ThreadFairness`: a thread that can take a step of `run` takes it;
waits are bounded by the idle interval and transactions end.
`StartFairness`: an executor that is down is started again (by its operator).
There is no fairness on clients, time, crashes or Errors.  `DueJobsSettle`
excepts behaviours in which an executor has used up its starts, which is a bound of
the model, or has lost a thread to an Error (`Crippled`): `JobExecutor.start` does
nothing while `isStarted` holds, so such a thread is replaced only after a `stop`.

Fairness of the scope runs.  `FairSpec`: a transaction that has begun makes its
calls and ends (it is one thread), the process starts, and partners eventually
send the message a live token waits for.  Whether the activity then completes or
faults is left open, and events need not come.

Fairness of the token runs.  A transaction takes its steps, and one that was
rolled back is begun again: the job executor and JMS redelivery do that.  The two
steps that take a row lock are strongly fair: a database that breaks a deadlock
gives the lock to a transaction that waits for it, and without that two
transactions could be each other's victim for ever.

Fairness of `links`.  Method calls return, and the messages that are waited for
arrive.

Fairness of `reception`.  JMS delivers what it may deliver, listeners run to
their end, a termination that has begun is finished or tried again, and the
server is started again after a crash.  Partners need not send.

## 5. Theorems

`JobExecutorProofs` proves for every set of jobs, tokens, executors and threads,
every assignment of names and every bound, with or without joins:

* `TypeCorrect`: `Spec => []TypeOK`, from the invariant `TypeInv`, which adds to
  the types that a thread has a current job exactly while it executes one.
* `LocksAreDisciplined`, `AcquisitionIsExclusive`, `ExecutedAtMostOnce`.

The last three rest on one inductive invariant, `IndInv`: types, `LockDiscipline`,
that the row of a job that has succeeded is gone (`SucceededIsGone`) and that a
session which holds such a job has to notice (`SuccessIsSeen`).  Mutual exclusion
alone is not inductive: one has to know that a held job carries the name of its
holder, and that a session about to lock a row will either find it stale or find it
free or its own (`StillLockable`).  The proof asks of every action that it keeps each
row (`RowKept`: created, deleted, or lock owner left alone), which leaves all other
threads undisturbed (`Undisturbed`); `AcquireCommit` is the one action that changes
an owner, and there the version check rules out an owner of another name.
`AtMostOnce` needs both its parts: a success or a failure writes the row of the job,
which is gone, and what an Error commits is only the token, whose changed version
the second thread finds.

The assumptions are those of the module: the shapes of the constants,
that the null reference is no job and no lock owner, and that a node has one
continuation.

`JobExecutorTokenProofs` proves what jobs and tokens promise each other:

* `ContinuationsLockTheirTokens`: `Spec => []PendingContinuationLocksToken`.
* `TimersStayWithTheirTokens`: `Spec => []TimersFollowToken`.
* `ContinuationsResumeWhereSuspended`: `Spec => ResumesWhereSuspended`.
* `ExecutedOncePerTry`: `Spec => []OneCommitPerError`.
* `EndCancelsJobs`: `Spec => NothingFiresAfterEnd`.

All but `EndCancelsJobs` have the hypothesis `NamesIdentifyThreads`: executors are
stopped with `stopAndJoin` and no two groups have a name in common, so that no two
threads that are alive do.  It is needed.  Two threads
of one name may execute the same job, and the second acts on a token that the
first has moved.  The inductive invariant `TokenInv` adds three parts to `IndInv`:
the threads of an executor that are alive belong to its last start
(`LastStartInv`), which with the names gives each job one holder (`OneHolder`); a
job has one try, which a thread that holds the job has not yet used
(`RetriesInv`); and a stored job that is going to act on its token has it at home,
in its node, and locked if the job is a continuation (`HomeInv`).  The last part
holds until the first Error (`CalmInv`), after which the transaction commits and the
job stays in the table.
`ExecutedOncePerTry` counts: while a job has its try left, all its committed
executions were Errors (`OnceInv`).  `EndCancelsJobs` says nothing of jobs that a
signal creates after the end; those that are there are deleted (`EndInv`), and a
session that executes one of them fails for want of the row.

`ConcurrentTokensProofs` proves for every finite set of paths, every `NOutOfM` and
every number of failures, for all constructs but links:

* `TokensTypeCorrect`: `Spec => []TypeOK`.
* `DecisionsAreCurrent`: `Spec => []DecisionIsCurrent`.
* `TransactionsAreAtomic`: `Spec => Abstract!Spec`, the refinement of `AtomicJoin`.
  A commit is an arrival, and every other step a stutter.

They rest on one inductive invariant, `Inv`, whose heart is `Decision`: as long as
the versions of the path and of the parent are those that the session has loaded,
what it has decided is right for the rows as they are now.  To keep that through
the steps of the others one needs that a held lock means a current version
(`LocksAreFresh`) and versions only grow (`VersionsGrow`), so that a commit by a
sibling makes the version of the parent differ for good; what a session has
changed in each phase (`SessionShape`), in particular that it always writes the
parent; that until the parent has continued the able paths are those that have
not ended (`AbleUntilLeft`); and what a session has read of itself and, in a flow,
of its siblings (`OwnView`, `FlowView`).  The hypothesis `"links" \notin Kinds` is
used where the parent is written: for links it is false, and `tokens_links` is the
counterexample.

`IntegrationControlProofs` proves for every line of receives, with or without a
loop, and every number of requests, conflicts, failures, crashes and terminations:

* `TypesOfReception`: `Spec => []TypeOK`.
* `WaitingTokensAreReachable`: `Spec => []WaitingTokenIsReachable`.
* `RequestsMoveTheTokenOnce`: `Spec => []RequestsMoveOnce`.

The inductive invariant has a part for each place in which the three stores can
drift apart.  `MadeInv`: the listener that a transaction has created is known to no
other one and not open yet, so that a rollback closes nothing that others use.
`SnapshotInv`: a transaction that has the version of the database has its token
too, or the one that it makes of it, so that a commit that finds its version writes
the next receive.  `QueueInv`: a request that is being delivered belongs to one
listener.  `MoveInv`: once a commit has counted, a request has no move left until a
crash or a cancelled listener gives it another one; the bound alone is not
inductive, since a request that has moved the token is not acknowledged yet.
`ReachInv`: the reception of a waiting token has an owner, which is an open listener
whose delivery has not committed, or the one that a committed delivery is about to
open.  A delivery takes the listener out of the map, its rollback puts it back, its
commit hands over to the listener it has made: each step is shown to leave an
owner behind (`NextOwners`, `CommitOwners`).

`IntegrationOrderProofs` proves, from no further hypothesis:

* `TheTokenMovesInOrder`: `Spec => MovesInOrder`.
* `RepliesGoToAcceptedRequests`: as long as no failed commit has made a listener and
  no termination is under way, every step is a `ReplyToAccepted`.

Both are conditions on the state and not on the constants: conflicts and failures
may come at every receive, and the statements hold until one of them has done the
damage of `reception_lost` (`Orderly`), and again after a restart.  A commit
that fails while the order lasts has made no listener (`NothingLost`), so the
listener that delivered stays the only owner.  The invariant `OrderInv` adds that,
while `Orderly`, a waiting token has
one owner only (`OneOwner`), that a delivery works on the receive in which the
token is (`InStep`), that nobody who read the token before its end still has to
deliver (`NoLateDelivery`), and that an outstanding request was accepted or is for
the receive in which the token is (`ReplyInv`).

`ScopeInstanceProofs` proves for every definition of a process:

* `TypesOfScopes`: `Spec => []TypeOK`, that is, rows of their types, listeners that
  belong to tokens that exist, signals that go to instances and tokens, and no
  scope that completes twice.

Types here are a matter of the protocol.  A scope is executed only while it does
not exist (`CallOK`, `Ahead`: what the body has not reached has no instance, and
no two pending calls execute the same scope); a compensated scope has the requestor
that it answers to (`RowsOK`); Terminate and Compensate never reach the global
scope, which has no parent to answer to; the requestors find a scope whose token
ended last (`NextCompensated`, a greatest element) and it is not the global one
(`NestedScopes`); and whatever holds of the rows holds of those in the database,
to which an exception returns (`SavedOK`).  The assumptions are the shapes of the
constants, that there are finitely many event handlers, and `NestingAssumption`.

`FlowLinksProofs` proves for every process definition that the assumptions admit,
every outcome of its conditions, every choice and every order of messages:

* `FlowTypes`: `Spec => []TypeOK`.
* `FlowRunsOnce`: `Spec => []OncePerFlow`.
* `FlowFollowsDefinition`: `Spec => []LinksFollowDefinition`.
* `LinksAwaitLinks`: `Spec => []ControlDependencies`.
* `CompletionLeavesNothing`: `Spec => []CompletionIsFinal`, for definitions that are
  `Acyclic`: no links lead around in a circle.  WS-BPEL forbids such links, the
  readers do not check it, and two activities that are eliminated would wait for
  each other's link without keeping the flow from completing.  Only links that meet
  in one activity count; links that go around through a structure and what is
  nested in it are not excluded.  `MCFlowLinks` evaluates `Acyclic` on the instance
  of the run.

They rest on one invariant, `FlowInv`, in named parts, and the proof that each of
the eighteen actions keeps each part.  The stack of calls is read as sets: the
activities that are being entered, executed, left and so on (`Entering`,
`Executing`, `Leaving`, ...) and the links about to be determined.

* `StackInv`, `CallsInv`, `WaitsInv`, `TokensInv`, `UniqueInv`, `PhaseInv`: no call
  is pending twice, each is made on the token of its activity, that token exists,
  and the phase of the activity fits the call.
* `TouchInv` and `ActiveInv` hand what is known of an activity up to the structure
  around it: one that is reached has a structure that was opened, and one that is
  running has a structure that was started and does not end yet.
* `HoldInv`: of the activities that share a token, one has control.  Every step
  that moves the node of a token needs it, to know that it moves no other activity
  away from where its links will look for it.
* `EndedInv`, `LeftInv`, `SequenceInv`, `BranchInv`: when branches and sequences
  end, and in which order.
* `NodeInv`, `TargetInv`, `NoticeInv`, `LinkInv`: where the token of an activity is
  while its links are unknown, and which of the two waits for the other.
* `MeaningInv`: so far, everything agrees with `Performed`.
* `DeadInv`, `TakenInv`, `DoneInv`, `FiredInv`: nothing is forgotten.  What an
  eliminated structure holds and the branches that are not taken are eliminated, a
  structure ends after what it executes, and an activity that is left, or
  eliminated with its incoming links known, determines its outgoing links.

None of the properties is inductive alone: that a link is determined once needs
that its source is left or eliminated once, which needs that one token runs one
activity, which needs where the tokens are.  For `CompletionLeavesNothing` two
more parts are needed: the last call of the stack carries a token on (`LastInv`),
so that nothing is pending when the outermost activity proceeds, and a scope that
has completed stays so (`FinalInv`).  All parts were model-checked on the instance
of `links` before they were proved.

Induction over the tree is avoided in two ways.  The assumption on trees says that
a set which holds the structure of each of its members reaches the outermost
activity; a proof takes the set of the counterexamples and shows that the
outermost activity would be one.  And `Performed` need not be computed: the least
set of activities that the definition calls for exists (`LeastCalledFor`), so the
recursive function satisfies its own equation (`PerformedEquation`), which is all
that the proofs use.

Only model-checked: liveness (fairness is out of the prover's reach), all findings,
and

* `RepliesToAccepted` while a termination is under way: the bookkeeping of replies
  would have to follow the terminating thread through every step of a delivery;
* of `ScopeInstance`, `NoTransactionFails`, `NothingRunsInEndedScopes`,
  `ReceptionsHaveTokens` and `ReverseOrder`: they hold for the definitions of the
  runs and not for all (section 4 names what breaks them).  A theorem needs first a
  hypothesis that tells the good definitions apart, which would have to speak of
  everything that may run around and within a scope while it faults;
* `FlowCompletes`, and with it that no activity waits for ever for a link.

## 6. Not modelled

Of the jPDL engine: the lock monitor thread (dead code), the length of waits,
the contents of logs, variables, sub-processes, joins by name or script, task
assignment and suspension, `ExecuteJobsCommand` and the JMS message service.  The
back-off interval of an idle thread doubles without limit and overflows after
enough exceptions (`JobExecutorThread.java:94`); waits are steps without a
duration here.

Of the BPEL engine: while and repeatUntil, exit, isolated scopes, the choice among
fault handlers, variables, correlation sets, start listeners, callers, and alarms
beyond what an event is.  The transactions of one process instance are concurrent
in `ConcurrentTokens` and `IntegrationControl` and serial in `ScopeInstance` and
`FlowLinks`; the run `tokens_links` shows what that leaves out for links.

User interfaces, EJBs, parsers, deployment and tools have no protocol of their
own that a model would tell more about than a test.

The C files of the repository, about 614,000 lines in 1,681 files, are all third
party: APR, apr-util, apr-iconv, OpenSSL, zlib and the Tomcat native connector,
vendored below `bpel/native` for the server that the BPEL engine ships with.  None
of it is this program's logic, most of it is cryptography and character-set
tables, and none of it is modelled.  The engines are written in Java: every line
of the map is in a Java source or a Hibernate mapping.
