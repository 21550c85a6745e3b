-------------------------- MODULE ConcurrentTokens --------------------------
(***************************************************************************)
(* Concurrent paths of execution that complete in transactions of their    *)
(* own, at the same time, on rows that they share: the child tokens that   *)
(* arrive in a join (jPDL Join), reach an end state (Token.end), leave a   *)
(* flow (BPEL Flow), the task instances of a task node (TaskNode), and the *)
(* activities that determine the links into one activity (BPEL Activity).  *)
(* Each transaction decides from what it has read of its siblings whether  *)
(* the parent token continues.  Two transactions that do not see each      *)
(* other may both decide that it does not, or both that it does.           *)
(*                                                                         *)
(* Rows are read with the last committed value.  A versioned update, or a  *)
(* select for update, waits for the row lock and fails when the version is *)
(* not the one that was read.  A version is only compared for equality, so *)
(* a transaction adds one to a row however often it has written it.        *)
(* A flush writes the rows in the order in which the session loaded them:  *)
(* the path, the parent, the siblings.                                     *)
(*                                                                         *)
(* Completing a path logs on the parent token: the log takes the next      *)
(* index of that token (ProcessLog.setToken), a mapped property, and so    *)
(* the row of the parent is written and its version is checked by every    *)
(* transaction.  The explicit lock of Join.execute finds the row of the    *)
(* parent written by the flush before it.  Links are the exception: the    *)
(* row of a link has no version, and an activity that is not the last of   *)
(* its branch leaves without writing a row that others share.              *)
(***************************************************************************)
EXTENDS Integers, FiniteSets

CONSTANTS
  Path,          \* the child tokens, the tasks of a token, or links
  Parent,        \* the row of the parent token, or of the target of the links
  None,          \* no lock owner
  Kinds,         \* the kinds of constructs, see Construct
  NOutOfM,       \* Join.nOutOfM
  MaxFailures    \* bound: transactions that fail for reasons of their own

ASSUME PathAssumption ==
  /\ Path # {} /\ IsFiniteSet(Path)
  /\ Parent \notin Path
  /\ None \notin Path
  /\ NOutOfM \in 1 .. Cardinality(Path)
  /\ MaxFailures \in Nat

Row == Path \cup {Parent}

(* The construct that creates and collects the paths.  Rule is "all", the  *)
(* default join and signal="last"; "first", a discriminator and            *)
(* signal="first"; or "n", a join with nOutOfM.                            *)
Construct == {c \in [kind : {"join"}, rule : {"all", "first", "n"}] \cup
                     [kind : {"tasks"}, rule : {"all", "first"}] \cup
                     [kind : {"flow", "end", "links"}, rule : {"all"}] : c.kind \in Kinds}

VARIABLES
  construct,
  version,       \* row -> VERSION_
  done,          \* the paths with an end date
  able,          \* isAbleToReactivateParent, or isSignalling of a task
  left,          \* how often the parent has continued
  lock,          \* row -> the path whose transaction holds the row lock
  phase,         \* path -> where its transaction is
  seen,          \* path -> row -> the version that its session has loaded
  wasAble,       \* path -> the paths its session has loaded as able
  wasDone,       \* path -> the paths its session has loaded as ended
  dirty,         \* path -> the rows that its session has changed
  leaves,        \* path -> it has decided that the parent continues
  failures       \* failures so far

db == <<version, done, able, left>>
session == <<seen, wasAble, wasDone, dirty, leaves>>
vars == <<construct, db, lock, phase, session, failures>>

TypeOK ==
  /\ construct \in Construct
  /\ version \in [Row -> Nat]
  /\ done \in SUBSET Path
  /\ able \in SUBSET Path
  /\ left \in Nat
  /\ lock \in [Row -> Path \cup {None}]
  /\ phase \in [Path -> {"idle", "loaded", "ended", "checking", "committing"}]
  /\ seen \in [Path -> [Row -> Nat]]
  /\ wasAble \in [Path -> SUBSET Path]
  /\ wasDone \in [Path -> SUBSET Path]
  /\ dirty \in [Path -> SUBSET Row]
  /\ leaves \in [Path -> BOOLEAN]
  /\ failures \in 0 .. MaxFailures

Init ==
  /\ construct \in Construct
  /\ version = [r \in Row |-> 0]
  /\ done = {}
  /\ able = Path
  /\ left = 0
  /\ lock = [r \in Row |-> None]
  /\ phase = [p \in Path |-> "idle"]
  /\ seen = [p \in Path |-> [r \in Row |-> 0]]
  /\ wasAble = [p \in Path |-> {}]
  /\ wasDone = [p \in Path |-> {}]
  /\ dirty = [p \in Path |-> {}]
  /\ leaves = [p \in Path |-> FALSE]
  /\ failures = 0

-----------------------------------------------------------------------------
(* Sessions and row locks. *)

(* Mutant of Load: a transaction that has failed is not tried again.       *)
LoadUnlessFailed(p) ==
  /\ failures = 0
  /\ phase[p] = "idle"
  /\ p \notin done
  /\ phase' = [phase EXCEPT ![p] = "loaded"]
  /\ seen' = [seen EXCEPT ![p][p] = version[p]]
  /\ wasAble' = [wasAble EXCEPT ![p] = able \cap {p}]
  /\ UNCHANGED <<construct, db, lock, wasDone, dirty, leaves, failures>>

(* A job, a message or a client loads the child token or the task.  A path *)
(* that has ended is not signalled again: its job or message is gone.      *)
Load(p) ==
  /\ phase[p] = "idle"
  /\ p \notin done
  /\ phase' = [phase EXCEPT ![p] = "loaded"]
  /\ seen' = [seen EXCEPT ![p][p] = version[p]]
  /\ wasAble' = [wasAble EXCEPT ![p] = able \cap {p}]
  /\ UNCHANGED <<construct, db, lock, wasDone, dirty, leaves, failures>>

(* Mutant of Grab: the version is not checked. *)
GrabUnchecked(p, r) ==
  /\ lock[r] = None
  /\ lock' = [lock EXCEPT ![r] = p]

(* The row lock for an update of r, or for a select of r for update. *)
Grab(p, r) ==
  /\ lock[r] = None
  /\ version[r] = seen[p][r]
  /\ lock' = [lock EXCEPT ![r] = p]

(* The rows of which p needs one before it can go on.  Flow.leave flushes  *)
(* nothing and locks the siblings in the order of a hash map.              *)
Missing(p) ==
  {r \in Row :
     /\ lock[r] # p
     /\ \/ phase[p] = "committing" /\ r \in dirty[p]
        \/ phase[p] = "ended" /\ construct.kind = "join" /\ r \in dirty[p]
        \/ phase[p] = "checking" /\ r \in Path \ {p}}

Wanted(p) ==
  IF p \in Missing(p) THEN {p}
  ELSE IF Parent \in Missing(p) THEN {Parent}
  ELSE Missing(p)

(* The session flushes one changed row. *)
Write(p) ==
  /\ phase[p] \in {"ended", "committing"}
  /\ \E r \in Wanted(p) : Grab(p, r)
  /\ UNCHANGED <<construct, db, phase, session, failures>>

Reset(p) ==
  /\ phase' = [phase EXCEPT ![p] = "idle"]
  /\ lock' = [r \in Row |-> IF lock[r] = p THEN None ELSE lock[r]]
  /\ seen' = [seen EXCEPT ![p] = [r \in Row |-> 0]]
  /\ wasAble' = [wasAble EXCEPT ![p] = {}]
  /\ wasDone' = [wasDone EXCEPT ![p] = {}]
  /\ dirty' = [dirty EXCEPT ![p] = {}]
  /\ leaves' = [leaves EXCEPT ![p] = FALSE]

(* Mutant of Commit: a decision not to continue is written as a change. *)
CommitBack(p) ==
  /\ phase[p] = "committing"
  /\ Wanted(p) = {}
  /\ version' = [r \in Row |-> IF r \in dirty[p] THEN version[r] + 1 ELSE version[r]]
  /\ done' = done \cup {p}
  /\ able' = able \ (dirty[p] \cap Path)
  /\ left' = IF leaves[p] THEN left + 1 ELSE left - 1
  /\ Reset(p)
  /\ UNCHANGED <<construct, failures>>

Commit(p) ==
  /\ phase[p] = "committing"
  /\ Wanted(p) = {}
  /\ version' = [r \in Row |-> IF r \in dirty[p] THEN version[r] + 1 ELSE version[r]]
  /\ done' = done \cup {p}
  /\ able' = able \ (dirty[p] \cap Path)
  /\ left' = IF leaves[p] THEN left + 1 ELSE left
  /\ Reset(p)
  /\ UNCHANGED <<construct, failures>>

(* StaleObjectStateException: the row has changed since it was loaded.     *)
Stale(p) ==
  /\ \E r \in Wanted(p) : lock[r] = None /\ version[r] # seen[p][r]
  /\ Reset(p)
  /\ UNCHANGED <<construct, db, failures>>

(* LockAcquisitionException: the transactions of D wait for each other,    *)
(* and the database rolls back one that holds the fewest locks.            *)
Deadlocked(D) ==
  \A p \in D :
    /\ Wanted(p) # {}
    /\ \A r \in Wanted(p) : lock[r] \in D
    /\ \E q \in D, r \in Row : r \in Wanted(q) /\ lock[r] = p

Held(p) == {r \in Row : lock[r] = p}

Victim(p) ==
  /\ \E D \in SUBSET Path :
       /\ p \in D
       /\ Deadlocked(D)
       /\ \A q \in D : Cardinality(Held(p)) <= Cardinality(Held(q))
  /\ Reset(p)
  /\ UNCHANGED <<construct, db, failures>>

(* The transaction fails for a reason of its own, or the JVM crashes. *)
Fail(p) ==
  /\ phase[p] # "idle"
  /\ failures < MaxFailures
  /\ failures' = failures + 1
  /\ Reset(p)
  /\ UNCHANGED <<construct, db>>

-----------------------------------------------------------------------------
(* Completion of a path. *)

(* Mutant of Changed: the end is not logged. *)
ChangedUnlogged(p) == {p}

(* The rows that completing a path changes: its own, and that of the       *)
(* parent token, on which the end is logged; a link logs nothing.          *)
Changed(p) == IF construct.kind = "links" THEN {p} ELSE {p, Parent}

(* Token.end and the first half of TaskInstance.end: the path gets an end  *)
(* date and the parent token is loaded to log that.  A link gets a status  *)
(* and its target token is loaded.                                         *)
End(p) ==
  /\ phase[p] = "loaded"
  /\ phase' = [phase EXCEPT ![p] = "ended"]
  /\ seen' = [seen EXCEPT ![p][Parent] = version[Parent]]
  /\ dirty' = [dirty EXCEPT ![p] = Changed(p)]
  /\ UNCHANGED <<construct, db, lock, wasAble, wasDone, leaves, failures>>

(* The siblings as the session loads them now. *)
LoadSiblings(p) ==
  /\ seen' = [seen EXCEPT ![p] =
                [r \in Row |-> IF r \in Path \ {p} THEN version[r] ELSE seen[p][r]]]
  /\ wasAble' = [wasAble EXCEPT ![p] = able \ {p}]
  /\ wasDone' = [wasDone EXCEPT ![p] = done]

(* The parent continues from a join or a task node: the siblings that      *)
(* could still make it continue no longer can.                             *)
Leave(p, reactivate, siblings) ==
  /\ phase' = [phase EXCEPT ![p] = "committing"]
  /\ leaves' = [leaves EXCEPT ![p] = reactivate]
  /\ dirty' = [dirty EXCEPT ![p] = IF reactivate THEN @ \cup siblings ELSE @]

(* Join.execute, after its flush and its lock of the parent. *)
JoinReactivates(p) ==
  \/ construct.rule = "all" /\ able \ {p} = {}
  \/ construct.rule = "first"
  \/ construct.rule = "n" /\ Cardinality(done \cup {p}) >= NOutOfM

CheckJoin(p) ==
  /\ construct.kind = "join"
  /\ phase[p] = "ended"
  /\ p \in wasAble[p]
  /\ Wanted(p) = {}
  /\ LoadSiblings(p)
  /\ Leave(p, JoinReactivates(p), able \ {p})
  /\ UNCHANGED <<construct, db, lock, failures>>

(* TaskInstance.end: a task that is signalling signals the token when      *)
(* TaskNode.completionTriggersSignal.                                      *)
CompletionTriggersSignal(p) == construct.rule = "first" \/ able \ {p} = {}

CheckTasks(p) ==
  /\ construct.kind = "tasks"
  /\ phase[p] = "ended"
  /\ p \in wasAble[p]
  /\ LoadSiblings(p)
  /\ Leave(p, CompletionTriggersSignal(p), able \ {p})
  /\ UNCHANGED <<construct, db, lock, failures>>

(* A path that is not able to make its parent continue does not look. *)
Unable(p) ==
  /\ construct.kind \in {"join", "tasks"}
  /\ phase[p] = "ended"
  /\ p \notin wasAble[p]
  /\ phase' = [phase EXCEPT ![p] = "committing"]
  /\ UNCHANGED <<construct, db, lock, session, failures>>

(* Token.notifyParentOfTokenEnd ends the parent with its last child, and   *)
(* Activity.targetDetermined wakes the target with its last link.          *)
CheckLast(p) ==
  /\ construct.kind \in {"end", "links"}
  /\ phase[p] = "ended"
  /\ LoadSiblings(p)
  /\ Leave(p, Path \ {p} \subseteq done, {Parent})
  /\ UNCHANGED <<construct, db, lock, failures>>

(* Flow.mustReactivateParent walks over the siblings, which it loads here. *)
LeaveFlow(p) ==
  /\ construct.kind = "flow"
  /\ phase[p] = "ended"
  /\ LoadSiblings(p)
  /\ phase' = [phase EXCEPT ![p] = "checking"]
  /\ UNCHANGED <<construct, db, lock, dirty, leaves, failures>>

(* It locks a sibling, and stops at one that is still able. *)
LockSibling(p) ==
  /\ phase[p] = "checking"
  /\ \E s \in Wanted(p) :
       /\ Grab(p, s)
       /\ phase' = [phase EXCEPT ![p] = IF s \in wasAble[p] THEN "committing" ELSE @]
  /\ UNCHANGED <<construct, db, session, failures>>

(* Every sibling is locked and none was able: the parent leaves the flow.  *)
ReactivateParent(p) ==
  /\ phase[p] = "checking"
  /\ Wanted(p) = {}
  /\ Leave(p, TRUE, {})
  /\ UNCHANGED <<construct, db, lock, seen, wasAble, wasDone, failures>>

-----------------------------------------------------------------------------
Step(p) ==
  \/ Load(p) \/ End(p) \/ CheckJoin(p) \/ CheckTasks(p) \/ Unable(p)
  \/ CheckLast(p) \/ LeaveFlow(p) \/ ReactivateParent(p)
  \/ Commit(p) \/ Stale(p) \/ Victim(p)

Next == \E p \in Path : Step(p) \/ Write(p) \/ LockSibling(p) \/ Fail(p)

(* Jobs are executed and messages redelivered until their transaction      *)
(* commits.  A database that breaks a deadlock gives the row lock that the *)
(* victim has released to the transaction that waits for it: strong        *)
(* fairness of the two steps that take row locks.                          *)
Fairness ==
  \A p \in Path : WF_vars(Step(p)) /\ SF_vars(Write(p)) /\ SF_vars(LockSibling(p))

Spec == Init /\ [][Next]_vars /\ Fairness

-----------------------------------------------------------------------------
(* Properties *)

(* What the transaction has to be equal to, one path at a time. *)
Abstract == INSTANCE AtomicJoin WITH rule <- construct.rule, arrived <- done

(* A transaction that holds its own row and the row of the parent has      *)
(* decided what the rows of its siblings call for now, however long ago it *)
(* has loaded them: no answer of Join.execute, Flow.mustReactivateParent,  *)
(* TaskNode.isLastToComplete or Token.hasActiveChildren that is about to   *)
(* commit rests on a stale sibling.                                        *)
DecisionIsCurrent ==
  \A p \in Path :
    phase[p] = "committing" /\ lock[Parent] = p /\ lock[p] = p =>
      leaves[p] = (left = 0 /\ Abstract!Enough(done \cup {p}))

(* The concurrent transactions have the effect of paths that arrive one at *)
(* a time: the parent continues with the arrival that makes enough of      *)
(* them, exactly once, and no arrival is lost (Join.execute,               *)
(* Flow.mustReactivateParent, TaskInstance.end, Token.end), and the target *)
(* of links is woken by the last of them (Activity.targetDetermined).      *)
ArrivalsAreAtomic == Abstract!Spec

(* However often transactions fail, collide or deadlock, every path        *)
(* completes in the end (RequestListener.onMessage recovers the session,   *)
(* the job executor executes the job again).                               *)
EveryPathCompletes == <>(done = Path)
=============================================================================
