--------------------------- MODULE MCJobExecutor ---------------------------
(***************************************************************************)
(* Instances of JobExecutor for TLC.                                       *)
(***************************************************************************)
EXTENDS JobExecutor, TLC

CONSTANTS n1, a1, t1, r1   \* jobs: continuation, action, timer, repeating timer
CONSTANTS k1, k2           \* tokens
CONSTANTS p1, p2           \* process instances
CONSTANTS e1, e2           \* job executors

MCKind == [j \in Job |-> CASE j = n1 -> "ExecuteNodeJob" [] j = a1 -> "ExecuteActionJob"
                           [] j = t1 -> "Timer" [] OTHER -> "RepeatTimer"]

\* One token: async node 0, then a wait state with a timer.
MCTokenOf == [j \in Job |-> k1]
MCInstanceOf == [tk \in Token |-> p1]
MCNodeOf == [j \in Job |-> IF j \in {t1, r1} THEN 1 ELSE 0]
MCDueIn == [j \in Job |-> IF j \in {t1, r1} THEN 1 ELSE 0]

\* Every job executor has a name of its own.
MCGroupName == [e \in Executor |-> e]

\* Nothing tells the job executors apart.
MCSymmetry == Permutations(Executor)
=============================================================================
