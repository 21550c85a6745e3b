----------------------- MODULE ConcurrentTokensProofs -----------------------
(***************************************************************************)
(* Concurrent transactions on sibling rows have the effect of arrivals one *)
(* at a time, for any number of paths, any construct but links, and any    *)
(* failures.                                                               *)
(*                                                                         *)
(* The argument: every transaction reads the version of the parent before  *)
(* it loads its siblings and writes the parent before it commits.  So a    *)
(* sibling that has committed in between has changed the version of the    *)
(* parent, and a transaction that still finds the version it has read has  *)
(* seen every arrival.                                                     *)
(***************************************************************************)
EXTENDS ConcurrentTokens, TLAPS

(* A transaction that holds a row has loaded its current version. *)
LocksAreFresh ==
  \A p \in Path, r \in Row :
    lock[r] = p => phase[p] # "idle" /\ version[r] = seen[p][r]

(* Versions only grow. *)
VersionsGrow == \A p \in Path, r \in Row : seen[p][r] <= version[r]

(* What a transaction has changed and decided so far, and the row locks it *)
(* cannot have yet.                                                        *)
SessionShape ==
  \A p \in Path :
    /\ phase[p] # "idle" => p \notin done
    /\ phase[p] # "committing" => leaves[p] = FALSE
    /\ phase[p] \in {"ended", "checking"} => dirty[p] = {p, Parent}
    /\ phase[p] = "committing" => {p, Parent} \subseteq dirty[p]
    /\ phase[p] = "checking" => construct.kind = "flow" /\ p \notin wasAble[p]
    /\ phase[p] = "loaded" \/ (phase[p] = "ended" /\ construct.kind # "join") =>
         \A r \in Row : lock[r] # p

(* Until the parent has continued, the paths that have not ended are able  *)
(* to make it continue, and afterwards none is.  Links do not log on the   *)
(* parent, and are left out.                                               *)
AbleUntilLeft ==
  /\ construct.kind # "links"
  /\ left \in {0, 1}
  /\ left = 0 => able = Path \ done
  /\ left = 1 => able = {}
  /\ left = 1 /\ construct.rule = "all" => done = Path

(* A path whose row has not changed knows whether it is able. *)
OwnView ==
  \A p \in Path :
    phase[p] \in {"loaded", "ended"} /\ version[p] = seen[p][p] =>
      (p \in wasAble[p] <=> p \in able)

(* A branch of a flow whose parent has not changed knows its siblings, and *)
(* none of those it has locked was able.                                   *)
FlowView ==
  \A p \in Path :
    phase[p] = "checking" =>
      /\ version[Parent] = seen[p][Parent] => wasAble[p] = able \ {p}
      /\ \A s \in Path : lock[s] = p => s \notin wasAble[p]

(* A decision is right as long as the versions of the path and the parent  *)
(* are the ones that were loaded.                                          *)
Decision ==
  \A p \in Path :
    /\ phase[p] = "committing"
    /\ version[p] = seen[p][p]
    /\ version[Parent] = seen[p][Parent]
    => /\ leaves[p] = (left = 0 /\ Abstract!Enough(done \cup {p}))
       /\ leaves[p] => able \ {p} \subseteq dirty[p]
       /\ ~ leaves[p] => dirty[p] = {p, Parent}

Inv ==
  /\ TypeOK
  /\ LocksAreFresh
  /\ VersionsGrow
  /\ SessionShape
  /\ AbleUntilLeft
  /\ OwnView
  /\ FlowView
  /\ Decision

-----------------------------------------------------------------------------
(* A transaction that wants no row has every row that it needs. *)
LEMMA WantedIsMissing ==
  ASSUME NEW p \in Path
  PROVE  /\ Wanted(p) \subseteq Missing(p)
         /\ Wanted(p) = {} => Missing(p) = {}
  BY DEF Wanted

(* Branches of a flow and tokens that end wait for all, tasks count none.  *)
LEMMA ConstructRules ==
  ASSUME Inv
  PROVE  /\ construct.rule \in {"all", "first", "n"}
         /\ construct.kind \in {"join", "tasks", "flow", "end"}
         /\ construct.kind \in {"flow", "end"} => construct.rule = "all"
         /\ construct.kind = "tasks" => construct.rule # "n"
  BY DEF Inv, AbleUntilLeft, TypeOK, Construct

(* A join with nOutOfM counts the arrivals. *)
LEMMA CountRule ==
  ASSUME NEW p \in Path, construct.rule = "n"
  PROVE  JoinReactivates(p) <=> Abstract!Enough(done \cup {p})
<1> DEFINE n == Cardinality(done \cup {p})
<1>1. JoinReactivates(p) <=> n >= NOutOfM
  BY DEF JoinReactivates
<1>2. Abstract!Enough(done \cup {p}) <=> n >= NOutOfM
  <2>1. Abstract!Cardinality(done \cup {p}) = n
    BY DEF Cardinality, Abstract!Cardinality, IsFiniteSet, Abstract!IsFiniteSet
  <2> QED BY <2>1 DEF Abstract!Enough
<1> QED BY <1>1, <1>2

(* While the parent has not continued, the last path to arrive is the one  *)
(* without able siblings.                                                  *)
LEMMA LastIsWithoutAble ==
  ASSUME Inv, NEW p \in Path, p \notin done, left = 0
  PROVE  /\ (able \ {p} = {}) <=> (done \cup {p} = Path)
         /\ (able \ {p} = {}) <=> (Path \ {p} \subseteq done)
  BY DEF Inv, TypeOK, AbleUntilLeft

(* A step that keeps the rows and the other sessions keeps their decisions. *)
LEMMA OtherDecisions ==
  ASSUME Inv, NEW p \in Path, NEW q \in Path, q # p,
         UNCHANGED <<construct, db>>,
         phase'[q] = phase[q], seen'[q] = seen[q],
         dirty'[q] = dirty[q], leaves'[q] = leaves[q],
         phase'[q] = "committing",
         version'[q] = seen'[q][q], version'[Parent] = seen'[q][Parent]
  PROVE  /\ leaves'[q] = (left' = 0 /\ Abstract!Enough(done \cup {q})')
         /\ leaves'[q] => able' \ {q} \subseteq dirty'[q]
         /\ ~ leaves'[q] => dirty'[q] = {q, Parent}
  BY DEF Inv, Decision, Abstract!Enough, db

LEMMA InitInv ==
  ASSUME "links" \notin Kinds
  PROVE  Init => Inv
<1> SUFFICES ASSUME Init PROVE Inv
  OBVIOUS
<1>1. TypeOK
  BY PathAssumption DEF Init, TypeOK, Row
<1>2. LocksAreFresh /\ VersionsGrow /\ SessionShape
  BY PathAssumption DEF Init, LocksAreFresh, VersionsGrow, SessionShape, Row
<1>3. AbleUntilLeft /\ OwnView /\ FlowView /\ Decision
  BY PathAssumption DEF Init, Construct, AbleUntilLeft, OwnView, FlowView, Decision, Row
<1> QED BY <1>1, <1>2, <1>3 DEF Inv

(* The steps of one transaction: what each can disturb. *)

LEMMA LoadStep ==
  ASSUME Inv, NEW p \in Path, Load(p)
  PROVE  Inv'
<1> USE PathAssumption DEF Inv, TypeOK, Row, db, session
<1>1. TypeOK'
  BY DEF Load
<1>2. LocksAreFresh'
  BY DEF Load, LocksAreFresh
<1>3. VersionsGrow'
  BY DEF Load, VersionsGrow
<1>4. SessionShape'
  BY DEF Load, LocksAreFresh, SessionShape
<1>5. AbleUntilLeft'
  BY DEF Load, AbleUntilLeft
<1>6. OwnView'
  BY DEF Load, OwnView
<1>7. FlowView'
  BY DEF Load, FlowView
<1>8. Decision'
  BY DEF Load, Abstract!Enough, Decision
<1> QED BY <1>1, <1>2, <1>3, <1>4, <1>5, <1>6, <1>7, <1>8 DEF Inv

LEMMA EndStep ==
  ASSUME Inv, NEW p \in Path, End(p)
  PROVE  Inv'
<1> USE PathAssumption DEF Inv, TypeOK, Row, db, session
<1>1. TypeOK'
  BY DEF End, Changed
<1>2. LocksAreFresh'
  BY DEF End, Changed, LocksAreFresh
<1>3. VersionsGrow'
  BY DEF End, Changed, VersionsGrow
<1>4. SessionShape'
  BY DEF End, Changed, AbleUntilLeft, SessionShape
<1>5. AbleUntilLeft'
  BY DEF End, Changed, AbleUntilLeft
<1>6. OwnView'
  BY DEF End, Changed, OwnView
<1>7. FlowView'
  BY DEF End, Changed, FlowView
<1>8. Decision'
  BY DEF End, Changed, Abstract!Enough, Decision
<1> QED BY <1>1, <1>2, <1>3, <1>4, <1>5, <1>6, <1>7, <1>8 DEF Inv

LEMMA UnableStep ==
  ASSUME Inv, NEW p \in Path, Unable(p)
  PROVE  Inv'
<1> USE PathAssumption DEF Inv, TypeOK, Row, db, session
<1>1. TypeOK'
  BY DEF Unable
<1>2. LocksAreFresh'
  BY DEF Unable, LocksAreFresh
<1>3. VersionsGrow'
  BY DEF Unable, VersionsGrow
<1>4. SessionShape'
  BY DEF Unable, SessionShape
<1>5. AbleUntilLeft'
  BY DEF Unable, AbleUntilLeft
<1>6. OwnView'
  BY DEF Unable, OwnView
<1>7. FlowView'
  BY DEF Unable, FlowView
<1>8. Decision'
  <2> SUFFICES ASSUME NEW q \in Path, phase'[q] = "committing",
                      version'[q] = seen'[q][q], version'[Parent] = seen'[q][Parent]
               PROVE  /\ leaves'[q] = (left' = 0 /\ Abstract!Enough(done \cup {q})')
                      /\ leaves'[q] => able' \ {q} \subseteq dirty'[q]
                      /\ ~ leaves'[q] => dirty'[q] = {q, Parent}
    BY DEF Decision
  <2>1. CASE q # p
    <3>1. /\ UNCHANGED <<construct, db>>
          /\ phase'[q] = phase[q] /\ seen'[q] = seen[q]
          /\ dirty'[q] = dirty[q] /\ leaves'[q] = leaves[q]
      BY <2>1 DEF Unable
    <3>2. Inv
      BY DEF Inv
    <3> HIDE DEF Inv
    <3> QED BY <2>1, <3>1, <3>2, OtherDecisions
  <2>2. CASE q = p
    <3>e. Abstract!Enough(done \cup {p})' <=> Abstract!Enough(done \cup {p})
      BY DEF Unable, Abstract!Enough
    <3>1. version[p] = seen[p][p] /\ p \notin done /\ p \notin wasAble[p]
      BY <2>2 DEF Unable, SessionShape
    <3>2. left # 0
      BY <3>1 DEF Unable, OwnView, AbleUntilLeft
    <3>3. leaves'[p] = FALSE /\ dirty'[p] = {p, Parent} /\ left' = left
      BY DEF Unable, SessionShape
    <3> QED BY <2>2, <3>2, <3>3
  <2> QED BY <2>1, <2>2
<1> QED BY <1>1, <1>2, <1>3, <1>4, <1>5, <1>6, <1>7, <1>8 DEF Inv

LEMMA CheckJoinStep ==
  ASSUME Inv, NEW p \in Path, CheckJoin(p)
  PROVE  Inv'
<1> USE PathAssumption DEF Inv, TypeOK, Row, db, session
<1>1. TypeOK'
  BY DEF CheckJoin, LoadSiblings, Leave, JoinReactivates, Construct
<1>2. LocksAreFresh'
  BY WantedIsMissing DEF CheckJoin, LoadSiblings, Leave, LocksAreFresh
<1>3. VersionsGrow'
  BY DEF CheckJoin, LoadSiblings, Leave, VersionsGrow
<1>4. SessionShape'
  BY DEF CheckJoin, LoadSiblings, Leave, SessionShape
<1>5. AbleUntilLeft'
  BY DEF CheckJoin, LoadSiblings, Leave, AbleUntilLeft
<1>6. OwnView'
  BY DEF CheckJoin, LoadSiblings, Leave, OwnView
<1>7. FlowView'
  BY DEF CheckJoin, LoadSiblings, Leave, FlowView
<1>8. Decision'
  <2> SUFFICES ASSUME NEW q \in Path, phase'[q] = "committing",
                      version'[q] = seen'[q][q], version'[Parent] = seen'[q][Parent]
               PROVE  /\ leaves'[q] = (left' = 0 /\ Abstract!Enough(done \cup {q})')
                      /\ leaves'[q] => able' \ {q} \subseteq dirty'[q]
                      /\ ~ leaves'[q] => dirty'[q] = {q, Parent}
    BY DEF Decision
  <2>1. CASE q # p
    <3>1. /\ UNCHANGED <<construct, db>>
          /\ phase'[q] = phase[q] /\ seen'[q] = seen[q]
          /\ dirty'[q] = dirty[q] /\ leaves'[q] = leaves[q]
      BY <2>1 DEF CheckJoin, LoadSiblings, Leave
    <3>2. Inv
      BY DEF Inv
    <3> HIDE DEF Inv
    <3> QED BY <2>1, <3>1, <3>2, OtherDecisions
  <2>2. CASE q = p
    <3>e. Abstract!Enough(done \cup {p})' <=> Abstract!Enough(done \cup {p})
      BY DEF CheckJoin, LoadSiblings, Leave, Abstract!Enough
    <3>1. version[p] = seen[p][p] /\ p \notin done /\ p \in wasAble[p]
      BY <2>2 DEF CheckJoin, LoadSiblings, Leave, SessionShape
    <3>2. left = 0
      BY <3>1 DEF CheckJoin, OwnView, AbleUntilLeft
    <3>a. (able \ {p} = {}) <=> (done \cup {p} = Path)
      BY <3>1, <3>2, LastIsWithoutAble
    <3>b. done \cup {p} # {}
      OBVIOUS
    <3>3. JoinReactivates(p) <=> Abstract!Enough(done \cup {p})
      <4>1. CASE construct.rule = "all"
        BY <4>1, <3>a DEF JoinReactivates, Abstract!Enough
      <4>2. CASE construct.rule = "first"
        BY <4>2, <3>b DEF JoinReactivates, Abstract!Enough
      <4>3. CASE construct.rule = "n"
        BY <4>3, CountRule
      <4> QED BY <4>1, <4>2, <4>3, ConstructRules
    <3>4. /\ leaves'[p] = JoinReactivates(p) /\ left' = left /\ able' = able
          /\ dirty'[p] = IF JoinReactivates(p) THEN {p, Parent} \cup (able \ {p})
                        ELSE {p, Parent}
      <4>1. phase[p] = "ended" /\ Leave(p, JoinReactivates(p), able \ {p}) /\ UNCHANGED db
        BY DEF CheckJoin
      <4>2. dirty[p] = {p, Parent}
        BY <4>1 DEF SessionShape
      <4>3. /\ leaves' = [leaves EXCEPT ![p] = JoinReactivates(p)]
            /\ dirty' = [dirty EXCEPT ![p] = IF JoinReactivates(p) THEN @ \cup (able \ {p})
                                            ELSE @]
        BY <4>1 DEF Leave
      <4>4. leaves \in [Path -> BOOLEAN] /\ dirty \in [Path -> SUBSET Row]
        OBVIOUS
      <4> HIDE DEF Inv, TypeOK
      <4> QED BY <4>1, <4>2, <4>3, <4>4
    <3>5. JoinReactivates(p) \in BOOLEAN
      BY DEF JoinReactivates
    <3> QED BY <2>2, <3>e, <3>2, <3>3, <3>4, <3>5
  <2> QED BY <2>1, <2>2
<1> QED BY <1>1, <1>2, <1>3, <1>4, <1>5, <1>6, <1>7, <1>8 DEF Inv

LEMMA CheckTasksStep ==
  ASSUME Inv, NEW p \in Path, CheckTasks(p)
  PROVE  Inv'
<1> USE PathAssumption DEF Inv, TypeOK, Row, db, session
<1>1. TypeOK'
  BY DEF CheckTasks, LoadSiblings, Leave, CompletionTriggersSignal
<1>2. LocksAreFresh'
  BY DEF CheckTasks, LoadSiblings, Leave, LocksAreFresh
<1>3. VersionsGrow'
  BY DEF CheckTasks, LoadSiblings, Leave, VersionsGrow
<1>4. SessionShape'
  BY DEF CheckTasks, LoadSiblings, Leave, SessionShape
<1>5. AbleUntilLeft'
  BY DEF CheckTasks, LoadSiblings, Leave, AbleUntilLeft
<1>6. OwnView'
  BY DEF CheckTasks, LoadSiblings, Leave, OwnView
<1>7. FlowView'
  BY DEF CheckTasks, LoadSiblings, Leave, FlowView
<1>8. Decision'
  <2> SUFFICES ASSUME NEW q \in Path, phase'[q] = "committing",
                      version'[q] = seen'[q][q], version'[Parent] = seen'[q][Parent]
               PROVE  /\ leaves'[q] = (left' = 0 /\ Abstract!Enough(done \cup {q})')
                      /\ leaves'[q] => able' \ {q} \subseteq dirty'[q]
                      /\ ~ leaves'[q] => dirty'[q] = {q, Parent}
    BY DEF Decision
  <2>1. CASE q # p
    <3>1. /\ UNCHANGED <<construct, db>>
          /\ phase'[q] = phase[q] /\ seen'[q] = seen[q]
          /\ dirty'[q] = dirty[q] /\ leaves'[q] = leaves[q]
      BY <2>1 DEF CheckTasks, LoadSiblings, Leave
    <3>2. Inv
      BY DEF Inv
    <3> HIDE DEF Inv
    <3> QED BY <2>1, <3>1, <3>2, OtherDecisions
  <2>2. CASE q = p
    <3>e. Abstract!Enough(done \cup {p})' <=> Abstract!Enough(done \cup {p})
      BY DEF CheckTasks, LoadSiblings, Leave, Abstract!Enough
    <3>1. version[p] = seen[p][p] /\ p \notin done /\ p \in wasAble[p]
      BY <2>2 DEF CheckTasks, LoadSiblings, Leave, SessionShape
    <3>2. left = 0
      BY <3>1 DEF CheckTasks, OwnView, AbleUntilLeft
    <3>a. (able \ {p} = {}) <=> (done \cup {p} = Path)
      BY <3>1, <3>2, LastIsWithoutAble
    <3>b. done \cup {p} # {}
      OBVIOUS
    <3>3. CompletionTriggersSignal(p) <=> Abstract!Enough(done \cup {p})
      BY <3>a, <3>b, ConstructRules DEF CheckTasks, CompletionTriggersSignal, Abstract!Enough
    <3>4. /\ leaves'[p] = CompletionTriggersSignal(p) /\ left' = left /\ able' = able
          /\ dirty'[p] = IF CompletionTriggersSignal(p) THEN {p, Parent} \cup (able \ {p})
                        ELSE {p, Parent}
      <4>1. phase[p] = "ended" /\ Leave(p, CompletionTriggersSignal(p), able \ {p}) /\ UNCHANGED db
        BY DEF CheckTasks
      <4>2. dirty[p] = {p, Parent}
        BY <4>1 DEF SessionShape
      <4>3. /\ leaves' = [leaves EXCEPT ![p] = CompletionTriggersSignal(p)]
            /\ dirty' = [dirty EXCEPT ![p] = IF CompletionTriggersSignal(p) THEN @ \cup (able \ {p})
                                            ELSE @]
        BY <4>1 DEF Leave
      <4>4. leaves \in [Path -> BOOLEAN] /\ dirty \in [Path -> SUBSET Row]
        OBVIOUS
      <4> HIDE DEF Inv, TypeOK
      <4> QED BY <4>1, <4>2, <4>3, <4>4
    <3>5. CompletionTriggersSignal(p) \in BOOLEAN
      BY DEF CompletionTriggersSignal
    <3> QED BY <2>2, <3>e, <3>2, <3>3, <3>4, <3>5
  <2> QED BY <2>1, <2>2
<1> QED BY <1>1, <1>2, <1>3, <1>4, <1>5, <1>6, <1>7, <1>8 DEF Inv

LEMMA CheckLastStep ==
  ASSUME Inv, NEW p \in Path, CheckLast(p)
  PROVE  Inv'
<1> USE PathAssumption DEF Inv, TypeOK, Row, db, session
<1>1. TypeOK'
  BY DEF CheckLast, LoadSiblings, Leave
<1>2. LocksAreFresh'
  BY DEF CheckLast, LoadSiblings, Leave, LocksAreFresh
<1>3. VersionsGrow'
  BY DEF CheckLast, LoadSiblings, Leave, VersionsGrow
<1>4. SessionShape'
  BY DEF CheckLast, LoadSiblings, Leave, SessionShape
<1>5. AbleUntilLeft'
  BY DEF CheckLast, LoadSiblings, Leave, AbleUntilLeft
<1>6. OwnView'
  BY DEF CheckLast, LoadSiblings, Leave, OwnView
<1>7. FlowView'
  BY DEF CheckLast, LoadSiblings, Leave, FlowView
<1>8. Decision'
  <2> SUFFICES ASSUME NEW q \in Path, phase'[q] = "committing",
                      version'[q] = seen'[q][q], version'[Parent] = seen'[q][Parent]
               PROVE  /\ leaves'[q] = (left' = 0 /\ Abstract!Enough(done \cup {q})')
                      /\ leaves'[q] => able' \ {q} \subseteq dirty'[q]
                      /\ ~ leaves'[q] => dirty'[q] = {q, Parent}
    BY DEF Decision
  <2>1. CASE q # p
    <3>1. /\ UNCHANGED <<construct, db>>
          /\ phase'[q] = phase[q] /\ seen'[q] = seen[q]
          /\ dirty'[q] = dirty[q] /\ leaves'[q] = leaves[q]
      BY <2>1 DEF CheckLast, LoadSiblings, Leave
    <3>2. Inv
      BY DEF Inv
    <3> HIDE DEF Inv
    <3> QED BY <2>1, <3>1, <3>2, OtherDecisions
  <2>2. CASE q = p
    <3>e. Abstract!Enough(done \cup {p})' <=> Abstract!Enough(done \cup {p})
      BY DEF CheckLast, LoadSiblings, Leave, Abstract!Enough
    <3>1. p \notin done /\ left = 0
      BY ConstructRules DEF CheckLast, SessionShape, AbleUntilLeft
    <3>2. (Path \ {p} \subseteq done) <=> Abstract!Enough(done \cup {p})
      BY <3>1, LastIsWithoutAble, ConstructRules DEF CheckLast, Abstract!Enough
    <3>3. /\ leaves'[p] = (Path \ {p} \subseteq done) /\ left' = left /\ able' = able
          /\ dirty'[p] = {p, Parent}
      BY DEF CheckLast, LoadSiblings, Leave, SessionShape
    <3>4. Path \ {p} \subseteq done => able \ {p} = {}
      BY <3>1, LastIsWithoutAble
    <3> QED BY <2>2, <3>e, <3>1, <3>2, <3>3, <3>4
  <2> QED BY <2>1, <2>2
<1> QED BY <1>1, <1>2, <1>3, <1>4, <1>5, <1>6, <1>7, <1>8 DEF Inv

LEMMA LeaveFlowStep ==
  ASSUME Inv, NEW p \in Path, LeaveFlow(p)
  PROVE  Inv'
<1> USE PathAssumption DEF Inv, TypeOK, Row, db, session
<1>1. TypeOK'
  BY DEF LeaveFlow, LoadSiblings
<1>2. LocksAreFresh'
  BY DEF LeaveFlow, LoadSiblings, LocksAreFresh
<1>3. VersionsGrow'
  BY DEF LeaveFlow, LoadSiblings, VersionsGrow
<1>4. SessionShape'
  BY DEF LeaveFlow, LoadSiblings, SessionShape
<1>5. AbleUntilLeft'
  BY DEF LeaveFlow, LoadSiblings, AbleUntilLeft
<1>6. OwnView'
  BY DEF LeaveFlow, LoadSiblings, OwnView
<1>7. FlowView'
  BY DEF LeaveFlow, LoadSiblings, SessionShape, FlowView
<1>8. Decision'
  BY ZenonT(60) DEF LeaveFlow, LoadSiblings, Abstract!Enough, Decision
<1> QED BY <1>1, <1>2, <1>3, <1>4, <1>5, <1>6, <1>7, <1>8 DEF Inv

LEMMA ReactivateParentStep ==
  ASSUME Inv, NEW p \in Path, ReactivateParent(p)
  PROVE  Inv'
<1> USE PathAssumption DEF Inv, TypeOK, Row, db, session
<1>1. TypeOK'
  BY DEF ReactivateParent, Leave
<1>2. LocksAreFresh'
  BY DEF ReactivateParent, Leave, LocksAreFresh
<1>3. VersionsGrow'
  BY DEF ReactivateParent, Leave, VersionsGrow
<1>4. SessionShape'
  BY DEF ReactivateParent, Leave, SessionShape
<1>5. AbleUntilLeft'
  BY DEF ReactivateParent, Leave, AbleUntilLeft
<1>6. OwnView'
  BY DEF ReactivateParent, Leave, OwnView
<1>7. FlowView'
  BY DEF ReactivateParent, Leave, FlowView
<1>8. Decision'
  <2> SUFFICES ASSUME NEW q \in Path, phase'[q] = "committing",
                      version'[q] = seen'[q][q], version'[Parent] = seen'[q][Parent]
               PROVE  /\ leaves'[q] = (left' = 0 /\ Abstract!Enough(done \cup {q})')
                      /\ leaves'[q] => able' \ {q} \subseteq dirty'[q]
                      /\ ~ leaves'[q] => dirty'[q] = {q, Parent}
    BY DEF Decision
  <2>1. CASE q # p
    <3>1. /\ UNCHANGED <<construct, db>>
          /\ phase'[q] = phase[q] /\ seen'[q] = seen[q]
          /\ dirty'[q] = dirty[q] /\ leaves'[q] = leaves[q]
      BY <2>1 DEF ReactivateParent, Leave
    <3>2. Inv
      BY DEF Inv
    <3> HIDE DEF Inv
    <3> QED BY <2>1, <3>1, <3>2, OtherDecisions
  <2>2. CASE q = p
    <3>e. Abstract!Enough(done \cup {p})' <=> Abstract!Enough(done \cup {p})
      BY DEF ReactivateParent, Leave, Abstract!Enough
    <3>1. p \notin done /\ left = 0 /\ construct.rule = "all"
      BY ConstructRules DEF ReactivateParent, SessionShape, AbleUntilLeft
    <3>2. able \ {p} = wasAble[p]
      BY <2>2 DEF ReactivateParent, FlowView
    <3>3. \A s \in Path \ {p} : lock[s] = p
      BY WantedIsMissing DEF ReactivateParent, Missing
    <3>4. able \ {p} = {}
      BY <3>2, <3>3 DEF ReactivateParent, FlowView, SessionShape
    <3>5. Abstract!Enough(done \cup {p})
      BY <3>1, <3>4, LastIsWithoutAble DEF Abstract!Enough
    <3>6. leaves'[p] = TRUE /\ left' = left /\ able' = able
      BY DEF ReactivateParent, Leave
    <3> QED BY <2>2, <3>e, <3>1, <3>4, <3>5, <3>6
  <2> QED BY <2>1, <2>2
<1> QED BY <1>1, <1>2, <1>3, <1>4, <1>5, <1>6, <1>7, <1>8 DEF Inv

LEMMA WriteStep ==
  ASSUME Inv, NEW p \in Path, Write(p)
  PROVE  Inv'
<1> USE PathAssumption DEF Inv, TypeOK, Row, db, session
<1>r. PICK r \in Wanted(p) : Grab(p, r)
  BY DEF Write
<1>u. phase[p] \in {"ended", "committing"} /\ UNCHANGED <<construct, db, phase, session, failures>>
  BY DEF Write
<1>m. r \in Missing(p) /\ r \in Row
  BY <1>r, WantedIsMissing DEF Missing
<1>1. TypeOK'
  BY <1>r, <1>u, <1>m DEF Grab
<1>2. LocksAreFresh'
  BY <1>r, <1>u, <1>m DEF Grab, LocksAreFresh
<1>3. VersionsGrow'
  BY <1>r, <1>u, <1>m DEF Grab, VersionsGrow
<1>4. SessionShape'
  BY <1>r, <1>u, <1>m DEF Grab, Missing, SessionShape
<1>5. AbleUntilLeft'
  BY <1>r, <1>u, <1>m DEF Grab, AbleUntilLeft
<1>6. OwnView'
  BY <1>r, <1>u, <1>m DEF Grab, OwnView
<1>7. FlowView'
  BY <1>r, <1>u, <1>m DEF Grab, FlowView
<1>8. Decision'
  BY <1>r, <1>u, <1>m DEF Grab, Abstract!Enough, Decision
<1> QED BY <1>1, <1>2, <1>3, <1>4, <1>5, <1>6, <1>7, <1>8 DEF Inv

LEMMA LockSiblingStep ==
  ASSUME Inv, NEW p \in Path, LockSibling(p)
  PROVE  Inv'
<1> USE PathAssumption DEF Inv, TypeOK, Row, db, session
<1>r. PICK r \in Wanted(p) :
         /\ Grab(p, r)
         /\ phase' = [phase EXCEPT ![p] = IF r \in wasAble[p] THEN "committing" ELSE @]
  BY DEF LockSibling
<1>u. phase[p] = "checking" /\ UNCHANGED <<construct, db, session, failures>>
  BY DEF LockSibling
<1>m. r \in Missing(p) /\ r \in Row
  BY <1>r, WantedIsMissing DEF Missing
<1>1. TypeOK'
  BY <1>r, <1>u, <1>m DEF Grab
<1>2. LocksAreFresh'
  BY <1>r, <1>u, <1>m DEF Grab, LocksAreFresh
<1>3. VersionsGrow'
  BY <1>r, <1>u, <1>m DEF Grab, VersionsGrow
<1>4. SessionShape'
  BY <1>r, <1>u, <1>m DEF Grab, Missing, SessionShape
<1>5. AbleUntilLeft'
  BY <1>r, <1>u, <1>m DEF Grab, AbleUntilLeft
<1>6. OwnView'
  BY <1>r, <1>u, <1>m DEF Grab, OwnView
<1>7. FlowView'
  BY <1>r, <1>u, <1>m DEF Grab, Missing, FlowView
<1>8. Decision'
  <2> SUFFICES ASSUME NEW q \in Path, phase'[q] = "committing",
                      version'[q] = seen'[q][q], version'[Parent] = seen'[q][Parent]
               PROVE  /\ leaves'[q] = (left' = 0 /\ Abstract!Enough(done \cup {q})')
                      /\ leaves'[q] => able' \ {q} \subseteq dirty'[q]
                      /\ ~ leaves'[q] => dirty'[q] = {q, Parent}
    BY DEF Decision
  <2>1. CASE q # p
    <3>1. /\ UNCHANGED <<construct, db>>
          /\ phase'[q] = phase[q] /\ seen'[q] = seen[q]
          /\ dirty'[q] = dirty[q] /\ leaves'[q] = leaves[q]
      BY <2>1, <1>r, <1>u DEF Grab
    <3>2. Inv
      BY DEF Inv
    <3> HIDE DEF Inv
    <3> QED BY <2>1, <3>1, <3>2, OtherDecisions
  <2>2. CASE q = p
    <3>e. Abstract!Enough(done \cup {p})' <=> Abstract!Enough(done \cup {p})
      BY <1>u DEF Abstract!Enough
    <3>1. r \in wasAble[p]
      BY <2>2, <1>r, <1>u
    <3>2. p \notin done /\ left = 0 /\ construct.rule = "all"
      BY <1>u, ConstructRules DEF SessionShape, AbleUntilLeft
    <3>3. r \in able \ {p}
      BY <2>2, <3>1, <1>u DEF FlowView
    <3>4. ~ Abstract!Enough(done \cup {p})
      BY <3>2, <3>3, LastIsWithoutAble DEF Abstract!Enough
    <3>5. leaves'[p] = FALSE /\ dirty'[p] = {p, Parent} /\ left' = left
      BY <1>u DEF SessionShape
    <3> QED BY <2>2, <3>e, <3>4, <3>5
  <2> QED BY <2>1, <2>2
<1> QED BY <1>1, <1>2, <1>3, <1>4, <1>5, <1>6, <1>7, <1>8 DEF Inv

(* A transaction that is rolled back leaves the rows and the others alone. *)
LEMMA RollbackStep ==
  ASSUME Inv, NEW p \in Path, Reset(p), UNCHANGED <<construct, db>>,
         failures' \in 0 .. MaxFailures
  PROVE  Inv'
<1> USE PathAssumption DEF Inv, TypeOK, Row, db, Reset
<1>1. TypeOK'
  OBVIOUS
<1>2. LocksAreFresh'
  BY DEF LocksAreFresh
<1>3. VersionsGrow'
  BY DEF VersionsGrow
<1>4. SessionShape'
  BY DEF SessionShape
<1>5. AbleUntilLeft'
  BY DEF AbleUntilLeft
<1>6. OwnView'
  BY DEF OwnView
<1>7. FlowView'
  BY DEF FlowView
<1>8. Decision'
  <2> SUFFICES ASSUME NEW q \in Path, phase'[q] = "committing",
                      version'[q] = seen'[q][q], version'[Parent] = seen'[q][Parent]
               PROVE  /\ leaves'[q] = (left' = 0 /\ Abstract!Enough(done \cup {q})')
                      /\ leaves'[q] => able' \ {q} \subseteq dirty'[q]
                      /\ ~ leaves'[q] => dirty'[q] = {q, Parent}
    BY DEF Decision
  <2>1. /\ q # p
        /\ phase'[q] = phase[q] /\ seen'[q] = seen[q]
        /\ dirty'[q] = dirty[q] /\ leaves'[q] = leaves[q]
    OBVIOUS
  <2>2. Inv /\ UNCHANGED <<construct, db>>
    BY DEF Inv
  <2> HIDE DEF Inv
  <2> QED BY <2>1, <2>2, OtherDecisions
<1> QED BY <1>1, <1>2, <1>3, <1>4, <1>5, <1>6, <1>7, <1>8 DEF Inv

(* A transaction that commits holds every row that it has changed, its own *)
(* and that of the parent among them, so its decision is right.            *)
LEMMA CommitHolds ==
  ASSUME Inv, NEW p \in Path, Commit(p)
  PROVE  /\ p \notin done
         /\ {p, Parent} \subseteq dirty[p]
         /\ \A r \in dirty[p] : lock[r] = p
         /\ leaves[p] = (left = 0 /\ Abstract!Enough(done \cup {p}))
         /\ leaves[p] => able \ {p} \subseteq dirty[p]
         /\ ~ leaves[p] => dirty[p] = {p, Parent}
<1> USE DEF Inv, TypeOK, Row
<1>1. p \notin done /\ {p, Parent} \subseteq dirty[p]
  BY DEF Commit, SessionShape
<1>2. \A r \in dirty[p] : lock[r] = p
  BY WantedIsMissing DEF Commit, Missing
<1>3. version[p] = seen[p][p] /\ version[Parent] = seen[p][Parent]
  BY <1>1, <1>2 DEF LocksAreFresh
<1> QED BY <1>1, <1>2, <1>3 DEF Commit, Decision

LEMMA CommitStep ==
  ASSUME Inv, NEW p \in Path, Commit(p)
  PROVE  Inv'
<1> USE PathAssumption DEF Inv, TypeOK, Row, Reset
<1>h. /\ p \notin done
      /\ {p, Parent} \subseteq dirty[p]
      /\ \A r \in dirty[p] : lock[r] = p
  BY CommitHolds
<1>1. TypeOK'
  BY DEF Commit
<1>2. LocksAreFresh'
  BY <1>h DEF Commit, LocksAreFresh
<1>3. VersionsGrow'
  BY DEF Commit, VersionsGrow
<1>4. SessionShape'
  BY DEF Commit, SessionShape
<1>5. AbleUntilLeft'
  <2>1. CASE leaves[p]
    <3>1. left = 0 /\ Abstract!Enough(done \cup {p}) /\ able \ {p} \subseteq dirty[p]
      BY <2>1, CommitHolds
    <3>2. left' = 1 /\ able' = {}
      BY <2>1, <3>1, <1>h DEF Commit
    <3>3. construct.rule = "all" => done' = Path
      BY <3>1 DEF Commit, Abstract!Enough
    <3> QED BY <3>2, <3>3 DEF AbleUntilLeft, Commit
  <2>2. CASE ~ leaves[p]
    <3>1. dirty[p] = {p, Parent}
      BY <2>2, CommitHolds
    <3>2. left' = left /\ able' = able \ {p} /\ done' = done \cup {p}
      BY <2>2, <3>1 DEF Commit
    <3> QED BY <3>2, <1>h DEF AbleUntilLeft, Commit
  <2> QED BY <2>1, <2>2
<1>6. OwnView'
  BY <1>h DEF Commit, OwnView, VersionsGrow
<1>p. \A q \in Path \ {p} : version'[Parent] # seen'[q][Parent]
  BY <1>h DEF Commit, VersionsGrow
<1>7. FlowView'
  BY <1>p DEF Commit, FlowView
<1>8. Decision'
  BY <1>p DEF Commit, Decision
<1> QED BY <1>1, <1>2, <1>3, <1>4, <1>5, <1>6, <1>7, <1>8 DEF Inv

LEMMA NextInv == Inv /\ [Next]_vars => Inv'
<1> SUFFICES ASSUME Inv, [Next]_vars PROVE Inv'
  OBVIOUS
<1>1. ASSUME NEW p \in Path, Step(p) PROVE Inv'
  <2>1. CASE Load(p)
    BY <2>1, LoadStep
  <2>2. CASE End(p)
    BY <2>2, EndStep
  <2>3. CASE CheckJoin(p)
    BY <2>3, CheckJoinStep
  <2>4. CASE CheckTasks(p)
    BY <2>4, CheckTasksStep
  <2>5. CASE Unable(p)
    BY <2>5, UnableStep
  <2>6. CASE CheckLast(p)
    BY <2>6, CheckLastStep
  <2>7. CASE LeaveFlow(p)
    BY <2>7, LeaveFlowStep
  <2>8. CASE ReactivateParent(p)
    BY <2>8, ReactivateParentStep
  <2>9. CASE Commit(p)
    BY <2>9, CommitStep
  <2>10. CASE Stale(p) \/ Victim(p)
    BY <2>10, RollbackStep DEF Stale, Victim, Inv, TypeOK
  <2> QED BY <1>1, <2>1, <2>2, <2>3, <2>4, <2>5, <2>6, <2>7, <2>8, <2>9, <2>10 DEF Step
<1>2. ASSUME NEW p \in Path, Write(p) PROVE Inv'
  BY <1>2, WriteStep
<1>3. ASSUME NEW p \in Path, LockSibling(p) PROVE Inv'
  BY <1>3, LockSiblingStep
<1>4. ASSUME NEW p \in Path, Fail(p) PROVE Inv'
  <2>1. failures' \in 0 .. MaxFailures
    BY <1>4, PathAssumption DEF Fail, Inv, TypeOK
  <2> QED BY <1>4, <2>1, RollbackStep DEF Fail
<1>5. CASE UNCHANGED vars
  <2> USE <1>5 DEF vars, db, session, Inv
  <2>1. TypeOK' /\ LocksAreFresh' /\ VersionsGrow' /\ SessionShape'
    BY DEF TypeOK, LocksAreFresh, VersionsGrow, SessionShape
  <2>2. AbleUntilLeft' /\ OwnView' /\ FlowView'
    BY DEF AbleUntilLeft, OwnView, FlowView
  <2>3. Decision'
    BY DEF Decision, Abstract!Enough
  <2> QED BY <2>1, <2>2, <2>3
<1> QED BY <1>1, <1>2, <1>3, <1>4, <1>5 DEF Next

-----------------------------------------------------------------------------
LEMMA InvAlways ==
  ASSUME "links" \notin Kinds
  PROVE  Spec => []Inv
  BY InitInv, NextInv, PTL DEF Spec

(* The rows, the row locks and the sessions of any number of concurrent    *)
(* transactions keep their types (Join, TaskNode, Flow, Token.end).        *)
THEOREM TokensTypeCorrect ==
  ASSUME "links" \notin Kinds
  PROVE  Spec => []TypeOK
<1>1. Inv => TypeOK
  BY DEF Inv
<1> QED BY <1>1, InvAlways, PTL

(* Whatever has been read when, a transaction that holds its own row and   *)
(* the row of the parent decides from siblings that are current, for any   *)
(* number of paths, any construct but links and any number of failures.    *)
THEOREM DecisionsAreCurrent ==
  ASSUME "links" \notin Kinds
  PROVE  Spec => []DecisionIsCurrent
<1>1. Inv => DecisionIsCurrent
  BY PathAssumption DEF Inv, TypeOK, Row, LocksAreFresh, Decision, DecisionIsCurrent
<1> QED BY <1>1, InvAlways, PTL

(* A commit is the arrival of its path. *)
LEMMA CommitArrives ==
  ASSUME Inv, NEW p \in Path, Commit(p)
  PROVE  Abstract!Arrive(p)
<1>1. p \notin done /\ leaves[p] = (left = 0 /\ Abstract!Enough(done \cup {p}))
  BY CommitHolds
<1>2. /\ done' = done \cup {p} /\ UNCHANGED construct
      /\ left' = IF leaves[p] THEN left + 1 ELSE left
  BY DEF Commit
<1>3. Abstract!Enough(done') <=> Abstract!Enough(done \cup {p})
  BY <1>2
<1>4. left' = IF left = 0 /\ Abstract!Enough(done') THEN 1 ELSE left
  BY <1>1, <1>2, <1>3 DEF Inv, TypeOK
<1> QED BY <1>1, <1>2, <1>4 DEF Abstract!Arrive

(* Concurrent transactions implement arrivals one at a time: of any number *)
(* of tokens in a join, a flow or an end state, and of task instances, the *)
(* parent continues exactly once, with the arrival that makes enough.      *)
THEOREM TransactionsAreAtomic ==
  ASSUME "links" \notin Kinds
  PROVE  Spec => ArrivalsAreAtomic
<1>1. Init => Abstract!Init
  BY DEF Init, Construct, Abstract!Init
<1>2. Inv /\ [Next]_vars => [Abstract!Next]_(Abstract!vars)
  <2> SUFFICES ASSUME Inv, [Next]_vars PROVE [Abstract!Next]_(Abstract!vars)
    OBVIOUS
  <2>1. ASSUME NEW p \in Path, Commit(p) PROVE Abstract!Next
    BY <2>1, CommitArrives DEF Abstract!Next
  <2>2. ASSUME NEW p \in Path,
               Step(p) \/ Write(p) \/ LockSibling(p) \/ Fail(p), ~ Commit(p)
        PROVE  UNCHANGED Abstract!vars
    <3>1. UNCHANGED <<construct, db>>
      BY <2>2 DEF Step, Load, End, CheckJoin, CheckTasks, Unable, CheckLast,
           LeaveFlow, ReactivateParent, Stale, Victim, Write, LockSibling, Fail
    <3> QED BY <3>1 DEF db, Abstract!vars
  <2>3. CASE UNCHANGED vars
    BY <2>3 DEF vars, db, Abstract!vars
  <2> QED BY <2>1, <2>2, <2>3 DEF Next
<1> QED BY <1>1, <1>2, InvAlways, PTL DEF Spec, ArrivalsAreAtomic, Abstract!Spec
=============================================================================
