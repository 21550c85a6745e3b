----------------------------- MODULE FlowLinks -----------------------------
(***************************************************************************)
(* Links between the activities of a BPEL flow, join conditions and dead   *)
(* path elimination: org.jbpm.bpel.graph.def (Activity, LinkDefinition),   *)
(* graph.struct (StructuredActivity, Flow, Sequence, If, Pick) and         *)
(* graph.exe.LinkInstance.                                                 *)
(*                                                                         *)
(* An activity that completes determines its outgoing links one after the  *)
(* other, and each link runs its target there and then, by nested method   *)
(* calls that may complete other activities, other branches and the flow.  *)
(* `calls' is the stack of the calls that are still to be made, the next   *)
(* one first.  A message from a partner starts a new stack.                *)
(*                                                                         *)
(* Of a structured activity, which has a Begin and an End node, the name   *)
(* stands for Begin as the node of a token; a token in an End, which is    *)
(* the target of no link, has no node.                                     *)
(***************************************************************************)
EXTENDS Naturals, Sequences, FiniteSets, SequencesExt

CONSTANTS
  Root,          \* the outermost activity, a flow
  Kind,          \* activity -> "basic", "sequence", "flow", "if" or "pick"
  Children,      \* activity -> its nested activities, in order
  Links,         \* activity -> the links that a flow declares
  Sources,       \* activity -> its outgoing links, in order
  Target,        \* link -> the activity it leads to
  Conditional,   \* links with a transition condition
  Receives,      \* basic activities that may wait for a message
  AllOf,         \* activities whose join condition asks for every link
  Throws,        \* activities that do not suppress a join failure
  None           \* null

Activity == DOMAIN Kind
Link == DOMAIN Target
Basic == {a \in Activity : Kind[a] = "basic"}
Choice == {a \in Activity : Kind[a] \in {"if", "pick"}}
Targets(a) == {l \in Link : Target[l] = a}
Source(l) == CHOOSE a \in Activity : l \in ToSet(Sources[a])
Structure(a) == CHOOSE s \in Activity : a \in ToSet(Children[s])

(* The token of a branch of a flow, named after the branch, and the token  *)
(* that holds the link instances of a flow, named after the flow.          *)
Token == {"branch", "links"} \X Activity
Main == <<"branch", Root>>

(* The structures around an activity: a set that holds the activity and    *)
(* the structure of each member holds them all.                            *)
Upwards(S) == \A a \in S \ {Root} : Structure(a) \in S
Within(f) == {a \in Activity \ {f} : \A S \in SUBSET (Activity \ {f}) : a \in S => ~ Upwards(S)}

(* At most one activity throws: a second fault would meet the handling of  *)
(* the first, which is the subject of ScopeInstance.                       *)
ASSUME FlowAssumption ==
  /\ Root \in Activity /\ Kind[Root] = "flow" /\ None \notin Activity \cup Link \cup Token
  /\ Kind \in [Activity -> {"basic", "sequence", "flow", "if", "pick"}]
  /\ Children \in [Activity -> Seq(Activity)]
  /\ \A a \in Activity : Children[a] = <<>> <=> a \in Basic
  /\ Links \in [Activity -> SUBSET Link] /\ Sources \in [Activity -> Seq(Link)]
  /\ \A a \in Activity : Links[a] # {} => Kind[a] = "flow"
  /\ Receives \subseteq Basic /\ Conditional \subseteq Link /\ AllOf \subseteq Activity
  /\ Throws \subseteq Activity /\ Cardinality(Throws) <= 1

(* Activities form a tree (StructuredActivity.addActivity detaches them    *)
(* from the structure they were in).                                       *)
ASSUME TreeAssumption ==
  /\ \A a \in Activity \ {Root} : \E s \in Activity : a \in ToSet(Children[s])
  /\ \A s \in Activity : Root \notin ToSet(Children[s])
  /\ \A s, r \in Activity : \A i \in DOMAIN Children[s], j \in DOMAIN Children[r] :
       Children[s][i] = Children[r][j] => s = r /\ i = j
  /\ \A S \in SUBSET Activity : S # {} /\ Upwards(S) => Root \in S

(* A link has one source and one target, both within the flow that         *)
(* declares it: ActivityReader looks it up in the structures around the    *)
(* activity.                                                               *)
ASSUME LinkAssumption ==
  /\ \A l \in Link : \E a \in Activity : l \in ToSet(Sources[a])
  /\ \A a, b \in Activity : \A i \in DOMAIN Sources[a], j \in DOMAIN Sources[b] :
       Sources[a][i] = Sources[b][j] => a = b /\ i = j
  /\ \A l \in Link : \E f \in Activity : l \in Links[f] /\ {Source(l), Target[l]} \subseteq Within(f)
  /\ \A f, g \in Activity : Links[f] \cap Links[g] # {} => f = g

VARIABLES
  holds,         \* what the transition conditions evaluate to
  choice,        \* the branch that an if or a pick takes, None if it has none
  receives,      \* the activities that wait for a message
  parent,        \* created token -> Token.parent
  node,          \* created token -> Token.node
  ended,         \* tokens with an end date, unable to reactivate their parent
  status,        \* LinkInstance.status, "absent" without an instance
  targetToken,   \* LinkInstance.targetToken
  waiting,       \* the executions that wait for a message
  phase,         \* how far each activity has come (history)
  outcome,       \* of the scope around the flow
  calls          \* the calls that are still to be made

definition == <<holds, choice, receives>>
tokens == <<parent, node, ended>>
links == <<status, targetToken>>
vars == <<definition, tokens, links, waiting, phase, outcome, calls>>

Call(op, a, t) == [op |-> op, activity |-> a, token |-> t]
Branch(f, i) == [op |-> "branch", activity |-> f, index |-> i]
Determine(l, value) == [op |-> "determine", link |-> l, value |-> value]

ActivityCall == [op : {"enter", "execute", "leave", "proceed", "end", "skip", "eliminate",
                       "targetDetermined"}, activity : Activity, token : Token]
BranchCall == [op : {"branch"}, activity : Activity, index : Nat]
LinkCall == [op : {"determine"}, link : Link, value : BOOLEAN]

TypeOK ==
  /\ holds \in [Link -> BOOLEAN]
  /\ choice \in [Choice -> Activity \cup {None}]
  /\ receives \subseteq Receives
  /\ DOMAIN parent \subseteq Token /\ DOMAIN node = DOMAIN parent
  /\ \A t \in DOMAIN parent : /\ t # Main => parent[t] \in DOMAIN parent
                              /\ node[t] \in Activity \cup {None}
  /\ ended \subseteq DOMAIN parent
  /\ status \in [Link -> {"absent", "unset", "true", "false"}]
  /\ targetToken \in [Link -> DOMAIN parent \cup {None}]
  /\ waiting \subseteq [op : {"execute"}, activity : Receives \cup Choice, token : Token]
  /\ phase \in [Activity -> {"idle", "entered", "started", "left", "skipped", "dead"}]
  /\ outcome \in {"running", "completed", "faulted"}
  /\ calls \in Seq(ActivityCall \cup BranchCall \cup LinkCall)

Init ==
  /\ holds \in {h \in [Link -> BOOLEAN] : \A l \in Link \ Conditional : h[l]}
  /\ choice \in {c \in [Choice -> Activity \cup {None}] :
                   \A a \in Choice : \/ c[a] \in ToSet(Children[a])
                                     \/ Kind[a] = "if" /\ c[a] = None}
  /\ receives \in SUBSET Receives
  /\ parent = [t \in {Main} |-> None]
  /\ node = [t \in {Main} |-> None]
  /\ ended = {}
  /\ status = [l \in Link |-> "absent"]
  /\ targetToken = [l \in Link |-> None]
  /\ waiting = {}
  /\ phase = [a \in Activity |-> "idle"]
  /\ outcome = "running"
  /\ calls = <<Call("enter", Root, Main)>>

(* The call on top of the stack is replaced by the calls that it makes. *)
call == Head(calls)
Calling(ops) == calls # <<>> /\ call.op \in ops
Then(made) == calls' = made \o Tail(calls)

(* The activity of the call on top has come to p. *)
Reach(p) == phase' = [phase EXCEPT ![call.activity] = p]
-----------------------------------------------------------------------------
(* Tokens. *)

ChildrenOf(t) == {c \in DOMAIN parent : parent[c] = t}

(* Token.end ends a token with those of its children that have not ended.  *)
EndedWith(t) ==
  LET running == DOMAIN parent \ ended
      Closed(S) == {t} \cap running \subseteq S /\ \A c \in S : ChildrenOf(c) \cap running \subseteq S
  IN  {c \in running : \A S \in SUBSET running : Closed(S) => c \in S}

(* Flow.initializeLinks: a token for the link instances, if there are any. *)
LinksToken(f, t) == IF Links[f] = {} THEN t ELSE <<"links", f>>

(* New tokens get the node of their parent. *)
Create(new, up, f, t) ==
  LET all == DOMAIN parent \cup {LinksToken(f, t)} \cup new
  IN  /\ parent' = [c \in all |-> IF c \in new THEN up
                                  ELSE IF c \in DOMAIN parent THEN parent[c] ELSE t]
      /\ node' = [c \in all |-> IF c \in DOMAIN parent THEN node[c] ELSE node[t]]
      /\ status' = [l \in Link |-> IF l \in Links[f] THEN "unset" ELSE status[l]]

-----------------------------------------------------------------------------
(* Join conditions. *)

(* Activity.setTargetsToken *)
SetTargetsToken(a, t) ==
  targetToken' = [l \in Link |-> IF l \in Targets(a) THEN t ELSE targetToken[l]]

AreTargetsDetermined(a) == \A l \in Targets(a) : status[l] # "unset"

(* The implicit condition asks for one link, the explicit one for all. *)
JoinCondition(a) ==
  \/ Targets(a) = {}
  \/ a \in AllOf /\ \A l \in Targets(a) : status[l] = "true"
  \/ a \notin AllOf /\ \E l \in Targets(a) : status[l] = "true"

(* Activity.evaluateJoinCondition: the activity is executed, or skipped,   *)
(* or the join failure ends every token of the scope.                      *)
EvaluateJoinCondition(a, t) ==
  \/ /\ JoinCondition(a)
     /\ Then(<<Call("execute", a, t)>>)
     /\ UNCHANGED <<ended, outcome>>
  \/ /\ ~ JoinCondition(a)
     /\ a \notin Throws
     /\ Then(<<Call("skip", a, t)>>)
     /\ UNCHANGED <<ended, outcome>>
  \/ /\ ~ JoinCondition(a)
     /\ a \in Throws
     /\ ended' = DOMAIN parent
     /\ outcome' = "faulted"
     /\ Then(<<>>)

(* Activity.enter *)
Enter ==
  /\ Calling({"enter"})
  /\ call.token \notin ended
  /\ node' = [node EXCEPT ![call.token] = call.activity]
  /\ SetTargetsToken(call.activity, call.token)
  /\ \/ /\ ~ AreTargetsDetermined(call.activity)
        /\ Then(<<>>)
        /\ UNCHANGED <<ended, outcome>>
     \/ /\ AreTargetsDetermined(call.activity)
        /\ EvaluateJoinCondition(call.activity, call.token)
  /\ Reach("entered")
  /\ UNCHANGED <<definition, parent, status, waiting>>

(* Some agent has requested execution to cease. *)
Ceased ==
  /\ Calling({"enter", "leave", "end", "skip"})
  /\ call.token \in ended
  /\ Then(<<>>)
  /\ UNCHANGED <<definition, tokens, links, waiting, phase, outcome>>

(* Mutant of StatusDetermined: the target is not notified. *)
StatusUnnoticed ==
  /\ Calling({"determine"})
  /\ status' = [status EXCEPT ![call.link] = IF call.value THEN "true" ELSE "false"]
  /\ Then(<<>>)
  /\ UNCHANGED <<definition, tokens, targetToken, waiting, phase, outcome>>

(* LinkInstance.statusDetermined *)
StatusDetermined ==
  /\ Calling({"determine"})
  /\ status' = [status EXCEPT ![call.link] = IF call.value THEN "true" ELSE "false"]
  /\ Then(IF targetToken[call.link] = None THEN <<>>
          ELSE <<Call("targetDetermined", Target[call.link], targetToken[call.link])>>)
  /\ UNCHANGED <<definition, tokens, targetToken, waiting, phase, outcome>>

(* Activity.setSourcesNegativeStatus *)
SetSourcesNegativeStatus(a) == [i \in DOMAIN Sources[a] |-> Determine(Sources[a][i], FALSE)]

(* Mutant of TargetDetermined: where the token is does not matter. *)
TargetDeterminedAnywhere ==
  /\ Calling({"targetDetermined"})
  /\ \/ /\ ~ AreTargetsDetermined(call.activity)
        /\ Then(<<>>)
        /\ UNCHANGED <<ended, outcome>>
     \/ /\ AreTargetsDetermined(call.activity)
        /\ EvaluateJoinCondition(call.activity, call.token)
  /\ UNCHANGED <<definition, parent, node, links, waiting, phase>>

(* Activity.targetDetermined: a token that is elsewhere has left the path  *)
(* of the activity.  The links that leave a structure belong to its End.   *)
TargetDetermined ==
  /\ Calling({"targetDetermined"})
  /\ \/ /\ ~ AreTargetsDetermined(call.activity)
        /\ Then(<<>>)
        /\ UNCHANGED <<ended, outcome>>
     \/ /\ AreTargetsDetermined(call.activity)
        /\ node[call.token] # call.activity
        /\ Then(IF call.activity \in Basic THEN SetSourcesNegativeStatus(call.activity) ELSE <<>>)
        /\ UNCHANGED <<ended, outcome>>
     \/ /\ AreTargetsDetermined(call.activity)
        /\ node[call.token] = call.activity
        /\ EvaluateJoinCondition(call.activity, call.token)
  /\ UNCHANGED <<definition, parent, node, links, waiting, phase>>

-----------------------------------------------------------------------------
(* Execution. *)

(* A basic activity completes at once or waits for a message; the latter   *)
(* is also what a pick does.                                               *)
ExecuteBasic ==
  /\ Calling({"execute"})
  /\ call.activity \in Basic
  /\ Reach("started")
  /\ IF call.activity \in receives
     THEN Then(<<>>) /\ waiting' = waiting \cup {call}
     ELSE Then(<<Call("leave", call.activity, call.token)>>) /\ UNCHANGED waiting
  /\ UNCHANGED <<definition, tokens, links, outcome>>

ExecutePick ==
  /\ Calling({"execute"})
  /\ Kind[call.activity] = "pick"
  /\ Reach("started")
  /\ waiting' = waiting \cup {call}
  /\ Then(<<>>)
  /\ UNCHANGED <<definition, tokens, links, outcome>>

ExecuteSequence ==
  /\ Calling({"execute"})
  /\ Kind[call.activity] = "sequence"
  /\ Reach("started")
  /\ Then(<<Call("enter", Head(Children[call.activity]), call.token)>>)
  /\ UNCHANGED <<definition, tokens, links, waiting, outcome>>

(* If.execute, Pick.performActivity: the branches that are not taken are   *)
(* eliminated first.  An if without a branch to take goes to its End.      *)
TakeBranch(a, t) ==
  LET taken == CHOOSE i \in DOMAIN Children[a] : Children[a][i] = choice[a]
      other == IF choice[a] = None THEN Children[a] ELSE RemoveAt(Children[a], taken)
  IN  [i \in DOMAIN other |-> Call("eliminate", other[i], t)] \o
      IF choice[a] = None THEN <<Call("end", a, t)>> ELSE <<Call("enter", choice[a], t)>>

ExecuteIf ==
  /\ Calling({"execute"})
  /\ Kind[call.activity] = "if"
  /\ Reach("started")
  /\ Then(TakeBranch(call.activity, call.token))
  /\ UNCHANGED <<definition, tokens, links, waiting, outcome>>

ExecuteFlow ==
  LET f == call.activity
  IN  /\ Calling({"execute"})
      /\ Kind[f] = "flow"
      /\ Reach("started")
      /\ Create({<<"branch", b>> : b \in ToSet(Children[f])}, LinksToken(f, call.token), f, call.token)
      /\ Then(<<Branch(f, 1)>>)
      /\ UNCHANGED <<definition, ended, targetToken, waiting, outcome>>

(* The loop of Flow.execute over its branches. *)
ExecuteBranch ==
  /\ Calling({"branch"})
  /\ LET b == Children[call.activity][call.index]
         more == IF call.index = Len(Children[call.activity]) THEN <<>>
                 ELSE <<Branch(call.activity, call.index + 1)>>
     IN  Then(IF call.index > 1 /\ parent[<<"branch", b>>] \in ended THEN <<>>
              ELSE <<Call("enter", b, <<"branch", b>>)>> \o more)
  /\ UNCHANGED <<definition, tokens, links, waiting, phase, outcome>>

(* A partner sends the message that an activity waits for. *)
MessageReceived ==
  /\ calls = <<>>
  /\ \E c \in waiting :
       /\ waiting' = waiting \ {c}
       /\ calls' = IF c.activity \in Basic THEN <<Call("leave", c.activity, c.token)>>
                   ELSE TakeBranch(c.activity, c.token)
  /\ UNCHANGED <<definition, tokens, links, phase, outcome>>

-----------------------------------------------------------------------------
(* Completion. *)

(* Activity.leave, of a basic activity or of the End of a structure. *)
Leave ==
  /\ Calling({"leave"})
  /\ call.token \notin ended
  /\ Then([i \in DOMAIN Sources[call.activity] |->
             Determine(Sources[call.activity][i], holds[Sources[call.activity][i]])] \o
          <<Call("proceed", call.activity, call.token)>>)
  /\ Reach("left")
  /\ UNCHANGED <<definition, tokens, links, waiting, outcome>>

(* The default transition leads to the next activity of a sequence and     *)
(* otherwise to the End of the structure.                                  *)
Successor(a, t) ==
  LET s == Structure(a)
      i == CHOOSE j \in DOMAIN Children[s] : Children[s][j] = a
  IN  IF Kind[s] = "sequence" /\ i < Len(Children[s])
      THEN Call("enter", Children[s][i + 1], t)
      ELSE Call("end", s, t)

(* Activity.proceed: the outermost activity completes the scope. *)
Proceed ==
  /\ Calling({"proceed"})
  /\ node' = [node EXCEPT ![call.token] = None]
  /\ IF call.activity = Root THEN outcome' = "completed" /\ Then(<<>>)
     ELSE Then(<<Successor(call.activity, call.token)>>) /\ UNCHANGED outcome
  /\ UNCHANGED <<definition, parent, ended, links, waiting, phase>>

(* The End of a structure other than a flow. *)
EndStructure ==
  /\ Calling({"end"})
  /\ call.token \notin ended
  /\ Kind[call.activity] # "flow"
  /\ node' = [node EXCEPT ![call.token] = None]
  /\ Then(<<Call("leave", call.activity, call.token)>>)
  /\ UNCHANGED <<definition, parent, ended, links, waiting, phase, outcome>>

(* Mutant of EndBranch: the first branch that ends leaves the flow. *)
EndFirstBranch ==
  LET up == parent[call.token]
      last == TRUE
      hasLinks == Links[call.activity] # {}
  IN  /\ Calling({"end"})
      /\ call.token \notin ended
      /\ Kind[call.activity] = "flow"
      /\ node' = [node EXCEPT ![call.token] = None]
      /\ ended' = ended \cup EndedWith(call.token) \cup IF last /\ hasLinks THEN EndedWith(up) ELSE {}
      /\ Then(IF last THEN <<Call("leave", call.activity, IF hasLinks THEN parent[up] ELSE up)>>
              ELSE <<>>)
      /\ UNCHANGED <<definition, parent, links, waiting, phase, outcome>>

(* Mutant of EndBranch: there is always a token of the links. *)
EndBranchOfLinks ==
  LET up == parent[call.token]
      siblings == ChildrenOf(up) \ {call.token}
      last == siblings \subseteq ended
      hasLinks == TRUE
  IN  /\ Calling({"end"})
      /\ call.token \notin ended
      /\ Kind[call.activity] = "flow"
      /\ node' = [node EXCEPT ![call.token] = None]
      /\ ended' = ended \cup EndedWith(call.token) \cup IF last /\ hasLinks THEN EndedWith(up) ELSE {}
      /\ Then(IF last THEN <<Call("leave", call.activity, IF hasLinks THEN parent[up] ELSE up)>>
              ELSE <<>>)
      /\ UNCHANGED <<definition, parent, links, waiting, phase, outcome>>

(* Flow.leave: the last of the children of the parent token ends the token *)
(* of the links and continues on the parent of the flow.                   *)
EndBranch ==
  LET up == parent[call.token]
      siblings == ChildrenOf(up) \ {call.token}
      last == siblings \subseteq ended
      hasLinks == Links[call.activity] # {}
  IN  /\ Calling({"end"})
      /\ call.token \notin ended
      /\ Kind[call.activity] = "flow"
      /\ node' = [node EXCEPT ![call.token] = None]
      /\ ended' = ended \cup EndedWith(call.token) \cup IF last /\ hasLinks THEN EndedWith(up) ELSE {}
      /\ Then(IF last THEN <<Call("leave", call.activity, IF hasLinks THEN parent[up] ELSE up)>>
              ELSE <<>>)
      /\ UNCHANGED <<definition, parent, links, waiting, phase, outcome>>

-----------------------------------------------------------------------------
(* Dead path elimination. *)

(* Mutant of Skip: the activity is left as if it had been executed. *)
SkipAndLeave ==
  /\ Calling({"skip"})
  /\ call.token \notin ended
  /\ Then(<<Call("eliminate", call.activity, call.token), Call("leave", call.activity, call.token)>>)
  /\ Reach("skipped")
  /\ UNCHANGED <<definition, tokens, links, waiting, outcome>>

(* Activity.skip *)
Skip ==
  /\ Calling({"skip"})
  /\ call.token \notin ended
  /\ Then(<<Call("eliminate", call.activity, call.token), Call("proceed", call.activity, call.token)>>)
  /\ Reach("skipped")
  /\ UNCHANGED <<definition, tokens, links, waiting, outcome>>

(* Mutant of EliminateBasic: the links that lead to it are not awaited. *)
EliminateEarly ==
  /\ Calling({"eliminate"})
  /\ call.activity \in Basic
  /\ SetTargetsToken(call.activity, call.token)
  /\ Then(SetSourcesNegativeStatus(call.activity))
  /\ Reach("dead")
  /\ UNCHANGED <<definition, tokens, status, waiting, outcome>>

(* Activity.eliminatePath *)
EliminateBasic ==
  /\ Calling({"eliminate"})
  /\ call.activity \in Basic
  /\ SetTargetsToken(call.activity, call.token)
  /\ Then(IF AreTargetsDetermined(call.activity) THEN SetSourcesNegativeStatus(call.activity) ELSE <<>>)
  /\ Reach("dead")
  /\ UNCHANGED <<definition, tokens, status, waiting, outcome>>

(* StructuredActivity.eliminatePath and, for a flow, Flow.eliminatePath,   *)
(* which creates the link instances first.                                 *)
EliminateStructure ==
  /\ Calling({"eliminate"})
  /\ call.activity \notin Basic
  /\ Create({}, None, call.activity, call.token)
  /\ Then([i \in DOMAIN Children[call.activity] |->
             Call("eliminate", Children[call.activity][i], LinksToken(call.activity, call.token))] \o
          SetSourcesNegativeStatus(call.activity))
  /\ Reach("dead")
  /\ UNCHANGED <<definition, ended, targetToken, waiting, outcome>>

-----------------------------------------------------------------------------
Perform ==
  \/ Enter \/ Ceased \/ StatusDetermined \/ TargetDetermined
  \/ ExecuteBasic \/ ExecutePick \/ ExecuteSequence \/ ExecuteIf \/ ExecuteFlow \/ ExecuteBranch
  \/ Leave \/ Proceed \/ EndStructure \/ EndBranch
  \/ Skip \/ EliminateBasic \/ EliminateStructure

Next == Perform \/ MessageReceived

(* Methods return, and every message that is waited for arrives. *)
Spec == Init /\ [][Next]_vars /\ WF_vars(Next)

-----------------------------------------------------------------------------
(* Properties *)

started == {a \in Activity : phase[a] \in {"started", "left"}}

(* What the definition of the flow calls for, independently of the order   *)
(* in which activities complete: the activities that are performed.        *)
Performed[a \in Activity] ==
  LET positive(l) == holds[l] /\ Performed[Source(l)]
  IN  /\ \/ a = Root
         \/ /\ Performed[Structure(a)]
            /\ Structure(a) \in Choice => choice[Structure(a)] = a
      /\ \/ Targets(a) = {}
         \/ a \in AllOf /\ \A l \in Targets(a) : positive(l)
         \/ a \notin AllOf /\ \E l \in Targets(a) : positive(l)

(* In whatever order messages arrive and links run their targets, only     *)
(* activities that the definition calls for are executed, and every link   *)
(* gets the status that it calls for, also when its source is skipped,     *)
(* eliminated with a structure, or eliminated before its own links were    *)
(* determined (Activity.enter, skip, eliminatePath, targetDetermined).     *)
LinksFollowDefinition ==
  /\ \A a \in started : Performed[a]
  /\ \A l \in Link : /\ status[l] = "true" => holds[l] /\ Performed[Source(l)]
                     /\ status[l] = "false" => ~ (holds[l] /\ Performed[Source(l)])

(* A link is determined once and an activity is executed once, and the     *)
(* instances of links exist when they are used, whatever the nesting of    *)
(* notifications, dead paths and flows (LinkInstance.statusDetermined,     *)
(* Activity.targetDetermined, Flow.initializeLinks).                       *)
OncePerFlow ==
  /\ Calling({"determine"}) => status[call.link] = "unset"
  /\ Calling({"execute"}) => call.activity \notin started
  /\ Calling({"enter", "eliminate", "targetDetermined"}) =>
       \A l \in Targets(call.activity) : status[l] # "absent"

(* The links that leave an activity are determined after the links that    *)
(* lead to it, whatever is waited for, skipped or eliminated, except for a *)
(* structure that is eliminated (Activity.enter, eliminatePath,            *)
(* targetDetermined).                                                      *)
ControlDependencies ==
  \A l, k \in Link :
    /\ Target[k] = Source(l)
    /\ Source(l) \in Basic \cup started
    /\ status[l] \in {"true", "false"}
    => status[k] \in {"true", "false"}

(* No links lead around in a circle, which WS-BPEL forbids and the readers *)
(* of the process definition do not check.                                 *)
Acyclic == \A S \in SUBSET Link : S # {} => \E l \in S : \A k \in S : Target[k] # Source(l)

(* A scope that completes leaves nothing behind: every link of the flow is *)
(* determined and everything that is called for has been executed          *)
(* (Flow.mustReactivateParent, Activity.proceed).                          *)
CompletionIsFinal ==
  outcome = "completed" =>
    /\ \A l \in Links[Root] : status[l] \in {"true", "false"}
    /\ {a \in Activity : Performed[a]} = started
    /\ waiting = {}

(* The flow completes, or a join failure ends it: no activity waits for a  *)
(* link that nobody will determine, and no flow for a token that nobody    *)
(* will end (Flow.leave: if a token was created to contain link instances, *)
(* end it).                                                                *)
FlowCompletes == <>(outcome # "running")
=============================================================================
