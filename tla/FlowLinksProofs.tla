-------------------------- MODULE FlowLinksProofs --------------------------
(***************************************************************************)
(* Theorems about FlowLinks for every process definition: types, the order *)
(* in which links are determined, that everything happens once, that it is *)
(* what the definition calls for and that nothing is left at completion.   *)
(***************************************************************************)
EXTENDS FlowLinks, TLAPS

-----------------------------------------------------------------------------
(* The tree of activities. *)

Flows == {a \in Activity : Kind[a] = "flow"}
ChildSet(s) == ToSet(Children[s])

(* The activities that one token executes are those of a branch that no    *)
(* inner flow gives to tokens of its own.                                  *)
IsBranch(a) == a = Root \/ Structure(a) \in Flows
Climbs(S) == \A a \in S : ~ IsBranch(a) => Structure(a) \in S
Thread(b) == {a \in Activity : \A S \in SUBSET Activity : a \in S /\ Climbs(S) => b \in S}
BranchOf == [a \in Activity |-> CHOOSE b \in Activity : IsBranch(b) /\ a \in Thread(b)]
TokenOf(a) == <<"branch", BranchOf[a]>>

(* The assumptions in the form in which the proofs use them. *)
LEMMA Shapes ==
  /\ Root \in Activity /\ Kind[Root] = "flow" /\ Root \notin Basic
  /\ None \notin Activity /\ None \notin Link /\ None \notin Token
  /\ \A a \in Activity : Kind[a] \in {"basic", "sequence", "flow", "if", "pick"}
  /\ \A a \in Activity : Children[a] \in Seq(Activity) /\ ChildSet(a) \subseteq Activity
  /\ \A a \in Activity : a \notin Basic => Len(Children[a]) > 0
  /\ \A a \in Basic : \A x : x \notin ChildSet(a)
  /\ \A a \in Activity : Links[a] \in SUBSET Link /\ Sources[a] \in Seq(Link)
  /\ \A a \in Activity : Links[a] # {} => Kind[a] = "flow"
  /\ Receives \subseteq Basic
<1>1. /\ Root \in Activity /\ Kind[Root] = "flow" /\ Root \notin Basic
      /\ None \notin Activity /\ None \notin Link /\ None \notin Token
      /\ \A a \in Activity : Kind[a] \in {"basic", "sequence", "flow", "if", "pick"}
      /\ Receives \subseteq Basic
  BY FlowAssumption DEF Basic
<1>2. /\ \A a \in Activity : Links[a] \in SUBSET Link /\ Sources[a] \in Seq(Link)
      /\ \A a \in Activity : Links[a] # {} => Kind[a] = "flow"
  BY FlowAssumption
<1>3. \A a \in Activity : Children[a] \in Seq(Activity)
  BY FlowAssumption
<1>4. \A a \in Activity : ChildSet(a) \subseteq Activity
  BY <1>3 DEF ChildSet, ToSet
<1>5. \A a \in Activity : a \notin Basic => Len(Children[a]) > 0
  BY <1>3, FlowAssumption
<1>6. ASSUME NEW a \in Basic, NEW x \in ChildSet(a) PROVE FALSE
  <2>1. Children[a] = <<>>
    BY FlowAssumption DEF Basic
  <2>2. Len(Children[a]) = 0 /\ DOMAIN Children[a] = 1 .. Len(Children[a])
    BY <2>1, <1>3 DEF Basic
  <2>3. DOMAIN Children[a] = {}
    BY <2>2
  <2> QED BY <2>3 DEF ChildSet, ToSet
<1> QED BY <1>1, <1>2, <1>3, <1>4, <1>5, <1>6

LEMMA StructureOfChild ==
  ASSUME NEW s \in Activity, NEW a \in ChildSet(s)
  PROVE  a \in Activity /\ a # Root /\ Structure(a) = s /\ s \notin Basic
<1>1. PICK i \in DOMAIN Children[s] : a = Children[s][i]
  BY DEF ChildSet, ToSet
<1>2. a \in Activity /\ a # Root /\ s \notin Basic
  <2>1. a \in Activity /\ s \notin Basic
    BY Shapes
  <2>2. a # Root
    BY TreeAssumption DEF ChildSet
  <2> QED BY <2>1, <2>2
<1>3. \A r \in Activity : a \in ToSet(Children[r]) => r = s
  BY <1>1, TreeAssumption DEF ToSet
<1>4. Structure(a) = s
  BY <1>3 DEF Structure, ChildSet
<1> QED BY <1>2, <1>4

LEMMA StructureOf ==
  ASSUME NEW a \in Activity, a # Root
  PROVE  Structure(a) \in Activity /\ a \in ChildSet(Structure(a)) /\ Structure(a) \notin Basic
<1>1. PICK s \in Activity : a \in ToSet(Children[s])
  BY TreeAssumption
<1>2. Structure(a) = s /\ s \notin Basic
  BY <1>1, StructureOfChild DEF ChildSet
<1> QED BY <1>1, <1>2 DEF ChildSet

(* Every thread has one branch, which for the activities of a structure    *)
(* other than a flow is that of the structure.                             *)
LEMMA ThreadClimbs ==
  ASSUME NEW a \in Activity, ~ IsBranch(a), NEW b \in Activity, IsBranch(b)
  PROVE  a \in Thread(b) <=> Structure(a) \in Thread(b)
<1>1. a # Root /\ Structure(a) \in Activity
  BY StructureOf DEF IsBranch
<1>2. ASSUME a \in Thread(b) PROVE Structure(a) \in Thread(b)
  <2> SUFFICES ASSUME NEW S \in SUBSET Activity, Structure(a) \in S, Climbs(S) PROVE b \in S
    BY <1>1 DEF Thread
  <2>1. Climbs(S \cup {a}) /\ a \in S \cup {a} /\ S \cup {a} \in SUBSET Activity
    BY DEF Climbs
  <2>2. b \in S \cup {a}
    BY <2>1, <1>2 DEF Thread
  <2> QED BY <2>2
<1>3. ASSUME Structure(a) \in Thread(b) PROVE a \in Thread(b)
  BY <1>3 DEF Thread, Climbs
<1> QED BY <1>2, <1>3

LEMMA ThreadOfBranch ==
  ASSUME NEW a \in Activity, IsBranch(a), NEW b \in Activity
  PROVE  a \in Thread(b) <=> a = b
<1>1. Climbs({a}) /\ {a} \in SUBSET Activity
  BY DEF Climbs
<1> QED BY <1>1 DEF Thread

LEMMA EveryThreadHasABranch ==
  ASSUME NEW a \in Activity
  PROVE  \E b \in Activity : IsBranch(b) /\ a \in Thread(b)
<1> DEFINE S == {x \in Activity : \A b \in Activity : IsBranch(b) => x \notin Thread(b)}
<1> SUFFICES ASSUME a \in S PROVE FALSE
  OBVIOUS
<1>1. \A x \in S : ~ IsBranch(x)
  BY ThreadOfBranch
<1>2. Upwards(S)
  BY <1>1, ThreadClimbs, StructureOf DEF Upwards
<1>3. Root \in S
  <2> HIDE DEF S
  <2>1. S \in SUBSET Activity
    BY DEF S
  <2> QED BY <1>2, <2>1, TreeAssumption
<1> QED BY <1>1, <1>3 DEF IsBranch

LEMMA OneBranch ==
  ASSUME NEW a \in Activity, NEW b \in Activity, NEW c \in Activity,
         IsBranch(b), IsBranch(c), a \in Thread(b), a \in Thread(c)
  PROVE  b = c
<1> DEFINE S == {x \in Activity : x \in Thread(b) /\ x \in Thread(c)}
<1> SUFFICES ASSUME b # c PROVE FALSE
  OBVIOUS
<1>1. \A x \in S : ~ IsBranch(x)
  BY ThreadOfBranch
<1>2. Upwards(S)
  BY <1>1, ThreadClimbs, StructureOf DEF Upwards
<1>3. Root \in S
  <2>0. a \in S
    OBVIOUS
  <2> HIDE DEF S
  <2>1. S \in SUBSET Activity
    BY DEF S
  <2> QED BY <1>2, <2>0, <2>1, TreeAssumption
<1> QED BY <1>1, <1>3 DEF IsBranch

LEMMA BranchOfActivity ==
  ASSUME NEW a \in Activity
  PROVE  /\ BranchOf[a] \in Activity /\ IsBranch(BranchOf[a])
         /\ IsBranch(a) => BranchOf[a] = a
         /\ ~ IsBranch(a) => BranchOf[a] = BranchOf[Structure(a)]
         /\ TokenOf(a) \in Token
<1>1. /\ BranchOf[a] \in Activity /\ IsBranch(BranchOf[a]) /\ a \in Thread(BranchOf[a])
  BY EveryThreadHasABranch DEF BranchOf
<1>2. IsBranch(a) => BranchOf[a] = a
  BY <1>1, ThreadOfBranch
<1>3. ASSUME ~ IsBranch(a) PROVE BranchOf[a] = BranchOf[Structure(a)]
  <2>1. Structure(a) \in Activity /\ Structure(a) \in Thread(BranchOf[a])
    BY <1>1, <1>3, ThreadClimbs, StructureOf DEF IsBranch
  <2>2. /\ BranchOf[Structure(a)] \in Activity /\ IsBranch(BranchOf[Structure(a)])
        /\ Structure(a) \in Thread(BranchOf[Structure(a)])
    BY <2>1, EveryThreadHasABranch DEF BranchOf
  <2> QED BY <1>1, <2>1, <2>2, OneBranch
<1> QED BY <1>1, <1>2, <1>3 DEF TokenOf, Token

(* Whatever is inherited from the structure and true of the activity is    *)
(* true of the branch.                                                     *)
LEMMA UpToBranch ==
  ASSUME NEW S \in SUBSET Activity, \A x \in S \ {Root} : Structure(x) \in S, NEW a \in S
  PROVE  BranchOf[a] \in S
<1> DEFINE T == {x \in S : BranchOf[x] \notin S}
<1> SUFFICES ASSUME a \in T PROVE FALSE
  OBVIOUS
<1>1. \A x \in T : ~ IsBranch(x)
  BY BranchOfActivity
<1>2. Upwards(T)
  BY <1>1, BranchOfActivity, StructureOf DEF Upwards
<1>3. Root \in T
  <2> HIDE DEF T
  <2>1. T \in SUBSET Activity
    BY DEF T
  <2> QED BY <1>2, <2>1, TreeAssumption
<1> QED BY <1>1, <1>3 DEF IsBranch

LEMMA BranchOfChild ==
  ASSUME NEW s \in Activity, NEW a \in ChildSet(s)
  PROVE  /\ s \in Flows => IsBranch(a) /\ BranchOf[a] = a /\ TokenOf(a) = <<"branch", a>>
         /\ s \notin Flows => ~ IsBranch(a) /\ BranchOf[a] = BranchOf[s] /\ TokenOf(a) = TokenOf(s)
<1>1. a \in Activity /\ a # Root /\ Structure(a) = s
  BY StructureOfChild
<1> QED BY <1>1, BranchOfActivity DEF IsBranch, TokenOf

(* The links. *)
LEMMA SourceOf ==
  /\ \A l \in Link : Source(l) \in Activity /\ l \in ToSet(Sources[Source(l)])
  /\ \A a \in Activity : \A l \in ToSet(Sources[a]) : l \in Link /\ Source(l) = a
<1>1. \A l \in Link : Source(l) \in Activity /\ l \in ToSet(Sources[Source(l)])
  BY LinkAssumption DEF Source
<1>2. ASSUME NEW a \in Activity, NEW l \in ToSet(Sources[a]) PROVE l \in Link /\ Source(l) = a
  <2>1. PICK i \in DOMAIN Sources[a] : l = Sources[a][i]
    BY DEF ToSet
  <2>2. l \in Link
    BY <2>1, Shapes
  <2>3. PICK j \in DOMAIN Sources[Source(l)] : l = Sources[Source(l)][j]
    BY <2>2, <1>1 DEF ToSet
  <2>4. Source(l) \in Activity
    BY <2>2, <1>1
  <2> QED BY <2>1, <2>2, <2>3, <2>4, LinkAssumption
<1> QED BY <1>1, <1>2

LEMMA FlowOfLink ==
  ASSUME NEW l \in Link
  PROVE  \E f \in Activity : /\ f \in Flows /\ l \in Links[f]
                              /\ Source(l) \in Within(f) /\ Target[l] \in Within(f)
                              /\ \A g \in Activity : l \in Links[g] => g = f
BY LinkAssumption, Shapes DEF Flows

LEMMA TargetOf == \A l \in Link : Target[l] \in Activity
BY FlowOfLink DEF Within

(* Whatever is inherited from the structure holds of all around. *)
LEMMA UpToWithin ==
  ASSUME NEW S \in SUBSET Activity, \A x \in S \ {Root} : Structure(x) \in S,
         NEW f \in Activity, NEW a \in Within(f), a \in S
  PROVE  f \in S
BY DEF Within, Upwards

-----------------------------------------------------------------------------
(* The pending calls as sets of activities and links. *)

CallRecord == ActivityCall \cup BranchCall \cup LinkCall
ThreadOps == {"enter", "execute", "skip", "leave", "proceed"}

pending == ToSet(calls)
Doing(op) == {a \in Activity : \E c \in pending : c.op = op /\ c.activity = a}

Entering == Doing("enter")
Executing == Doing("execute")
Skipping == Doing("skip")
Leaving == Doing("leave")
Proceeding == Doing("proceed")
Eliminating == Doing("eliminate")

(* Structures other than flows whose End is reached, and the branches      *)
(* that reach the End of their flow.                                       *)
Finishing == Doing("end") \ Flows
Ending == {b \in Activity : \E c \in pending : c.op = "end" /\ c.activity \in Flows
                                               /\ c.token = <<"branch", b>>}
Notices == {c \in pending : c.op = "targetDetermined"}
Looping == {c \in pending : c.op = "branch"}
Determining == {l \in Link : \E c \in pending : c.op = "determine" /\ c.link = l}
Waiting == {a \in Activity : \E c \in waiting : c.activity = a}

Touched == {a \in Activity : phase[a] # "idle" \/ a \in Entering \/ a \in Eliminating}
Opened == {a \in Activity : phase[a] \in {"started", "left", "dead"}}
Settled == {a \in Activity : phase[a] \in {"left", "dead"} /\ a \notin Proceeding /\ a \notin Ending}
Active == {a \in Activity : \/ phase[a] \in {"entered", "started", "skipped"}
                            \/ a \in Entering \/ a \in Proceeding \/ a \in Ending}

(* The activities that have control of the token of their thread. *)
Holders == {a \in Activity : \/ phase[a] \in {"entered", "skipped"}
                             \/ a \in Flows /\ phase[a] = "started"
                             \/ a \in Waiting \/ a \in Entering \/ a \in Leaving
                             \/ a \in Proceeding \/ a \in Finishing \/ a \in Ending}

(* The activities with links still to come, or about to hear of the last.  *)
Awaiting == {a \in Activity : \/ \E l \in Targets(a) : status[l] = "unset"
                              \/ \E c \in Notices : c.activity = a}

-----------------------------------------------------------------------------
(* The inductive invariant, in parts. *)

StackInv ==
  /\ \A i, j \in DOMAIN calls : calls[i] = calls[j] => i = j
  /\ \A i \in DOMAIN calls : calls[i].op = "targetDetermined" => i = 1
  /\ \A i, j \in DOMAIN calls :
       calls[i].op = "proceed" /\ calls[j].op = "eliminate" /\ calls[i].activity = calls[j].activity => j < i

CallsInv ==
  \A c \in pending :
    /\ c.op \in ThreadOps => c.token = TokenOf(c.activity)
    /\ c.op = "end" => /\ c.activity \notin Basic
                       /\ c.activity \notin Flows => c.token = TokenOf(c.activity)
                       /\ c.activity \in Flows => \E b \in ChildSet(c.activity) : c.token = <<"branch", b>>
    /\ c.op \notin {"determine", "branch"} => c.token \in DOMAIN parent
    /\ c.op = "branch" => c.activity \in Flows /\ c.index \in DOMAIN Children[c.activity]

WaitsInv == \A c \in waiting : c.token = TokenOf(c.activity) /\ c.token \in DOMAIN parent

TokensInv ==
  /\ Main \in DOMAIN parent
  /\ \A b \in Activity : <<"branch", b>> \in DOMAIN parent => IsBranch(b)
  /\ \A b \in Activity \ {Root} : <<"branch", b>> \in DOMAIN parent =>
       /\ phase[Structure(b)] \in {"started", "left"}
       /\ parent[<<"branch", b>>] = LinksToken(Structure(b), TokenOf(Structure(b)))
       /\ Links[Structure(b)] # {} => parent[<<"links", Structure(b)>>] = TokenOf(Structure(b))
  /\ \A f \in Flows : phase[f] \in {"started", "left"} =>
       \A b \in ChildSet(f) : <<"branch", b>> \in DOMAIN parent
  /\ \A f \in Activity : <<"links", f>> \in DOMAIN parent => f \in Opened

UniqueInv ==
  /\ \A c, d \in pending : c.op = "eliminate" /\ d.op = "eliminate" /\ c.activity = d.activity => c = d
  /\ \A c, d \in pending : c.op = "determine" /\ d.op = "determine" /\ c.link = d.link => c = d
  /\ \A c, d \in Looping : c.activity = d.activity => c = d
  /\ \A a \in Activity : ~ (a \in Entering /\ a \in Eliminating)
  /\ \A a \in Activity : ~ (a \in Executing /\ a \in Skipping)
  /\ \A a \in Activity : ~ (a \in Finishing /\ a \in Leaving)

PhaseInv ==
  /\ \A a \in Entering : phase[a] = "idle"
  /\ \A a \in Executing : phase[a] = "entered"
  /\ \A a \in Skipping : phase[a] = "entered"
  /\ \A a \in Leaving : phase[a] = "started"
  /\ \A a \in Finishing : phase[a] = "started"
  /\ \A a \in Proceeding : phase[a] \in {"left", "skipped", "dead"}
  /\ \A a \in Ending : phase[a] \in {"left", "dead"} /\ a \notin Proceeding
  /\ \A a \in Eliminating : phase[a] \in {"idle", "skipped"}
  /\ \A a \in Activity : phase[a] = "skipped" => a \in Proceeding /\ a \in Eliminating
  /\ \A a \in Waiting : phase[a] = "started" /\ a \notin Leaving /\ a \notin Finishing

TouchInv ==
  \A a \in Touched : a # Root => Structure(a) \in Opened /\ Structure(a) \notin Waiting

ActiveInv ==
  \A a \in Active : a # Root =>
    /\ phase[Structure(a)] = "started"
    /\ Structure(a) \notin Leaving /\ Structure(a) \notin Finishing
    /\ Structure(a) \in Choice => choice[Structure(a)] = a

EndedInv ==
  \A f \in Flows : phase[f] \in {"started", "left"} =>
    \A b, d \in ChildSet(f) :
      b \notin Settled /\ <<"branch", b>> \in ended => <<"branch", d>> \in ended

LeftInv ==
  \A f \in Flows : (phase[f] = "left" \/ f \in Leaving) => \A b \in ChildSet(f) : b \in Settled

SequenceInv ==
  \A s \in Activity : Kind[s] = "sequence" /\ phase[s] \in {"started", "left"} =>
    \A i, j \in DOMAIN Children[s] :
      i < j /\ Children[s][j] \in Touched => Children[s][i] \in Settled

BranchInv ==
  \A c \in Looping :
    /\ phase[c.activity] = "started"
    /\ \A j \in DOMAIN Children[c.activity] :
         j >= c.index => Children[c.activity][j] \notin Touched

HoldInv == \A a, b \in Holders : BranchOf[a] = BranchOf[b] => a = b

NodeInv ==
  /\ \A a \in Activity : phase[a] = "entered" => TokenOf(a) \in DOMAIN parent /\ node[TokenOf(a)] = a
  /\ \A t \in DOMAIN parent : node[t] # None => phase[node[t]] # "idle"
  /\ \A t \in DOMAIN parent : node[t] \in Basic /\ phase[node[t]] = "dead" => node[t] \notin Awaiting

TargetInv ==
  \A l \in Link :
    /\ phase[Target[l]] = "entered" => targetToken[l] = TokenOf(Target[l])
    /\ phase[Target[l]] = "idle" => targetToken[l] = None
    /\ phase[Target[l]] = "dead" /\ Target[l] \in Basic => targetToken[l] # None
    /\ status[l] = "unset" =>
         \/ phase[Target[l]] = "idle"
         \/ phase[Target[l]] = "entered" /\ Target[l] \notin Executing /\ Target[l] \notin Skipping
         \/ phase[Target[l]] = "dead" /\ (Target[l] \notin Basic => targetToken[l] = None)

NoticeInv ==
  \A c \in Notices :
    \/ /\ phase[c.activity] = "entered" /\ c.token = TokenOf(c.activity)
       /\ c.activity \notin Executing /\ c.activity \notin Skipping
    \/ phase[c.activity] = "dead" /\ c.activity \in Basic

LinkInv ==
  \A l \in Link :
    /\ status[l] \in {"true", "false"} \/ l \in Determining =>
         /\ phase[Source(l)] \in {"left", "dead"}
         /\ Source(l) \in Basic \/ phase[Source(l)] = "left" => Source(l) \notin Awaiting
    /\ l \in Determining => status[l] = "unset"
    /\ \A f \in Activity : l \in Links[f] => (status[l] = "absent" <=> f \notin Opened)

(* What the definition says of an activity that its structure executes. *)
Eligible(a) ==
  a = Root \/ (Performed[Structure(a)] /\ (Structure(a) \in Choice => choice[Structure(a)] = a))

MeaningInv ==
  /\ \A a \in Activity : phase[a] \in {"skipped", "dead"} \/ a \in Skipping \/ a \in Eliminating => ~ Performed[a]
  /\ \A a \in Activity : phase[a] \in {"started", "left"} \/ a \in Executing => Performed[a]
  /\ \A a \in Activity : phase[a] = "entered" \/ a \in Entering => Eligible(a)
  /\ \A l \in Link : status[l] = "true" => holds[l] /\ Performed[Source(l)]
  /\ \A l \in Link : status[l] = "false" => ~ (holds[l] /\ Performed[Source(l)])
  /\ \A c \in pending : c.op = "determine" => c.value = (holds[c.link] /\ Performed[Source(c.link)])

ChoiceInv ==
  \A a \in Choice : \/ choice[a] \in ChildSet(a)
                    \/ Kind[a] = "if" /\ choice[a] = None

(* Nothing is forgotten: what an eliminated structure holds, and the       *)
(* branches that are not taken, are eliminated in turn; a structure ends   *)
(* after what it executes; and an activity that is left, or eliminated     *)
(* with its incoming links known, determines its outgoing links.           *)
DeadInv ==
  \A a \in Activity \ {Root} : phase[Structure(a)] = "dead" => phase[a] = "dead" \/ a \in Eliminating

TakenInv ==
  \A a \in Activity \ {Root} :
    /\ Structure(a) \in Choice /\ Structure(a) \notin Waiting
    /\ phase[Structure(a)] \in {"started", "left"} /\ choice[Structure(a)] # a
    => phase[a] = "dead" \/ a \in Eliminating

DoneInv ==
  \A a \in Activity \ {Root} :
    /\ phase[Structure(a)] = "left" \/ Structure(a) \in Leaving \/ Structure(a) \in Finishing
    /\ Kind[Structure(a)] = "sequence" \/ (Structure(a) \in Choice /\ choice[Structure(a)] = a)
    => a \in Settled

FiredInv ==
  \A l \in Link :
    \/ phase[Source(l)] = "left"
    \/ phase[Source(l)] = "dead" /\ (Source(l) \notin Basic \/ Source(l) \notin Awaiting)
    => status[l] \in {"true", "false"} \/ l \in Determining

-----------------------------------------------------------------------------
(* The stack of calls as a set: a step takes the call on top and adds the  *)
(* calls that it makes.  An activity that is left is eliminated before.    *)
Ordered(made) ==
  /\ \A i, j \in DOMAIN made :
       made[i].op = "proceed" /\ made[j].op = "eliminate" /\ made[i].activity = made[j].activity => j < i
  /\ \A i \in DOMAIN made : made[i].op = "proceed" =>
       \A c \in pending : c.op = "eliminate" => c.activity # made[i].activity

LEMMA PendingStep ==
  ASSUME calls \in Seq(CallRecord), calls # <<>>, StackInv, NEW made \in Seq(CallRecord),
         \A i, j \in DOMAIN made : made[i] = made[j] => i = j,
         \A i \in DOMAIN made : made[i] \in pending => made[i] = call,
         \A i \in DOMAIN made : made[i].op = "targetDetermined" => i = 1,
         Ordered(made), calls' = made \o Tail(calls)
  PROVE  /\ calls' \in Seq(CallRecord) /\ StackInv'
         /\ call \in pending /\ call \in CallRecord
         /\ \A c : c \in pending' <=> (c \in pending /\ c # call) \/ c \in ToSet(made)
<1> DEFINE n == Len(made)
<1>1. /\ calls' \in Seq(CallRecord) /\ n \in Nat /\ Len(calls) \in Nat /\ Len(calls) >= 1
      /\ DOMAIN calls = 1 .. Len(calls) /\ DOMAIN made = 1 .. n
      /\ Len(calls') = n + Len(calls) - 1 /\ DOMAIN calls' = 1 .. Len(calls')
      /\ call = calls[1] /\ 1 \in DOMAIN calls
  BY DEF call
<1>2. \A i \in DOMAIN calls' : IF i <= n THEN i \in DOMAIN made /\ calls'[i] = made[i]
                              ELSE i - n + 1 \in DOMAIN calls /\ i - n + 1 > 1 /\ calls'[i] = calls[i - n + 1]
  BY <1>1
<1>3. /\ \A i \in DOMAIN made : i \in DOMAIN calls' /\ calls'[i] = made[i]
      /\ \A i \in DOMAIN calls : i # 1 => i + n - 1 \in DOMAIN calls' /\ calls'[i + n - 1] = calls[i]
  BY <1>1
<1> HIDE DEF n
<1>e. \A i \in DOMAIN calls' : i > n => i - n + 1 \in DOMAIN calls /\ calls'[i] = calls[i - n + 1]
  BY <1>1, <1>2
<1>4. \A i \in DOMAIN calls : calls[i] \in pending /\ (i # 1 => calls[i] # call)
  BY <1>1 DEF pending, ToSet, StackInv
<1>5. \A i \in DOMAIN made : i # 1 => made[i].op # "targetDetermined"
  OBVIOUS
<1>6. \A i, j \in DOMAIN calls' : calls'[i] = calls'[j] => i = j
  <2> SUFFICES ASSUME NEW i \in DOMAIN calls', NEW j \in DOMAIN calls', calls'[i] = calls'[j] PROVE i = j
    OBVIOUS
  <2>1. CASE i <= n /\ j <= n
    BY <2>1, <1>1, <1>2
  <2>2. CASE i > n /\ j > n
    <3>1. calls'[i] = calls[i - n + 1] /\ i - n + 1 \in DOMAIN calls
      BY <2>2, <1>e
    <3>2. calls'[j] = calls[j - n + 1] /\ j - n + 1 \in DOMAIN calls
      BY <2>2, <1>e
    <3>3. i - n + 1 = j - n + 1
      BY <3>1, <3>2 DEF StackInv
    <3> QED BY <3>3, <1>1
  <2>3. CASE i <= n /\ j > n
    <3>1. made[i] = calls[j - n + 1] /\ j - n + 1 \in DOMAIN calls /\ j - n + 1 # 1 /\ i \in DOMAIN made
      BY <2>3, <1>1, <1>2
    <3> QED BY <3>1, <1>4
  <2>4. CASE j <= n /\ i > n
    <3>1. made[j] = calls[i - n + 1] /\ i - n + 1 \in DOMAIN calls /\ i - n + 1 # 1 /\ j \in DOMAIN made
      BY <2>4, <1>1, <1>2
    <3> QED BY <3>1, <1>4
  <2> QED BY <2>1, <2>2, <2>3, <2>4, <1>1
<1>7. \A i \in DOMAIN calls' : calls'[i].op = "targetDetermined" => i = 1
  <2> SUFFICES ASSUME NEW i \in DOMAIN calls', calls'[i].op = "targetDetermined" PROVE i = 1
    OBVIOUS
  <2>1. CASE i <= n
    BY <2>1, <1>2
  <2>2. CASE i > n
    BY <2>2, <1>1, <1>2 DEF StackInv
  <2> QED BY <2>1, <2>2, <1>1
<1>8. ASSUME NEW c, c \in pending' PROVE (c \in pending /\ c # call) \/ c \in ToSet(made)
  <2>1. PICK i \in DOMAIN calls' : c = calls'[i]
    BY <1>8 DEF pending, ToSet
  <2>2. CASE i <= n
    BY <2>1, <2>2, <1>2 DEF ToSet
  <2>3. CASE i > n
    BY <2>1, <2>3, <1>1, <1>2, <1>4
  <2> QED BY <2>2, <2>3, <1>1
<1>9. ASSUME NEW c, c \in pending, c # call PROVE c \in pending'
  <2>1. PICK i \in DOMAIN calls : c = calls[i]
    BY <1>9 DEF pending, ToSet
  <2>2. i # 1
    BY <2>1, <1>9, <1>1
  <2> QED BY <2>1, <2>2, <1>3 DEF pending, ToSet
<1>10. ASSUME NEW c, c \in ToSet(made) PROVE c \in pending'
  BY <1>10, <1>3 DEF pending, ToSet
<1>11. call \in pending /\ call \in CallRecord
  <2>1. calls[1] \in CallRecord
    OBVIOUS
  <2> QED BY <2>1, <1>1, <1>4, Zenon
<1>12. ASSUME NEW i \in DOMAIN calls', NEW j \in DOMAIN calls', calls'[i].op = "proceed", calls'[j].op = "eliminate",
              calls'[i].activity = calls'[j].activity
       PROVE  j < i
  <2>1. CASE i <= n /\ j <= n
    BY <1>12, <2>1, <1>1, <1>2 DEF Ordered
  <2>2. CASE i > n /\ j > n
    <3>1. /\ calls'[j] = calls[j - n + 1] /\ j - n + 1 \in DOMAIN calls
          /\ calls'[i] = calls[i - n + 1] /\ i - n + 1 \in DOMAIN calls
      BY <2>2, <1>e
    <3>2. j - n + 1 < i - n + 1
      BY <3>1, <1>12 DEF StackInv
    <3> QED BY <3>2, <1>1
  <2>3. CASE i <= n /\ j > n
    <3>1. calls'[j] = calls[j - n + 1] /\ j - n + 1 \in DOMAIN calls /\ i \in DOMAIN made /\ calls'[i] = made[i]
      BY <2>3, <1>1, <1>2
    <3> QED BY <1>12, <3>1, <1>4 DEF Ordered
  <2>4. CASE j <= n /\ i > n
    BY <2>4, <1>1
  <2> QED BY <2>1, <2>2, <2>3, <2>4, <1>1
<1>13. StackInv'
  BY <1>6, <1>7, <1>12 DEF StackInv
<1> QED BY <1>1, <1>8, <1>9, <1>10, <1>11, <1>13

(* The sets of activities and links after a step that replaces the top call by the calls of M. *)
SetsReplaced(M) ==
  /\ \A op \in ThreadOps \cup {"eliminate"} : \A a \in Activity :
       a \in Doing(op)' <=> \/ a \in Doing(op) /\ ~ (call.op = op /\ call.activity = a)
                            \/ \E m \in M : m.op = op /\ m.activity = a
  /\ \A a \in Activity :
       a \in Finishing' <=> \/ a \in Finishing /\ ~ (call.op = "end" /\ call.activity = a)
                            \/ a \notin Flows /\ \E m \in M : m.op = "end" /\ m.activity = a
  /\ \A b \in Activity :
       b \in Ending' <=>
         \/ b \in Ending /\ ~ (call.op = "end" /\ call.activity \in Flows /\ call.token = <<"branch", b>>)
         \/ \E m \in M : m.op = "end" /\ m.activity \in Flows /\ m.token = <<"branch", b>>
  /\ \A l \in Link :
       l \in Determining' <=> \/ l \in Determining /\ ~ (call.op = "determine" /\ call.link = l)
                              \/ \E m \in M : m.op = "determine" /\ m.link = l
  /\ \A c : c \in Notices' <=> (c \in Notices /\ c # call) \/ (c \in M /\ c.op = "targetDetermined")
  /\ \A c : c \in Looping' <=> (c \in Looping /\ c # call) \/ (c \in M /\ c.op = "branch")

(* The same for the sets of activities and links. *)
LEMMA SetsStep ==
  ASSUME calls \in Seq(CallRecord), CallsInv, UniqueInv, call \in pending, NEW M \in SUBSET CallRecord,
         \A c : c \in pending' <=> (c \in pending /\ c # call) \/ c \in M
  PROVE  SetsReplaced(M)
<1>1. \A c \in pending : c \in CallRecord
  BY DEF pending, ToSet
<1>2. ASSUME NEW c \in pending, NEW d \in pending, c.op = d.op, c.op \in ThreadOps \cup {"eliminate"},
             c.activity = d.activity
      PROVE  c = d
  <2>1. CASE c.op = "eliminate"
    BY <1>2, <2>1 DEF UniqueInv
  <2>2. CASE c.op \in ThreadOps
    <3>1. c.token = d.token
      BY <1>2, <2>2 DEF CallsInv
    <3>2. c \in ActivityCall /\ d \in ActivityCall
      BY <1>1, <1>2, <2>2 DEF CallRecord, ActivityCall, BranchCall, LinkCall, ThreadOps
    <3> QED BY <3>1, <3>2, <1>2 DEF ActivityCall
  <2> QED BY <1>2, <2>1, <2>2
<1>3. ASSUME NEW op \in ThreadOps \cup {"eliminate"}, NEW a \in Activity
      PROVE  a \in Doing(op)' <=> \/ a \in Doing(op) /\ ~ (call.op = op /\ call.activity = a)
                                  \/ \E m \in M : m.op = op /\ m.activity = a
  BY <1>2, <1>3 DEF Doing
<1>4. \A c, d \in pending : c.op = "end" /\ d.op = "end" /\ c.activity = d.activity /\ c.token = d.token => c = d
  <2> SUFFICES ASSUME NEW c \in pending, NEW d \in pending, c.op = "end", d.op = "end",
                      c.activity = d.activity, c.token = d.token
               PROVE  c = d
    OBVIOUS
  <2>1. c \in ActivityCall /\ d \in ActivityCall
    BY <1>1 DEF CallRecord, ActivityCall, BranchCall, LinkCall
  <2> QED BY <2>1 DEF ActivityCall
<1>5. ASSUME NEW a \in Activity
      PROVE  a \in Finishing' <=> \/ a \in Finishing /\ ~ (call.op = "end" /\ call.activity = a)
                                  \/ a \notin Flows /\ \E m \in M : m.op = "end" /\ m.activity = a
  <2>1. \A c, d \in pending : c.op = "end" /\ d.op = "end" /\ c.activity = a /\ d.activity = a /\ a \notin Flows => c = d
    BY <1>4 DEF CallsInv
  <2> QED BY <2>1 DEF Finishing, Doing
<1>6. ASSUME NEW b \in Activity
      PROVE  b \in Ending' <=>
                \/ b \in Ending /\ ~ (call.op = "end" /\ call.activity \in Flows /\ call.token = <<"branch", b>>)
                \/ \E m \in M : m.op = "end" /\ m.activity \in Flows /\ m.token = <<"branch", b>>
  <2>1. ASSUME NEW c \in pending, NEW d \in pending, c.op = "end", d.op = "end",
               c.activity \in Flows, d.activity \in Flows, c.token = <<"branch", b>>, d.token = <<"branch", b>>
        PROVE  c = d
    <3>1. b \in ChildSet(c.activity) /\ b \in ChildSet(d.activity)
      BY <2>1 DEF CallsInv
    <3>2. c.activity = d.activity
      BY <3>1, <2>1, StructureOfChild DEF Flows
    <3> QED BY <3>2, <2>1, <1>4
  <2> QED BY <2>1 DEF Ending
<1>7. ASSUME NEW l \in Link
      PROVE  l \in Determining' <=> \/ l \in Determining /\ ~ (call.op = "determine" /\ call.link = l)
                                    \/ \E m \in M : m.op = "determine" /\ m.link = l
  BY DEF Determining, UniqueInv
<1>8. \A c : c \in Notices' <=> (c \in Notices /\ c # call) \/ (c \in M /\ c.op = "targetDetermined")
  BY DEF Notices
<1>9. \A c : c \in Looping' <=> (c \in Looping /\ c # call) \/ (c \in M /\ c.op = "branch")
  BY DEF Looping
<1> QED BY <1>3, <1>5, <1>6, <1>7, <1>8, <1>9 DEF SetsReplaced

-----------------------------------------------------------------------------
(* The sequences of calls that the steps make. *)

Injective(s) == \A i, j \in DOMAIN s : s[i] = s[j] => i = j

LEMMA Concatenation ==
  ASSUME NEW R, NEW s \in Seq(R), NEW u \in Seq(R), Injective(s), Injective(u),
         \A i \in DOMAIN s, j \in DOMAIN u : s[i] # u[j]
  PROVE  /\ s \o u \in Seq(R) /\ Injective(s \o u)
         /\ \A c : c \in ToSet(s \o u) <=> c \in ToSet(s) \/ c \in ToSet(u)
<1>1. /\ s \o u \in Seq(R) /\ Len(s) \in Nat /\ Len(u) \in Nat /\ Len(s \o u) = Len(s) + Len(u)
      /\ DOMAIN s = 1 .. Len(s) /\ DOMAIN u = 1 .. Len(u) /\ DOMAIN (s \o u) = 1 .. Len(s) + Len(u)
  OBVIOUS
<1>2. \A i \in DOMAIN (s \o u) : \/ i \in DOMAIN s /\ (s \o u)[i] = s[i]
                                 \/ i - Len(s) \in DOMAIN u /\ (s \o u)[i] = u[i - Len(s)]
  BY <1>1
<1>3. /\ \A i \in DOMAIN s : i \in DOMAIN (s \o u) /\ (s \o u)[i] = s[i]
      /\ \A i \in DOMAIN u : i + Len(s) \in DOMAIN (s \o u) /\ (s \o u)[i + Len(s)] = u[i]
  BY <1>1
<1>4. Injective(s \o u)
  <2> SUFFICES ASSUME NEW i \in DOMAIN (s \o u), NEW j \in DOMAIN (s \o u), (s \o u)[i] = (s \o u)[j]
               PROVE  i = j
    BY DEF Injective
  <2>1. CASE i \in DOMAIN s /\ j \in DOMAIN s
    BY <2>1, <1>3 DEF Injective
  <2>2. CASE i \notin DOMAIN s /\ j \notin DOMAIN s
    <3>1. i - Len(s) = j - Len(s)
      BY <2>2, <1>2 DEF Injective
    <3> QED BY <3>1, <1>1
  <2>3. CASE i \in DOMAIN s /\ j \notin DOMAIN s
    BY <2>3, <1>2, <1>3
  <2>4. CASE i \notin DOMAIN s /\ j \in DOMAIN s
    BY <2>4, <1>2, <1>3
  <2> QED BY <2>1, <2>2, <2>3, <2>4
<1>5. \A c : c \in ToSet(s \o u) <=> c \in ToSet(s) \/ c \in ToSet(u)
  <2>1. ASSUME NEW c \in ToSet(s \o u) PROVE c \in ToSet(s) \/ c \in ToSet(u)
    BY <1>2 DEF ToSet
  <2>2. ASSUME NEW c \in ToSet(s) PROVE c \in ToSet(s \o u)
    BY <1>3 DEF ToSet
  <2>3. ASSUME NEW c \in ToSet(u) PROVE c \in ToSet(s \o u)
    <3>1. PICK i \in DOMAIN u : c = u[i]
      BY DEF ToSet
    <3>2. i + Len(s) \in DOMAIN (s \o u) /\ (s \o u)[i + Len(s)] = c
      BY <1>3, <3>1
    <3> QED BY <3>2 DEF ToSet
  <2> QED BY <2>1, <2>2, <2>3
<1> QED BY <1>1, <1>4, <1>5

LEMMA Removal ==
  ASSUME NEW R, NEW s \in Seq(R), Injective(s), NEW k \in DOMAIN s
  PROVE  /\ RemoveAt(s, k) \in Seq(R) /\ Injective(RemoveAt(s, k))
         /\ \A c : c \in ToSet(RemoveAt(s, k)) <=> c \in ToSet(s) /\ c # s[k]
<1> DEFINE p == SubSeq(s, 1, k - 1)
           q == SubSeq(s, k + 1, Len(s))
<1>1. /\ Len(s) \in Nat /\ DOMAIN s = 1 .. Len(s) /\ k \in 1 .. Len(s)
  OBVIOUS
<1>2. /\ p \in Seq(R) /\ Len(p) = k - 1 /\ DOMAIN p = 1 .. k - 1 /\ \A i \in 1 .. k - 1 : p[i] = s[i]
  <2>1. p \in Seq(R) /\ Len(p) = k - 1
    BY <1>1
  <2>2. DOMAIN p = 1 .. k - 1
    BY <2>1
  <2>3. \A i \in 1 .. k - 1 : p[i] = s[i]
    BY <1>1
  <2> QED BY <2>1, <2>2, <2>3
<1>3. /\ q \in Seq(R) /\ Len(q) = Len(s) - k /\ DOMAIN q = 1 .. Len(s) - k
      /\ \A i \in 1 .. Len(s) - k : q[i] = s[i + k]
  <2>1. q \in Seq(R) /\ Len(q) = Len(s) - k
    BY <1>1
  <2>2. DOMAIN q = 1 .. Len(s) - k
    BY <2>1
  <2>3. \A i \in 1 .. Len(s) - k : q[i] = s[i + k]
    BY <1>1
  <2> QED BY <2>1, <2>2, <2>3
<1> HIDE DEF p, q
<1>a. \A i \in DOMAIN p : i \in Int /\ i \in DOMAIN s /\ i < k /\ p[i] = s[i]
  BY <1>1, <1>2
<1>b. \A i \in DOMAIN q : i \in Int /\ i + k \in DOMAIN s /\ i + k > k /\ q[i] = s[i + k]
  BY <1>1, <1>3
<1>4. Injective(p) /\ Injective(q)
  <2>1. ASSUME NEW i \in DOMAIN q, NEW j \in DOMAIN q, q[i] = q[j] PROVE i = j
    <3>1. i + k = j + k
      BY <2>1, <1>b DEF Injective
    <3> QED BY <3>1, <1>b, <1>1
  <2>2. ASSUME NEW i \in DOMAIN p, NEW j \in DOMAIN p, p[i] = p[j] PROVE i = j
    BY <2>2, <1>a DEF Injective
  <2> QED BY <2>1, <2>2 DEF Injective
<1>5. \A i \in DOMAIN p, j \in DOMAIN q : p[i] # q[j]
  <2> SUFFICES ASSUME NEW i \in DOMAIN p, NEW j \in DOMAIN q, p[i] = q[j] PROVE FALSE
    OBVIOUS
  <2>1. i = j + k
    BY <1>a, <1>b DEF Injective
  <2> QED BY <2>1, <1>a, <1>b, <1>1
<1>6. /\ p \o q \in Seq(R) /\ Injective(p \o q)
      /\ \A c : c \in ToSet(p \o q) <=> c \in ToSet(p) \/ c \in ToSet(q)
  BY <1>2, <1>3, <1>4, <1>5, Concatenation
<1>7. \A c : c \in ToSet(p) \/ c \in ToSet(q) <=> c \in ToSet(s) /\ c # s[k]
  <2>1. ASSUME NEW c \in ToSet(p) PROVE c \in ToSet(s) /\ c # s[k]
    BY <1>1, <1>a DEF ToSet, Injective
  <2>2. ASSUME NEW c \in ToSet(q) PROVE c \in ToSet(s) /\ c # s[k]
    <3>1. PICK i \in DOMAIN q : c = q[i]
      BY DEF ToSet
    <3>2. i + k \in DOMAIN s /\ c = s[i + k] /\ i + k # k
      BY <3>1, <1>b, <1>1
    <3> QED BY <3>2 DEF ToSet, Injective
  <2>3. ASSUME NEW c \in ToSet(s), c # s[k] PROVE c \in ToSet(p) \/ c \in ToSet(q)
    <3>1. PICK i \in 1 .. Len(s) : c = s[i]
      BY <1>1 DEF ToSet
    <3>2. CASE i < k
      BY <3>1, <3>2, <1>1, <1>2 DEF ToSet
    <3>3. CASE i > k
      <4>1. i - k \in 1 .. Len(s) - k /\ (i - k) + k = i
        BY <3>1, <3>3, <1>1
      <4>2. i - k \in DOMAIN q /\ q[i - k] = s[i]
        BY <4>1, <1>3
      <4> QED BY <4>2, <3>1 DEF ToSet
    <3> QED BY <3>1, <3>2, <3>3, <2>3, <1>1
  <2> QED BY <2>1, <2>2, <2>3
<1>8. RemoveAt(s, k) = p \o q
  BY DEF RemoveAt, p, q
<1> QED BY <1>6, <1>7, <1>8

FlowInv ==
  /\ TypeOK /\ StackInv /\ CallsInv /\ WaitsInv /\ TokensInv /\ UniqueInv /\ PhaseInv
  /\ TouchInv /\ ActiveInv /\ EndedInv /\ LeftInv /\ SequenceInv /\ BranchInv /\ HoldInv
  /\ NodeInv /\ TargetInv /\ NoticeInv /\ LinkInv /\ MeaningInv /\ ChoiceInv
  /\ DeadInv /\ TakenInv /\ DoneInv /\ FiredInv

-----------------------------------------------------------------------------
(* What a step does to the sets, for the calls that it makes. *)

Made(M, op) == {a \in Activity : \E m \in M : m.op = op /\ m.activity = a}
MadeEnding(M) == {b \in Activity : \E m \in M : m.op = "end" /\ m.activity \in Flows /\ m.token = <<"branch", b>>}
MadeDetermining(M) == {l \in Link : \E m \in M : m.op = "determine" /\ m.link = l}
Top(op) == IF call.op = op THEN {call.activity} ELSE {}

When(p, x) == IF p THEN {x} ELSE {}

(* What a step does to the sets that replaces the call on top by calls M,   *)
(* by nothing, by a call c of an activity, or by the next branch of a flow. *)
Replaced(M) ==
  /\ calls' \in Seq(CallRecord) /\ StackInv'
  /\ \A c : c \in pending' <=> (c \in pending /\ c # call) \/ c \in M
  /\ Entering' = (Entering \ Top("enter")) \cup Made(M, "enter")
  /\ Executing' = (Executing \ Top("execute")) \cup Made(M, "execute")
  /\ Skipping' = (Skipping \ Top("skip")) \cup Made(M, "skip")
  /\ Leaving' = (Leaving \ Top("leave")) \cup Made(M, "leave")
  /\ Proceeding' = (Proceeding \ Top("proceed")) \cup Made(M, "proceed")
  /\ Eliminating' = (Eliminating \ Top("eliminate")) \cup Made(M, "eliminate")
  /\ Finishing' = (Finishing \ Top("end")) \cup (Made(M, "end") \ Flows)
  /\ Ending' = {b \in Ending : ~ (call.op = "end" /\ call.activity \in Flows /\ call.token = <<"branch", b>>)}
                 \cup MadeEnding(M)
  /\ Determining' = {l \in Determining : ~ (call.op = "determine" /\ call.link = l)} \cup MadeDetermining(M)
  /\ Notices' = (Notices \ {call}) \cup {m \in M : m.op = "targetDetermined"}
  /\ Looping' = (Looping \ {call}) \cup {m \in M : m.op = "branch"}

Dropped ==
  /\ calls' \in Seq(CallRecord) /\ StackInv'
  /\ \A c : c \in pending' <=> c \in pending /\ c # call
  /\ Entering' = Entering \ Top("enter") /\ Executing' = Executing \ Top("execute")
  /\ Skipping' = Skipping \ Top("skip") /\ Leaving' = Leaving \ Top("leave")
  /\ Proceeding' = Proceeding \ Top("proceed") /\ Eliminating' = Eliminating \ Top("eliminate")
  /\ Finishing' = Finishing \ Top("end")
  /\ Ending' = {b \in Ending : ~ (call.op = "end" /\ call.activity \in Flows /\ call.token = <<"branch", b>>)}
  /\ Determining' = {l \in Determining : ~ (call.op = "determine" /\ call.link = l)}
  /\ Notices' = Notices \ {call} /\ Looping' = Looping \ {call}

ReplacedBy(c) ==
  /\ calls' \in Seq(CallRecord) /\ StackInv'
  /\ \A d : d \in pending' <=> (d \in pending /\ d # call) \/ d = c
  /\ Entering' = (Entering \ Top("enter")) \cup When(c.op = "enter", c.activity)
  /\ Executing' = (Executing \ Top("execute")) \cup When(c.op = "execute", c.activity)
  /\ Skipping' = (Skipping \ Top("skip")) \cup When(c.op = "skip", c.activity)
  /\ Leaving' = (Leaving \ Top("leave")) \cup When(c.op = "leave", c.activity)
  /\ Proceeding' = (Proceeding \ Top("proceed")) \cup When(c.op = "proceed", c.activity)
  /\ Eliminating' = (Eliminating \ Top("eliminate")) \cup When(c.op = "eliminate", c.activity)
  /\ Finishing' = (Finishing \ Top("end")) \cup When(c.op = "end" /\ c.activity \notin Flows, c.activity)
  /\ Ending' = {b \in Ending : ~ (call.op = "end" /\ call.activity \in Flows /\ call.token = <<"branch", b>>)}
                 \cup {b \in Activity : c.op = "end" /\ c.activity \in Flows /\ c.token = <<"branch", b>>}
  /\ Determining' = {l \in Determining : ~ (call.op = "determine" /\ call.link = l)}
  /\ Notices' = (Notices \ {call}) \cup When(c.op = "targetDetermined", c)
  /\ Looping' = Looping \ {call}

Continued(c) ==
  /\ calls' \in Seq(CallRecord) /\ StackInv'
  /\ \A d : d \in pending' <=> (d \in pending /\ d # call) \/ d = c
  /\ Entering' = Entering \ Top("enter") /\ Executing' = Executing \ Top("execute")
  /\ Skipping' = Skipping \ Top("skip") /\ Leaving' = Leaving \ Top("leave")
  /\ Proceeding' = Proceeding \ Top("proceed") /\ Eliminating' = Eliminating \ Top("eliminate")
  /\ Finishing' = Finishing \ Top("end")
  /\ Ending' = {b \in Ending : ~ (call.op = "end" /\ call.activity \in Flows /\ call.token = <<"branch", b>>)}
  /\ Determining' = {l \in Determining : ~ (call.op = "determine" /\ call.link = l)}
  /\ Notices' = Notices \ {call} /\ Looping' = (Looping \ {call}) \cup {c}

LEMMA Effect ==
  ASSUME TypeOK, StackInv, CallsInv, UniqueInv, calls # <<>>, NEW made \in Seq(CallRecord), Injective(made),
         \A m \in ToSet(made) : m \in pending => m = call,
         \A i \in DOMAIN made : made[i].op = "targetDetermined" => i = 1,
         Ordered(made), Then(made), NEW M, M = ToSet(made)
  PROVE  Replaced(M)
<1>1. calls \in Seq(CallRecord)
  BY DEF TypeOK, CallRecord
<1>2. /\ \A i, j \in DOMAIN made : made[i] = made[j] => i = j
      /\ \A i \in DOMAIN made : made[i] \in pending => made[i] = call
      /\ calls' = made \o Tail(calls)
  BY DEF Injective, ToSet, Then
<1>3. /\ calls' \in Seq(CallRecord) /\ StackInv' /\ call \in pending
      /\ \A c : c \in pending' <=> (c \in pending /\ c # call) \/ c \in ToSet(made)
  BY <1>1, <1>2, PendingStep
<1>4. M \in SUBSET CallRecord
  BY DEF ToSet
<1>s. SetsReplaced(M)
  <2>1. \A c : c \in pending' <=> (c \in pending /\ c # call) \/ c \in M
    BY <1>3
  <2> QED BY <1>1, <1>3, <1>4, <2>1, SetsStep
<1>5. \A op \in ThreadOps \cup {"eliminate"} : \A a \in Activity :
              a \in Doing(op)' <=> \/ a \in Doing(op) /\ ~ (call.op = op /\ call.activity = a)
                                   \/ \E m \in M : m.op = op /\ m.activity = a
  BY <1>s DEF SetsReplaced
<1>6. ASSUME NEW op \in ThreadOps \cup {"eliminate"}
      PROVE  Doing(op)' = (Doing(op) \ Top(op)) \cup Made(M, op)
  <2>1. Doing(op)' \subseteq Activity /\ Doing(op) \subseteq Activity
    BY DEF Doing
  <2> QED BY <1>5, <1>6, <2>1 DEF Top, Made
<1>7. /\ \A a \in Activity :
              a \in Finishing' <=> \/ a \in Finishing /\ ~ (call.op = "end" /\ call.activity = a)
                                   \/ a \notin Flows /\ \E m \in M : m.op = "end" /\ m.activity = a
      /\ \A b \in Activity :
              b \in Ending' <=>
                \/ b \in Ending /\ ~ (call.op = "end" /\ call.activity \in Flows /\ call.token = <<"branch", b>>)
                \/ \E m \in M : m.op = "end" /\ m.activity \in Flows /\ m.token = <<"branch", b>>
      /\ \A l \in Link :
              l \in Determining' <=> \/ l \in Determining /\ ~ (call.op = "determine" /\ call.link = l)
                                     \/ \E m \in M : m.op = "determine" /\ m.link = l
      /\ \A c : c \in Notices' <=> (c \in Notices /\ c # call) \/ (c \in M /\ c.op = "targetDetermined")
      /\ \A c : c \in Looping' <=> (c \in Looping /\ c # call) \/ (c \in M /\ c.op = "branch")
  BY <1>s DEF SetsReplaced
<1>8. Finishing' = (Finishing \ Top("end")) \cup (Made(M, "end") \ Flows)
  <2>1. Finishing' \subseteq Activity /\ Finishing \subseteq Activity
    BY DEF Finishing, Doing
  <2> QED BY <1>7, <2>1 DEF Top, Made
<1>9. Ending' = {b \in Ending : ~ (call.op = "end" /\ call.activity \in Flows /\ call.token = <<"branch", b>>)}
                  \cup MadeEnding(M)
  <2>1. Ending' \subseteq Activity /\ Ending \subseteq Activity
    BY DEF Ending
  <2>2. \A b \in Activity :
          b \in Ending' <=>
            \/ b \in Ending /\ ~ (call.op = "end" /\ call.activity \in Flows /\ call.token = <<"branch", b>>)
            \/ b \in MadeEnding(M)
    BY <1>7 DEF MadeEnding
  <2>3. MadeEnding(M) \subseteq Activity
    BY DEF MadeEnding
  <2> QED BY <2>1, <2>2, <2>3
<1>10. Determining' = {l \in Determining : ~ (call.op = "determine" /\ call.link = l)} \cup MadeDetermining(M)
  <2>1. Determining' \subseteq Link /\ Determining \subseteq Link
    BY DEF Determining
  <2> QED BY <1>7, <2>1 DEF MadeDetermining
<1>11. Notices' = (Notices \ {call}) \cup {m \in M : m.op = "targetDetermined"}
  BY <1>7
<1>12. Looping' = (Looping \ {call}) \cup {m \in M : m.op = "branch"}
  BY <1>7
<1>13. /\ Entering' = (Entering \ Top("enter")) \cup Made(M, "enter")
       /\ Executing' = (Executing \ Top("execute")) \cup Made(M, "execute")
       /\ Skipping' = (Skipping \ Top("skip")) \cup Made(M, "skip")
       /\ Leaving' = (Leaving \ Top("leave")) \cup Made(M, "leave")
       /\ Proceeding' = (Proceeding \ Top("proceed")) \cup Made(M, "proceed")
       /\ Eliminating' = (Eliminating \ Top("eliminate")) \cup Made(M, "eliminate")
  BY <1>6 DEF Entering, Executing, Skipping, Leaving, Proceeding, Eliminating, ThreadOps
<1> QED BY <1>3, <1>8, <1>9, <1>10, <1>11, <1>12, <1>13 DEF Replaced

LEMMA EffectOfNothing ==
  ASSUME TypeOK, StackInv, CallsInv, UniqueInv, calls # <<>>, Then(<<>>)
  PROVE  Dropped
<1> DEFINE made == <<>>
           M == ToSet(made)
<1>1. made \in Seq(CallRecord) /\ DOMAIN made = {}
  OBVIOUS
<1>2. \A c : c \notin M
  BY <1>1 DEF ToSet
<1>3. Injective(made) /\ Ordered(made)
  BY <1>1 DEF Injective, Ordered
<1>4. Then(made)
  OBVIOUS
<1> HIDE DEF made
<1>5. Replaced(M)
  BY <1>1, <1>2, <1>3, <1>4, Effect
<1> HIDE DEF M
<1>6. (\A op, x : x \notin Made(M, op)) /\ (\A x : x \notin MadeEnding(M)) /\ (\A x : x \notin MadeDetermining(M))
  BY <1>2 DEF Made, MadeEnding, MadeDetermining
<1> QED BY <1>2, <1>5, <1>6 DEF Replaced, Dropped

LEMMA EffectOfCall ==
  ASSUME TypeOK, StackInv, CallsInv, UniqueInv, calls # <<>>, NEW c \in ActivityCall, c.op # "proceed",
         c \in pending => c = call, Then(<<c>>)
  PROVE  ReplacedBy(c)
<1> DEFINE made == <<c>>
           M == ToSet(made)
<1>1. made \in Seq(CallRecord) /\ DOMAIN made = {1} /\ made[1] = c
  <2>1. c \in CallRecord
    BY DEF CallRecord
  <2> QED BY <2>1
<1>2. \A m : m \in M <=> m = c
  BY <1>1 DEF ToSet
<1>3. Injective(made) /\ Ordered(made)
  BY <1>1 DEF Injective, Ordered
<1>4. Then(made)
  OBVIOUS
<1> HIDE DEF made
<1>5. Replaced(M)
  BY <1>1, <1>2, <1>3, <1>4, Effect
<1> HIDE DEF M
<1>6. /\ \A op, x : x \in Made(M, op) <=> c.op = op /\ x = c.activity
      /\ \A x : x \in MadeEnding(M) <=> x \in Activity /\ c.op = "end" /\ c.activity \in Flows /\ c.token = <<"branch", x>>
      /\ \A x : x \notin MadeDetermining(M)
      /\ c.op # "branch"
  BY <1>2 DEF Made, MadeEnding, MadeDetermining, ActivityCall
<1> QED BY <1>2, <1>5, <1>6 DEF When, Replaced, ReplacedBy

LEMMA CallOnTop ==
  ASSUME TypeOK, CallsInv, calls # <<>>
  PROVE  /\ call \in pending /\ call \in CallRecord
         /\ call.op \notin {"determine", "branch"} =>
              call \in ActivityCall /\ call.activity \in Activity /\ call.token \in Token /\ call.token \in DOMAIN parent
         /\ call.op \in ThreadOps => call.token = TokenOf(call.activity)
         /\ call.op = "branch" => call \in BranchCall /\ call.activity \in Activity
         /\ call.op = "determine" => call \in LinkCall /\ call.link \in Link /\ call.value \in BOOLEAN
<1>1. calls \in Seq(CallRecord)
  BY DEF TypeOK, CallRecord
<1>2. call = calls[1] /\ 1 \in DOMAIN calls /\ call \in CallRecord
  BY <1>1 DEF call
<1>3. call \in pending
  BY <1>2 DEF pending, ToSet
<1>4. /\ call.op \notin {"determine", "branch"} => call \in ActivityCall
      /\ call.op = "branch" => call \in BranchCall
      /\ call.op = "determine" => call \in LinkCall
  BY <1>2 DEF CallRecord, ActivityCall, BranchCall, LinkCall
<1> QED BY <1>2, <1>3, <1>4 DEF CallsInv, ActivityCall, BranchCall, LinkCall

LEMMA DoingTop ==
  ASSUME call \in pending, call.activity \in Activity
  PROVE  /\ call.op = "enter" => call.activity \in Entering
         /\ call.op = "execute" => call.activity \in Executing
         /\ call.op = "skip" => call.activity \in Skipping
         /\ call.op = "leave" => call.activity \in Leaving
         /\ call.op = "proceed" => call.activity \in Proceeding
         /\ call.op = "eliminate" => call.activity \in Eliminating
         /\ call.op = "end" /\ call.activity \notin Flows => call.activity \in Finishing
         /\ call.op = "targetDetermined" => call \in Notices
         /\ call.op = "branch" => call \in Looping
BY DEF Entering, Executing, Skipping, Leaving, Proceeding, Eliminating, Finishing, Doing, Notices, Looping

LEMMA EffectOfBranch ==
  ASSUME TypeOK, StackInv, CallsInv, UniqueInv, calls # <<>>, NEW c \in BranchCall,
         c \in pending => c = call, Then(<<c>>)
  PROVE  Continued(c)
<1> DEFINE made == <<c>>
           M == ToSet(made)
<1>1. made \in Seq(CallRecord) /\ DOMAIN made = {1} /\ made[1] = c
  <2>1. c \in CallRecord
    BY DEF CallRecord
  <2> QED BY <2>1
<1>2. \A m : m \in M <=> m = c
  BY <1>1 DEF ToSet
<1>3. Injective(made) /\ Ordered(made)
  BY <1>1 DEF Injective, Ordered, BranchCall
<1>4. Then(made)
  OBVIOUS
<1> HIDE DEF made
<1>5. Replaced(M)
  BY <1>1, <1>2, <1>3, <1>4, Effect
<1> HIDE DEF M
<1>6. /\ \A x : /\ x \notin Made(M, "enter") /\ x \notin Made(M, "execute") /\ x \notin Made(M, "skip")
                /\ x \notin Made(M, "leave") /\ x \notin Made(M, "proceed") /\ x \notin Made(M, "eliminate")
                /\ x \notin Made(M, "end") /\ x \notin MadeEnding(M) /\ x \notin MadeDetermining(M)
      /\ c.op = "branch"
  BY <1>2 DEF Made, MadeEnding, MadeDetermining, BranchCall
<1> QED BY <1>2, <1>5, <1>6 DEF Replaced, Continued

-----------------------------------------------------------------------------
(* What the definition calls for: Performed is a fixpoint, since to        *)
(* perform more activities calls for no fewer.                             *)

CalledFor(P) ==
  {a \in Activity :
     /\ \/ a = Root
        \/ /\ Structure(a) \in P
           /\ Structure(a) \in Choice => choice[Structure(a)] = a
     /\ \/ Targets(a) = {}
        \/ a \in AllOf /\ \A l \in Targets(a) : holds[l] /\ Source(l) \in P
        \/ a \notin AllOf /\ \E l \in Targets(a) : holds[l] /\ Source(l) \in P}

LEMMA LeastCalledFor == \E P \in SUBSET Activity : CalledFor(P) = P
<1> DEFINE P == {a \in Activity : \A X \in SUBSET Activity : CalledFor(X) \subseteq X => a \in X}
<1>1. ASSUME NEW X, NEW Y, X \subseteq Y PROVE CalledFor(X) \subseteq CalledFor(Y)
  BY <1>1 DEF CalledFor
<1>2. P \in SUBSET Activity /\ CalledFor(P) \in SUBSET Activity
  BY DEF CalledFor
<1>3. \A X \in SUBSET Activity : CalledFor(X) \subseteq X => P \subseteq X
  OBVIOUS
<1>4. CalledFor(P) \subseteq P
  <2> SUFFICES ASSUME NEW a \in CalledFor(P), NEW X \in SUBSET Activity, CalledFor(X) \subseteq X PROVE a \in X
    BY <1>2
  <2>1. CalledFor(P) \subseteq CalledFor(X)
    <3> HIDE DEF P
    <3> QED BY <1>1, <1>3
  <2> QED BY <2>1
<1> HIDE DEF P
<1>5. P \subseteq CalledFor(P)
  <2>1. CalledFor(CalledFor(P)) \subseteq CalledFor(P)
    BY <1>1, <1>4
  <2> QED BY <2>1, <1>2, <1>3
<1> QED BY <1>2, <1>4, <1>5

LEMMA PerformedEquation ==
  /\ \A a \in Activity : Performed[a] \in BOOLEAN
  /\ \A a \in Activity :
       Performed[a] <=>
         /\ Eligible(a)
         /\ \/ Targets(a) = {}
            \/ a \in AllOf /\ \A l \in Targets(a) : holds[l] /\ Performed[Source(l)]
            \/ a \notin AllOf /\ \E l \in Targets(a) : holds[l] /\ Performed[Source(l)]
<1> DEFINE Body(f) == [a \in Activity |->
                         LET positive(l) == holds[l] /\ f[Source(l)]
                         IN  /\ \/ a = Root
                                \/ /\ f[Structure(a)]
                                   /\ Structure(a) \in Choice => choice[Structure(a)] = a
                             /\ \/ Targets(a) = {}
                                \/ a \in AllOf /\ \A l \in Targets(a) : positive(l)
                                \/ a \notin AllOf /\ \E l \in Targets(a) : positive(l)]
<1>1. PICK P \in SUBSET Activity : CalledFor(P) = P
  BY LeastCalledFor
<1> DEFINE g == [a \in Activity |-> a \in P]
<1>2. g = Body(g)
  <2> SUFFICES ASSUME NEW a \in Activity PROVE (a \in P) = Body(g)[a]
    OBVIOUS
  <2>1. \A l \in Targets(a) : l \in Link /\ Source(l) \in Activity
    BY SourceOf DEF Targets
  <2>2. a # Root => Structure(a) \in Activity
    BY StructureOf
  <2>3. a \in P <=> a \in CalledFor(P)
    BY <1>1
  <2> DEFINE B == /\ \/ a = Root
                     \/ /\ g[Structure(a)]
                        /\ Structure(a) \in Choice => choice[Structure(a)] = a
                  /\ \/ Targets(a) = {}
                     \/ a \in AllOf /\ \A l \in Targets(a) : holds[l] /\ g[Source(l)]
                     \/ a \notin AllOf /\ \E l \in Targets(a) : holds[l] /\ g[Source(l)]
  <2>4. Body(g)[a] = B
    OBVIOUS
  <2>5. \A x \in Activity : g[x] <=> x \in P
    OBVIOUS
  <2> HIDE DEF g, Body
  <2>6. a \in CalledFor(P) <=> B
    BY <2>1, <2>2, <2>5 DEF CalledFor
  <2>7. B \in BOOLEAN
    OBVIOUS
  <2> HIDE DEF B
  <2> QED BY <2>3, <2>4, <2>6, <2>7
<1>3. Performed = CHOOSE f : f = Body(f)
  BY DEF Performed
<1>4. Performed = Body(Performed)
  <2> HIDE DEF Body, g
  <2> QED BY <1>2, <1>3
<1>5. ASSUME NEW a \in Activity PROVE Performed[a] \in BOOLEAN
  BY <1>4
<1>6. ASSUME NEW a \in Activity
      PROVE  Performed[a] <=>
         /\ Eligible(a)
         /\ \/ Targets(a) = {}
            \/ a \in AllOf /\ \A l \in Targets(a) : holds[l] /\ Performed[Source(l)]
            \/ a \notin AllOf /\ \E l \in Targets(a) : holds[l] /\ Performed[Source(l)]
  BY <1>4 DEF Eligible
<1> QED BY <1>5, <1>6

LEMMA PerformedStays ==
  ASSUME UNCHANGED <<holds, choice>>
  PROVE  Performed' = Performed
BY DEF Performed

-----------------------------------------------------------------------------
(* Consequences of the invariant that several steps need. *)

LEMMA Parts ==
  ASSUME FlowInv
  PROVE  /\ TypeOK /\ StackInv /\ CallsInv /\ WaitsInv /\ TokensInv /\ UniqueInv /\ PhaseInv
         /\ TouchInv /\ ActiveInv /\ EndedInv /\ LeftInv /\ SequenceInv /\ BranchInv /\ HoldInv
         /\ NodeInv /\ TargetInv /\ NoticeInv /\ LinkInv /\ MeaningInv /\ ChoiceInv
BY DEF FlowInv

LEMMA FurtherParts == ASSUME FlowInv PROVE DeadInv /\ TakenInv /\ DoneInv /\ FiredInv
BY DEF FlowInv

LEMMA Domains ==
  /\ \A a \in Activity : a # Root => Structure(a) \in Activity
  /\ \A f \in Flows : f \in Activity
  /\ \A f \in Flows : \A b \in ChildSet(f) : b \in Activity /\ b # Root /\ Structure(b) = f
  /\ \A a : a \in Entering \/ a \in Executing \/ a \in Skipping \/ a \in Leaving \/ a \in Proceeding => a \in Activity
  /\ \A a : a \in Eliminating \/ a \in Finishing \/ a \in Ending \/ a \in Waiting => a \in Activity
  /\ \A a : a \in Touched \/ a \in Opened \/ a \in Settled \/ a \in Active \/ a \in Holders \/ a \in Awaiting => a \in Activity
  /\ \A l \in Determining : l \in Link
  /\ \A l \in Link : Source(l) \in Activity /\ Target[l] \in Activity
<1>1. \A a \in Activity : a # Root => Structure(a) \in Activity
  BY StructureOf
<1>2. \A f \in Flows : f \in Activity
  BY DEF Flows
<1>3. \A f \in Flows : \A b \in ChildSet(f) : b \in Activity /\ b # Root /\ Structure(b) = f
  BY <1>2, StructureOfChild
<1>4. \A a : a \in Entering \/ a \in Executing \/ a \in Skipping \/ a \in Leaving \/ a \in Proceeding => a \in Activity
  BY DEF Entering, Executing, Skipping, Leaving, Proceeding, Doing
<1>5. \A a : a \in Eliminating \/ a \in Finishing \/ a \in Ending \/ a \in Waiting => a \in Activity
  BY DEF Eliminating, Finishing, Ending, Waiting, Doing
<1>6. \A a : a \in Touched \/ a \in Opened \/ a \in Settled \/ a \in Active \/ a \in Holders \/ a \in Awaiting => a \in Activity
  BY DEF Touched, Opened, Settled, Active, Holders, Awaiting
<1>7. \A l \in Determining : l \in Link
  BY DEF Determining
<1> QED BY <1>1, <1>2, <1>3, <1>4, <1>5, <1>6, <1>7, SourceOf, TargetOf

LEMMA CallTypes ==
  ASSUME TypeOK, CallsInv
  PROVE  /\ \A c \in pending : c.op \notin {"determine", "branch"} => c \in ActivityCall /\ c.activity \in Activity
         /\ \A c \in pending : c.op = "branch" => c \in BranchCall /\ c.activity \in Activity
         /\ \A c \in pending : c.op = "determine" => c \in LinkCall /\ c.link \in Link
         /\ \A c \in Notices : c \in pending /\ c.op = "targetDetermined" /\ c.activity \in Activity
         /\ \A c \in Looping : c \in pending /\ c.op = "branch" /\ c.activity \in Flows /\ c.activity \in Activity
<1>1. \A c \in pending : c \in CallRecord
  BY DEF TypeOK, CallRecord, pending, ToSet
<1>2. /\ \A c \in pending : c.op \notin {"determine", "branch"} => c \in ActivityCall /\ c.activity \in Activity
      /\ \A c \in pending : c.op = "branch" => c \in BranchCall /\ c.activity \in Activity
      /\ \A c \in pending : c.op = "determine" => c \in LinkCall /\ c.link \in Link
  BY <1>1 DEF CallRecord, ActivityCall, BranchCall, LinkCall
<1> QED BY <1>2 DEF Notices, Looping, CallsInv

(* The flow that declares a link is open once its source or its target is  *)
(* reached, so that the link has an instance.                              *)
LEMMA LinksPresent ==
  ASSUME TouchInv, LinkInv, NEW a \in Touched
  PROVE  /\ \A l \in Targets(a) : status[l] # "absent"
         /\ \A l \in ToSet(Sources[a]) : status[l] # "absent"
<1> DEFINE S == {x \in Activity : x = a \/ x \in Opened}
<1>1. a \in S /\ S \in SUBSET Activity
  BY DEF Touched
<1>2. Opened \subseteq Touched /\ Opened \subseteq Activity
  BY DEF Opened, Touched
<1>3. \A x \in S \ {Root} : Structure(x) \in S
  BY <1>2, StructureOf DEF TouchInv
<1>4. ASSUME NEW l \in Link, Source(l) = a \/ Target[l] = a PROVE status[l] # "absent"
  <2>1. PICK f \in Activity : /\ f \in Flows /\ l \in Links[f]
                              /\ Source(l) \in Within(f) /\ Target[l] \in Within(f)
    BY FlowOfLink
  <2>2. f \in S /\ f # a
    <3>1. a \in Within(f)
      BY <1>4, <2>1
    <3>2. f \in S
      <4> HIDE DEF S
      <4> QED BY <3>1, <1>1, <1>3, UpToWithin
    <3> QED BY <3>1, <3>2 DEF Within
  <2>3. f \in Opened
    BY <2>2
  <2> QED BY <2>1, <2>3 DEF LinkInv
<1> QED BY <1>4, <1>1, SourceOf DEF Targets

LEMMA OnlyNotice ==
  ASSUME TypeOK, StackInv, calls # <<>>
  PROVE  \A c \in Notices : c = call
<1>1. calls \in Seq(CallRecord)
  BY DEF TypeOK, CallRecord
<1>2. call = calls[1]
  BY <1>1 DEF call
<1> QED BY <1>2 DEF StackInv, Notices, pending, ToSet

(* Once its links are determined, the join condition of an activity that   *)
(* its structure executes says whether the definition calls for it.        *)
LEMMA JoinMeaning ==
  ASSUME TypeOK, TouchInv, LinkInv, MeaningInv, NEW a \in Activity, a \in Touched, Eligible(a),
         AreTargetsDetermined(a)
  PROVE  JoinCondition(a) <=> Performed[a]
<1>1. \A l \in Targets(a) : status[l] \in {"true", "false"}
  BY LinksPresent DEF TypeOK, AreTargetsDetermined, Targets
<1>2. \A l \in Targets(a) : l \in Link
  BY DEF Targets
<1>3. \A l \in Targets(a) : status[l] = "true" <=> holds[l] /\ Performed[Source(l)]
  BY <1>1, <1>2 DEF MeaningInv
<1> QED BY <1>3, PerformedEquation DEF JoinCondition

(* Joining evaluates the join condition. *)
LEMMA Joining ==
  ASSUME FlowInv, calls # <<>>, call.op \in {"enter", "targetDetermined"}, NEW a, a = call.activity,
         a \notin Executing, a \notin Skipping, a \in Touched, call.token = TokenOf(a), Eligible(a),
         AreTargetsDetermined(a), EvaluateJoinCondition(a, call.token)
  PROVE  \E E, S \in SUBSET {a} :
           /\ calls' \in Seq(CallRecord) /\ StackInv'
           /\ \A c \in pending' : c \in pending \/ (c.op \in {"execute", "skip"} /\ c.activity = a /\ c.token = TokenOf(a))
           /\ \A c \in pending : c = call \/ c \in pending'
           /\ Executing' = Executing \cup E /\ Skipping' = Skipping \cup S
           /\ Entering' = Entering \ Top("enter")
           /\ UNCHANGED <<Leaving, Proceeding, Eliminating, Finishing, Ending, Determining, Looping>>
           /\ \A c : c \notin Notices'
           /\ a \in E => a \notin S /\ Performed[a]
           /\ a \in S => ~ Performed[a]
           /\ \/ UNCHANGED <<ended, outcome>>
              \/ ended' = DOMAIN parent /\ outcome' = "faulted"
<1>0. TypeOK /\ StackInv /\ CallsInv /\ UniqueInv /\ TouchInv /\ LinkInv /\ MeaningInv
  BY Parts
<1>1. /\ call \in pending /\ a \in Activity /\ call.token \in Token
      /\ \A c \in Notices : c = call
  BY <1>0, CallOnTop, OnlyNotice
<1>2. JoinCondition(a) <=> Performed[a]
  BY <1>0, <1>1, JoinMeaning
<1>3. CASE JoinCondition(a) /\ Then(<<Call("execute", a, call.token)>>) /\ UNCHANGED <<ended, outcome>>
  <2> DEFINE c == Call("execute", a, call.token)
  <2>1. c \in ActivityCall /\ c.op = "execute" /\ c.activity = a /\ c.token = call.token
    BY <1>1 DEF Call, ActivityCall
  <2>2. c \notin pending
    BY <1>1, <2>1 DEF Executing, Doing
  <2>3. Then(<<c>>)
    BY <1>3
  <2> HIDE DEF c
  <2>4. /\ calls' \in Seq(CallRecord) /\ StackInv'
        /\ \A d : d \in pending' <=> (d \in pending /\ d # call) \/ d = c
        /\ Executing' = Executing \cup {a} /\ Skipping' = Skipping
        /\ Entering' = Entering \ Top("enter")
        /\ UNCHANGED <<Leaving, Proceeding, Eliminating, Finishing, Ending, Determining, Looping>>
        /\ Notices' = Notices \ {call}
    <3>1. call.op # "branch"
      OBVIOUS
    <3>e. ReplacedBy(c)
      BY <3>1, <1>0, <2>1, <2>2, <2>3, EffectOfCall
    <3> QED BY <3>1, <1>0, <2>1, <2>2, <2>3, <3>e DEF ReplacedBy, Top, When, Looping
  <2>5. WITNESS {a} \in SUBSET {a}, {} \in SUBSET {a}
  <2> QED BY <2>1, <2>4, <1>1, <1>2, <1>3
<1>4. CASE ~ JoinCondition(a) /\ Then(<<Call("skip", a, call.token)>>) /\ UNCHANGED <<ended, outcome>>
  <2> DEFINE c == Call("skip", a, call.token)
  <2>1. c \in ActivityCall /\ c.op = "skip" /\ c.activity = a /\ c.token = call.token
    BY <1>1 DEF Call, ActivityCall
  <2>2. c \notin pending
    BY <1>1, <2>1 DEF Skipping, Doing
  <2>3. Then(<<c>>)
    BY <1>4
  <2> HIDE DEF c
  <2>4. /\ calls' \in Seq(CallRecord) /\ StackInv'
        /\ \A d : d \in pending' <=> (d \in pending /\ d # call) \/ d = c
        /\ Executing' = Executing /\ Skipping' = Skipping \cup {a}
        /\ Entering' = Entering \ Top("enter")
        /\ UNCHANGED <<Leaving, Proceeding, Eliminating, Finishing, Ending, Determining, Looping>>
        /\ Notices' = Notices \ {call}
    <3>1. ReplacedBy(c)
      BY <1>0, <2>1, <2>2, <2>3, EffectOfCall
    <3> QED BY <1>0, <2>1, <2>2, <2>3, <3>1 DEF ReplacedBy, Top, When, Looping
  <2>5. WITNESS {} \in SUBSET {a}, {a} \in SUBSET {a}
  <2> QED BY <2>1, <2>4, <1>1, <1>2, <1>4
<1>5. CASE ~ JoinCondition(a) /\ Then(<<>>) /\ ended' = DOMAIN parent /\ outcome' = "faulted"
  <2>4. /\ calls' \in Seq(CallRecord) /\ StackInv'
        /\ \A d : d \in pending' <=> (d \in pending /\ d # call)
        /\ Executing' = Executing /\ Skipping' = Skipping
        /\ Entering' = Entering \ Top("enter")
        /\ UNCHANGED <<Leaving, Proceeding, Eliminating, Finishing, Ending, Determining, Looping>>
        /\ Notices' = Notices \ {call}
    <3>1. Dropped
      BY <1>0, <1>5, EffectOfNothing
    <3> QED BY <1>0, <1>5, <3>1 DEF Dropped, Top, Looping
  <2>5. WITNESS {} \in SUBSET {a}, {} \in SUBSET {a}
  <2> QED BY <2>4, <1>1, <1>5
<1> QED BY <1>3, <1>4, <1>5 DEF EvaluateJoinCondition

(* The calls that determine the links that leave an activity, and those    *)
(* that eliminate several activities.                                      *)
LinkCalls(a, v) == [i \in DOMAIN Sources[a] |-> Determine(Sources[a][i], v[Sources[a][i]])]

LEMMA Determinations ==
  ASSUME NEW a \in Activity, NEW v \in [Link -> BOOLEAN]
  PROVE  /\ LinkCalls(a, v) \in Seq(CallRecord) /\ Injective(LinkCalls(a, v))
         /\ \A c : c \in ToSet(LinkCalls(a, v)) <=> \E l \in ToSet(Sources[a]) : c = Determine(l, v[l])
         /\ \A c : c \in ToSet(LinkCalls(a, v)) => c.op = "determine" /\ c.link \in ToSet(Sources[a]) /\ c.value = v[c.link]
         /\ \A l \in ToSet(Sources[a]) : \E c \in ToSet(LinkCalls(a, v)) : c.op = "determine" /\ c.link = l
         /\ \A c, d \in ToSet(LinkCalls(a, v)) : c.link = d.link => c = d
         /\ \A i \in DOMAIN LinkCalls(a, v) : LinkCalls(a, v)[i].op = "determine"
<1> DEFINE made == LinkCalls(a, v)
<1>1. Sources[a] \in Seq(Link) /\ DOMAIN Sources[a] = 1 .. Len(Sources[a]) /\ Len(Sources[a]) \in Nat
  BY Shapes
<1>2. \A i \in DOMAIN Sources[a] : Sources[a][i] \in Link
  BY <1>1
<1>3. \A l \in Link : /\ Determine(l, v[l]) \in CallRecord /\ Determine(l, v[l]).op = "determine"
                      /\ Determine(l, v[l]).link = l /\ Determine(l, v[l]).value = v[l]
  BY DEF Determine, CallRecord, LinkCall
<1>4. DOMAIN made = DOMAIN Sources[a] /\ \A i \in DOMAIN Sources[a] : made[i] = Determine(Sources[a][i], v[Sources[a][i]])
  BY DEF LinkCalls
<1> HIDE DEF made
<1>5. made \in Seq(CallRecord)
  <2>1. made \in [1 .. Len(Sources[a]) -> CallRecord]
    BY <1>1, <1>2, <1>3, <1>4 DEF made, LinkCalls
  <2> QED BY <2>1, <1>1
<1>6. Injective(made)
  <2> SUFFICES ASSUME NEW i \in DOMAIN Sources[a], NEW j \in DOMAIN Sources[a], made[i] = made[j] PROVE i = j
    BY <1>4 DEF Injective
  <2>1. Sources[a][i] = Sources[a][j]
    BY <1>2, <1>3, <1>4
  <2> QED BY <2>1, LinkAssumption
<1>7. \A c : c \in ToSet(made) <=> \E l \in ToSet(Sources[a]) : c = Determine(l, v[l])
  <2>1. \A c : c \in ToSet(made) <=> \E i \in DOMAIN made : c = made[i]
    BY DEF ToSet
  <2>2. \A l : l \in ToSet(Sources[a]) <=> \E i \in DOMAIN Sources[a] : l = Sources[a][i]
    BY DEF ToSet
  <2> QED BY <2>1, <2>2, <1>4
<1>8. \A l \in ToSet(Sources[a]) : l \in Link
  BY SourceOf
<1>9. \A c, d \in ToSet(made) : c.link = d.link => c = d
  BY <1>3, <1>7, <1>8
<1> QED BY <1>2, <1>3, <1>4, <1>5, <1>6, <1>7, <1>8, <1>9 DEF made

LEMMA Eliminations ==
  ASSUME NEW s \in Seq(Activity), Injective(s), NEW t \in Token,
         NEW made, made = [i \in DOMAIN s |-> Call("eliminate", s[i], t)]
  PROVE  /\ made \in Seq(CallRecord) /\ Injective(made)
         /\ \A c : c \in ToSet(made) => /\ c \in ActivityCall /\ c.op = "eliminate" /\ c.token = t
                                        /\ c.activity \in ToSet(s)
         /\ \A b \in ToSet(s) : Call("eliminate", b, t) \in ToSet(made)
         /\ \A i \in DOMAIN made : made[i].op = "eliminate"
<1>1. DOMAIN s = 1 .. Len(s) /\ Len(s) \in Nat /\ \A i \in DOMAIN s : s[i] \in Activity
  OBVIOUS
<1>3. \A b \in Activity : /\ Call("eliminate", b, t) \in ActivityCall /\ Call("eliminate", b, t).op = "eliminate"
                          /\ Call("eliminate", b, t).activity = b /\ Call("eliminate", b, t).token = t
                          /\ Call("eliminate", b, t) \in CallRecord
  BY DEF Call, CallRecord, ActivityCall
<1>4. DOMAIN made = DOMAIN s /\ \A i \in DOMAIN s : made[i] = Call("eliminate", s[i], t)
  OBVIOUS
<1>5. made \in Seq(CallRecord)
  <2>1. made \in [1 .. Len(s) -> CallRecord]
    BY <1>1, <1>3
  <2> QED BY <2>1, <1>1
<1>6. Injective(made)
  <2> SUFFICES ASSUME NEW i \in DOMAIN s, NEW j \in DOMAIN s, made[i] = made[j] PROVE i = j
    BY <1>4 DEF Injective
  <2>1. s[i] = s[j]
    BY <1>1, <1>3, <1>4
  <2> QED BY <2>1 DEF Injective
<1>7. \A c : c \in ToSet(made) <=> \E b \in ToSet(s) : c = Call("eliminate", b, t)
  <2>1. \A c : c \in ToSet(made) <=> \E i \in DOMAIN made : c = made[i]
    BY DEF ToSet
  <2>2. \A l : l \in ToSet(s) <=> \E i \in DOMAIN s : l = s[i]
    BY DEF ToSet
  <2> QED BY <2>1, <2>2, <1>4
<1>8. \A b \in ToSet(s) : b \in Activity
  BY <1>1 DEF ToSet
<1> QED BY <1>1, <1>3, <1>4, <1>5, <1>6, <1>7, <1>8

LEMMA SingleCall ==
  ASSUME NEW c \in CallRecord
  PROVE  /\ <<c>> \in Seq(CallRecord) /\ Injective(<<c>>) /\ \A d : d \in ToSet(<<c>>) <=> d = c
         /\ \A i \in DOMAIN <<c>> : <<c>>[i] = c
<1>1. <<c>> \in Seq(CallRecord) /\ DOMAIN <<c>> = {1} /\ <<c>>[1] = c
  OBVIOUS
<1> QED BY <1>1 DEF Injective, ToSet

LEMMA Negatives ==
  ASSUME NEW a \in Activity
  PROVE  /\ SetSourcesNegativeStatus(a) \in Seq(CallRecord) /\ Injective(SetSourcesNegativeStatus(a))
         /\ \A c : c \in ToSet(SetSourcesNegativeStatus(a)) =>
                    c.op = "determine" /\ c.link \in ToSet(Sources[a]) /\ c.value = FALSE
         /\ \A l \in ToSet(Sources[a]) : \E c \in ToSet(SetSourcesNegativeStatus(a)) : c.op = "determine" /\ c.link = l
         /\ \A c, d \in ToSet(SetSourcesNegativeStatus(a)) : c.link = d.link => c = d
         /\ \A i \in DOMAIN SetSourcesNegativeStatus(a) : SetSourcesNegativeStatus(a)[i].op = "determine"
<1> DEFINE v == [l \in Link |-> FALSE]
<1>1. v \in [Link -> BOOLEAN] /\ \A l \in Link : v[l] = FALSE
  OBVIOUS
<1>2. \A i \in DOMAIN Sources[a] : Sources[a][i] \in Link
  BY Shapes
<1>3. SetSourcesNegativeStatus(a) = LinkCalls(a, v)
  BY <1>2 DEF SetSourcesNegativeStatus, LinkCalls
<1> HIDE DEF v
<1>4. /\ LinkCalls(a, v) \in Seq(CallRecord) /\ Injective(LinkCalls(a, v))
      /\ \A c : c \in ToSet(LinkCalls(a, v)) => c.op = "determine" /\ c.link \in ToSet(Sources[a]) /\ c.value = v[c.link]
      /\ \A l \in ToSet(Sources[a]) : \E c \in ToSet(LinkCalls(a, v)) : c.op = "determine" /\ c.link = l
      /\ \A c, d \in ToSet(LinkCalls(a, v)) : c.link = d.link => c = d
      /\ \A i \in DOMAIN LinkCalls(a, v) : LinkCalls(a, v)[i].op = "determine"
  BY <1>1, Determinations
<1>5. \A l \in ToSet(Sources[a]) : l \in Link
  BY SourceOf
<1> QED BY <1>1, <1>3, <1>4, <1>5

(* The effect of determining the links D that leave an activity. *)
LEMMA EffectOfNegatives ==
  ASSUME TypeOK, StackInv, CallsInv, UniqueInv, calls # <<>>, NEW a \in Activity, Then(SetSourcesNegativeStatus(a)),
         \A l \in ToSet(Sources[a]) : l \notin Determining,
         call.op \in {"targetDetermined", "eliminate"}
  PROVE  /\ calls' \in Seq(CallRecord) /\ StackInv'
         /\ \A c \in pending' : c \in pending \/ (c.op = "determine" /\ c.link \in ToSet(Sources[a]) /\ c.value = FALSE)
         /\ \A c \in pending : c = call \/ c \in pending'
         /\ \A c, d \in pending' : c.op = "determine" /\ d.op = "determine" /\ c.link = d.link => c = d
         /\ UNCHANGED <<Entering, Executing, Skipping, Leaving, Proceeding, Finishing, Ending, Looping>>
         /\ Eliminating' = Eliminating \ Top("eliminate")
         /\ Determining' = Determining \cup ToSet(Sources[a])
         /\ Notices' = Notices \ {call}
<1> DEFINE made == SetSourcesNegativeStatus(a)
           M == ToSet(made)
           D == ToSet(Sources[a])
<1>0. /\ made \in Seq(CallRecord) /\ Injective(made) /\ D \in SUBSET Link
      /\ \A c : c \in M => c.op = "determine" /\ c.link \in D /\ c.value = FALSE
      /\ \A l \in D : \E c \in M : c.op = "determine" /\ c.link = l
      /\ \A c, d \in M : c.link = d.link => c = d
      /\ \A i \in DOMAIN made : made[i].op = "determine"
      /\ Then(made)
  BY Negatives, SourceOf
<1>a. \A l \in D : l \notin Determining
  OBVIOUS
<1> HIDE DEF made, D
<1>1. \A m \in M : m \notin pending
  BY <1>0, <1>a DEF Determining
<1>2. \A m \in M : m \in pending => m = call
  BY <1>1
<1>3. \A i \in DOMAIN made : made[i].op = "targetDetermined" => i = 1
  BY <1>0
<1>4. /\ \A op, x : op # "determine" => x \notin Made(M, op)
      /\ \A x : x \notin MadeEnding(M)
      /\ \A l : l \in MadeDetermining(M) <=> l \in D
      /\ \A m \in M : m.op # "targetDetermined" /\ m.op # "branch"
  BY <1>0 DEF Made, MadeEnding, MadeDetermining
<1>5. Replaced(M)
  <2>1. Ordered(made)
    BY <1>0 DEF Ordered
  <2> QED BY <2>1, <1>0, <1>2, <1>3, Effect
<1>6. Looping \ {call} = Looping
  BY DEF Looping
<1> HIDE DEF M
<1>7. /\ UNCHANGED <<Entering, Executing, Skipping, Leaving, Proceeding, Finishing>>
      /\ Eliminating' = Eliminating \ Top("eliminate")
  BY <1>4, <1>5 DEF Top, Replaced
<1>8. Determining' = Determining \cup D
  BY <1>4, <1>5 DEF Replaced
<1>9. Notices' = Notices \ {call} /\ Looping' = Looping /\ Ending' = Ending
  BY <1>4, <1>5, <1>6 DEF Replaced
<1>10. \A c, d \in pending' : c.op = "determine" /\ d.op = "determine" /\ c.link = d.link => c = d
  <2>1. \A c \in M, d \in pending : d.op = "determine" => c.link # d.link
    BY <1>0, <1>a DEF Determining
  <2> QED BY <2>1, <1>0, <1>5 DEF UniqueInv, Replaced
<1>11. \A c \in pending' : c \in pending \/ (c.op = "determine" /\ c.link \in D /\ c.value = FALSE)
  BY <1>0, <1>5 DEF Replaced
<1> QED BY <1>5, <1>7, <1>8, <1>9, <1>10, <1>11 DEF D, Replaced

-----------------------------------------------------------------------------
(* Activity.enter keeps the invariant. *)

LEMMA EnterKeeps ==
  ASSUME FlowInv, Enter
  PROVE  FlowInv'
<1> DEFINE a == call.activity
           t == call.token
<1>0. /\ TypeOK /\ StackInv /\ CallsInv /\ WaitsInv /\ TokensInv /\ UniqueInv /\ PhaseInv
      /\ TouchInv /\ ActiveInv /\ EndedInv /\ LeftInv /\ SequenceInv /\ BranchInv /\ HoldInv
      /\ NodeInv /\ TargetInv /\ NoticeInv /\ LinkInv /\ MeaningInv /\ ChoiceInv
  BY Parts
<1>1. /\ calls # <<>> /\ call.op = "enter" /\ call \in pending /\ a \in Activity
      /\ t = TokenOf(a) /\ t \in DOMAIN parent /\ t \in Token
  BY <1>0, CallOnTop DEF Enter, Calling, ThreadOps
<1>2. /\ a \in Entering /\ phase[a] = "idle" /\ a \in Touched /\ a \notin Executing /\ a \notin Skipping
      /\ a \notin Eliminating /\ a \notin Proceeding /\ a \notin Ending /\ Eligible(a)
      /\ a \notin Leaving /\ a \notin Finishing /\ a \notin Waiting
  <2>1. a \in Entering
    BY <1>1, DoingTop
  <2> QED BY <2>1, <1>0, <1>1 DEF PhaseInv, Touched, MeaningInv, UniqueInv
<1>3. /\ \A x \in Activity : phase'[x] = IF x = a THEN "entered" ELSE phase[x]
      /\ \A u \in DOMAIN parent : node'[u] = IF u = t THEN a ELSE node[u]
      /\ \A l \in Link : targetToken'[l] = IF Target[l] = a THEN t ELSE targetToken[l]
      /\ UNCHANGED <<definition, parent, status, waiting>>
  BY <1>0, <1>1 DEF Enter, Reach, SetTargetsToken, Targets, TypeOK
<1>4. \E E, S \in SUBSET {a} :
        /\ calls' \in Seq(CallRecord) /\ StackInv'
        /\ \A c \in pending' : c \in pending \/ (c.op \in {"execute", "skip"} /\ c.activity = a /\ c.token = TokenOf(a))
        /\ \A c \in pending : c = call \/ c \in pending'
        /\ Executing' = Executing \cup E /\ Skipping' = Skipping \cup S
        /\ Entering' = Entering \ {a}
        /\ UNCHANGED <<Leaving, Proceeding, Eliminating, Finishing, Ending, Determining, Looping>>
        /\ \A c : c \notin Notices'
        /\ a \in E => a \notin S /\ Performed[a] /\ AreTargetsDetermined(a)
        /\ a \in S => ~ Performed[a] /\ AreTargetsDetermined(a)
        /\ \/ UNCHANGED <<ended, outcome>>
           \/ ended' = DOMAIN parent /\ outcome' = "faulted"
  <2>1. CASE AreTargetsDetermined(a) /\ EvaluateJoinCondition(a, t)
    <3>1. Top("enter") = {a}
      BY <1>1 DEF Top
    <3> QED BY <1>1, <1>2, <2>1, <3>1, Joining
  <2>2. CASE ~ AreTargetsDetermined(a) /\ Then(<<>>) /\ UNCHANGED <<ended, outcome>>
    <3>1. /\ calls' \in Seq(CallRecord) /\ StackInv'
          /\ \A d : d \in pending' <=> (d \in pending /\ d # call)
          /\ Executing' = Executing /\ Skipping' = Skipping
          /\ Entering' = Entering \ {a}
          /\ UNCHANGED <<Leaving, Proceeding, Eliminating, Finishing, Ending, Determining, Looping>>
          /\ Notices' = Notices \ {call}
      <4>1. Dropped
        BY <1>0, <1>1, <2>2, EffectOfNothing
      <4> QED BY <1>0, <1>1, <2>2, <4>1 DEF Dropped, Top, Looping
    <3>2. \A c \in Notices : c = call
      BY <1>0, <1>1, OnlyNotice
    <3>3. WITNESS {} \in SUBSET {a}, {} \in SUBSET {a}
    <3> QED BY <3>1, <3>2, <2>2
  <2> QED BY <2>1, <2>2 DEF Enter
<1>5. PICK E \in SUBSET {a}, S \in SUBSET {a} :
        /\ calls' \in Seq(CallRecord) /\ StackInv'
        /\ \A c \in pending' : c \in pending \/ (c.op \in {"execute", "skip"} /\ c.activity = a /\ c.token = TokenOf(a))
        /\ \A c \in pending : c = call \/ c \in pending'
        /\ Executing' = Executing \cup E /\ Skipping' = Skipping \cup S
        /\ Entering' = Entering \ {a}
        /\ UNCHANGED <<Leaving, Proceeding, Eliminating, Finishing, Ending, Determining, Looping>>
        /\ \A c : c \notin Notices'
        /\ a \in E => a \notin S /\ Performed[a] /\ AreTargetsDetermined(a)
        /\ a \in S => ~ Performed[a] /\ AreTargetsDetermined(a)
        /\ \/ UNCHANGED <<ended, outcome>>
           \/ ended' = DOMAIN parent /\ outcome' = "faulted"
  BY <1>4
<1> HIDE DEF a, t
<1>6. Waiting' = Waiting /\ Performed' = Performed
  BY <1>3, PerformedStays DEF Waiting, definition
<1>7. /\ Touched' = Touched /\ Opened' = Opened /\ Settled' = Settled
      /\ Active' = Active /\ Holders' = Holders /\ Awaiting' \subseteq Awaiting
  <2>1. Touched' = Touched
    BY <1>1, <1>2, <1>3, <1>5 DEF Touched
  <2>2. Opened' = Opened
    BY <1>1, <1>2, <1>3, <1>5 DEF Opened
  <2>3. Settled' = Settled
    BY <1>1, <1>2, <1>3, <1>5 DEF Settled
  <2>4. Active' = Active
    BY <1>1, <1>2, <1>3, <1>5 DEF Active
  <2>5. Holders' = Holders
    BY <1>1, <1>2, <1>3, <1>5, <1>6 DEF Holders
  <2>6. Awaiting' \subseteq Awaiting
    BY <1>1, <1>2, <1>3, <1>5 DEF Awaiting
  <2> QED BY <2>1, <2>2, <2>3, <2>4, <2>5, <2>6
<1>8. Entering' \subseteq Entering
  BY <1>5
<1>10. TypeOK'
  <2>1. node' \in [DOMAIN parent -> Activity \cup {None}]
    <3>1. node' = [node EXCEPT ![call.token] = call.activity]
      BY DEF Enter
    <3> QED BY <3>1, <1>0, <1>1 DEF TypeOK, a, t
  <2>2. targetToken' \in [Link -> DOMAIN parent \cup {None}]
    <3>1. targetToken' = [l \in Link |-> IF l \in Targets(a) THEN t ELSE targetToken[l]]
      BY DEF Enter, SetTargetsToken, a, t
    <3> QED BY <3>1, <1>0, <1>1 DEF TypeOK
  <2>3. phase' \in [Activity -> {"idle", "entered", "started", "left", "skipped", "dead"}]
    BY <1>0, <1>1 DEF TypeOK, Enter, Reach, a
  <2>4. ended' \subseteq DOMAIN parent /\ outcome' \in {"running", "completed", "faulted"}
    BY <1>0, <1>5 DEF TypeOK
  <2> QED BY <2>1, <2>2, <2>3, <2>4, <1>0, <1>3, <1>5 DEF TypeOK, CallRecord, definition
<1>11. CallsInv'
  BY <1>0, <1>1, <1>3, <1>5 DEF CallsInv, ThreadOps
<1>12. WaitsInv'
  BY <1>0, <1>3 DEF WaitsInv
<1>13. TokensInv'
  BY Domains, <1>0, <1>2, <1>3, <1>7 DEF TokensInv
<1>14. UniqueInv'
  BY <1>0, <1>1, <1>2, <1>5 DEF UniqueInv
<1>15. PhaseInv'
  BY Domains, <1>0, <1>1, <1>2, <1>3, <1>5, <1>6 DEF PhaseInv
<1>16. TouchInv'
  BY <1>0, <1>6, <1>7 DEF TouchInv
<1>17. ActiveInv'
  BY Domains, <1>0, <1>2, <1>3, <1>5, <1>7 DEF ActiveInv, definition
<1>18. EndedInv'
  BY Domains, <1>0, <1>2, <1>3, <1>5, <1>7 DEF EndedInv, TokensInv
<1>19. LeftInv'
  BY Domains, <1>0, <1>2, <1>3, <1>5, <1>7 DEF LeftInv
<1>20. SequenceInv'
  BY Domains, <1>0, <1>2, <1>3, <1>5, <1>7 DEF SequenceInv
<1>21. BranchInv'
  BY CallTypes, Domains, <1>0, <1>2, <1>3, <1>5, <1>7 DEF BranchInv
<1>22. HoldInv'
  BY <1>0, <1>7 DEF HoldInv
<1>23. NodeInv'
  <2>1. ASSUME NEW x \in Activity, phase'[x] = "entered"
        PROVE  TokenOf(x) \in DOMAIN parent /\ node'[TokenOf(x)] = x
    <3>1. x # a => x \in Holders /\ a \in Holders /\ phase[x] = "entered"
      BY <2>1, <1>1, <1>2, <1>3 DEF Holders
    <3>2. x # a => TokenOf(x) # TokenOf(a)
      BY <3>1, <1>0 DEF HoldInv, TokenOf
    <3> QED BY <3>1, <3>2, <1>0, <1>1, <1>3 DEF NodeInv
  <2>2. ASSUME NEW u \in DOMAIN parent, node'[u] # None
        PROVE  /\ phase'[node'[u]] # "idle"
               /\ node'[u] \in Basic /\ phase'[node'[u]] = "dead" => node'[u] \notin Awaiting'
    <3>1. node[u] \in Activity \cup {None}
      BY <1>0 DEF TypeOK
    <3> QED BY <2>2, <3>1, <1>0, <1>1, <1>2, <1>3, <1>7 DEF NodeInv
  <2>3. \A u \in DOMAIN parent : node'[u] \in Basic => node'[u] # None
    BY Shapes DEF Basic
  <2> QED BY <2>1, <2>2, <2>3, <1>3 DEF NodeInv
<1>24. TargetInv'
  BY Domains, <1>0, <1>1, <1>2, <1>3, <1>5 DEF TargetInv, AreTargetsDetermined, Targets
<1>25. NoticeInv'
  BY <1>5 DEF NoticeInv
<1>26. LinkInv'
  BY Domains, <1>0, <1>1, <1>2, <1>3, <1>5, <1>7, SourceOf DEF LinkInv
<1>27. MeaningInv'
  BY Domains, <1>0, <1>1, <1>2, <1>3, <1>5, <1>6 DEF MeaningInv, Eligible, definition
<1>28. ChoiceInv'
  BY <1>0, <1>3 DEF ChoiceInv, definition
<1>z. DeadInv /\ TakenInv /\ DoneInv /\ FiredInv
  BY FurtherParts
<1>29. DeadInv'
  BY Domains, <1>0, <1>z, <1>2, <1>3, <1>5 DEF DeadInv, PhaseInv
<1>30. TakenInv'
  BY Domains, <1>0, <1>z, <1>2, <1>3, <1>5, <1>6 DEF TakenInv, PhaseInv, definition
<1>31. DoneInv'
  BY Domains, <1>0, <1>z, <1>2, <1>3, <1>5, <1>7 DEF DoneInv, definition
<1>32. FiredInv'
  <2>1. \A c : c \notin Notices
    BY <1>0, <1>1, OnlyNotice DEF Notices
  <2>2. \A x : x \in Awaiting' <=> x \in Awaiting
    BY <2>1, <1>3, <1>5 DEF Awaiting
  <2> QED BY <2>2, Domains, <1>z, <1>2, <1>3, <1>5 DEF FiredInv
<1> QED BY <1>5, <1>10, <1>11, <1>12, <1>13, <1>14, <1>15, <1>16, <1>17, <1>18, <1>19, <1>20, <1>21, <1>22,
           <1>23, <1>24, <1>25, <1>26, <1>27, <1>28, <1>29, <1>30, <1>31, <1>32 DEF FlowInv

(* An operation on a token that has ended does nothing. *)
LEMMA CeasedKeeps ==
  ASSUME FlowInv, Ceased
  PROVE  FlowInv'
<1> DEFINE a == call.activity
           t == call.token
<1>0. /\ TypeOK /\ StackInv /\ CallsInv /\ WaitsInv /\ TokensInv /\ UniqueInv /\ PhaseInv
      /\ TouchInv /\ ActiveInv /\ EndedInv /\ LeftInv /\ SequenceInv /\ BranchInv /\ HoldInv
      /\ NodeInv /\ TargetInv /\ NoticeInv /\ LinkInv /\ MeaningInv /\ ChoiceInv
  BY Parts
<1>1. /\ calls # <<>> /\ call.op \in {"enter", "leave", "end", "skip"} /\ call \in pending
      /\ a \in Activity /\ t \in ended
  BY <1>0, CallOnTop DEF Ceased, Calling
<1>2. \A c \in Notices : c = call
  BY <1>0, <1>1, OnlyNotice
<1>3. UNCHANGED <<definition, tokens, links, waiting, phase, outcome>>
  BY DEF Ceased
<1>5. /\ calls' \in Seq(CallRecord) /\ StackInv'
      /\ \A c : c \in pending' => c \in pending
      /\ Entering' \subseteq Entering /\ Skipping' \subseteq Skipping /\ Leaving' \subseteq Leaving
      /\ Finishing' \subseteq Finishing /\ Ending' \subseteq Ending
      /\ UNCHANGED <<Executing, Proceeding, Eliminating, Determining, Looping>>
      /\ \A c : c \notin Notices'
  <2>1. Then(<<>>)
    BY DEF Ceased
  <2>2. Looping \ {call} = Looping
    BY <1>1 DEF Looping
  <2>e. Dropped
    BY <1>0, <1>1, <1>2, <2>1, <2>2, EffectOfNothing
  <2> QED BY <1>0, <1>1, <1>2, <2>1, <2>2, <2>e DEF Dropped, Top
<1> HIDE DEF a, t
<1>6. Waiting' = Waiting /\ Performed' = Performed
  BY <1>3, PerformedStays DEF Waiting, definition
<1>7. /\ Touched' \subseteq Touched /\ Opened' = Opened /\ Settled \subseteq Settled'
      /\ Active' \subseteq Active /\ Holders' \subseteq Holders /\ Awaiting' = Awaiting
  <2>1. Touched' \subseteq Touched
    BY <1>3, <1>5 DEF Touched
  <2>2. Opened' = Opened
    BY <1>3 DEF Opened
  <2>3. Settled \subseteq Settled'
    BY <1>3, <1>5 DEF Settled
  <2>4. Active' \subseteq Active
    BY <1>3, <1>5 DEF Active
  <2>5. Holders' \subseteq Holders
    BY <1>3, <1>5, <1>6 DEF Holders
  <2>6. \A c : c \notin Notices
    BY <1>1, <1>2 DEF Notices
  <2>7. Awaiting' = Awaiting
    BY <2>6, <1>3, <1>5 DEF Awaiting, links
  <2> QED BY <2>1, <2>2, <2>3, <2>4, <2>5, <2>7
<1>10. TypeOK'
  BY <1>0, <1>3, <1>5 DEF TypeOK, CallRecord, definition, tokens, links
<1>11. CallsInv'
  BY <1>0, <1>1, <1>3, <1>5 DEF CallsInv, ThreadOps, tokens
<1>12. WaitsInv'
  BY <1>0, <1>3 DEF WaitsInv, tokens
<1>13. TokensInv'
  BY Domains, <1>0, <1>2, <1>3, <1>7 DEF TokensInv, tokens
<1>14. UniqueInv'
  BY <1>0, <1>1, <1>2, <1>5 DEF UniqueInv
<1>15. PhaseInv'
  BY Domains, <1>0, <1>1, <1>2, <1>3, <1>5, <1>6 DEF PhaseInv
<1>16. TouchInv'
  BY Domains, <1>0, <1>2, <1>6, <1>7 DEF TouchInv
<1>17. ActiveInv'
  BY Domains, <1>0, <1>2, <1>3, <1>5, <1>7 DEF ActiveInv, definition
<1>18. EndedInv'
  BY Domains, <1>0, <1>2, <1>3, <1>5, <1>7 DEF EndedInv, tokens
<1>19. LeftInv'
  BY Domains, <1>0, <1>2, <1>3, <1>5, <1>7 DEF LeftInv
<1>20. SequenceInv'
  BY Domains, <1>0, <1>2, <1>3, <1>7 DEF SequenceInv
<1>21. BranchInv'
  BY CallTypes, Domains, <1>0, <1>2, <1>3, <1>5, <1>7 DEF BranchInv
<1>22. HoldInv'
  BY <1>0, <1>2, <1>7 DEF HoldInv
<1>23. NodeInv'
  <2>1. \A y \in Activity : phase'[y] = "entered" => TokenOf(y) \in DOMAIN parent /\ node[TokenOf(y)] = y
    BY <1>0, <1>2, <1>3 DEF NodeInv
  <2>2. ASSUME NEW tk \in DOMAIN parent, node[tk] # None
        PROVE  /\ phase'[node[tk]] # "idle"
               /\ node[tk] \in Basic /\ phase'[node[tk]] = "dead" => node[tk] \notin Awaiting'
    <3>1. node[tk] \in Activity
      BY <2>2, <1>0 DEF TypeOK
    <3> QED BY <2>2, <3>1, <1>0, <1>2, <1>3, <1>7 DEF NodeInv
  <2>3. \A tk \in DOMAIN parent : node[tk] \in Basic => node[tk] # None
    BY Shapes DEF Basic
  <2> QED BY <2>1, <2>2, <2>3, <1>3 DEF NodeInv, tokens
<1>24. TargetInv'
  BY Domains, <1>0, <1>1, <1>2, <1>3, <1>5 DEF TargetInv, links
<1>25. NoticeInv'
  BY <1>5 DEF NoticeInv
<1>26. LinkInv'
  BY Domains, <1>0, <1>1, <1>2, <1>3, <1>5, <1>7, SourceOf DEF LinkInv, links
<1>27. MeaningInv'
  BY Domains, <1>0, <1>1, <1>2, <1>3, <1>5, <1>6 DEF MeaningInv, Eligible, definition, links
<1>28. ChoiceInv'
  BY <1>0, <1>3 DEF ChoiceInv, definition
<1>z. DeadInv /\ TakenInv /\ DoneInv /\ FiredInv
  BY FurtherParts
<1>29. DeadInv'
  BY Domains, <1>0, <1>z, <1>2, <1>3, <1>5 DEF DeadInv, PhaseInv
<1>30. TakenInv'
  BY Domains, <1>0, <1>z, <1>2, <1>3, <1>5, <1>6 DEF TakenInv, PhaseInv, definition
<1>31. DoneInv'
  BY Domains, <1>0, <1>z, <1>2, <1>3, <1>5, <1>7 DEF DoneInv, definition
<1>32. FiredInv'
  BY Domains, <1>0, <1>z, <1>2, <1>3, <1>5, <1>7 DEF FiredInv, links
<1> QED BY <1>5, <1>10, <1>11, <1>12, <1>13, <1>14, <1>15, <1>16, <1>17, <1>18, <1>19, <1>20, <1>21, <1>22,
           <1>23, <1>24, <1>25, <1>26, <1>27, <1>28, <1>29, <1>30, <1>31, <1>32 DEF FlowInv

(* LinkInstance.statusDetermined keeps the invariant. *)
LEMMA StatusDeterminedKeeps ==
  ASSUME FlowInv, StatusDetermined
  PROVE  FlowInv'
<1> DEFINE l == call.link
           u == targetToken[call.link]
<1>0. /\ TypeOK /\ StackInv /\ CallsInv /\ WaitsInv /\ TokensInv /\ UniqueInv /\ PhaseInv
      /\ TouchInv /\ ActiveInv /\ EndedInv /\ LeftInv /\ SequenceInv /\ BranchInv /\ HoldInv
      /\ NodeInv /\ TargetInv /\ NoticeInv /\ LinkInv /\ MeaningInv /\ ChoiceInv
  BY Parts
<1>1. /\ calls # <<>> /\ call.op = "determine" /\ call \in pending /\ l \in Link /\ call.value \in BOOLEAN
  BY <1>0, CallOnTop DEF StatusDetermined, Calling
<1>2. /\ l \in Determining /\ status[l] = "unset" /\ Target[l] \in Activity /\ Source(l) \in Activity
      /\ call.value = (holds[l] /\ Performed[Source(l)])
      /\ u \in Token \cup {None}
      /\ \A c : c \notin Notices
      /\ u # None => \/ phase[Target[l]] = "entered" /\ u = TokenOf(Target[l])
                        /\ Target[l] \notin Executing /\ Target[l] \notin Skipping
                     \/ phase[Target[l]] = "dead" /\ Target[l] \in Basic
  <2>1. l \in Determining
    BY <1>1 DEF Determining
  <2>2. u \in Token \cup {None} /\ u \in DOMAIN parent \cup {None}
    BY <1>0, <1>1 DEF TypeOK
  <2>3. \A c : c \notin Notices
    BY <1>0, <1>1, OnlyNotice DEF Notices
  <2>4. status[l] = "unset"
    BY <1>0, <1>1, <2>1 DEF LinkInv
  <2> QED BY Domains, <1>0, <1>1, <2>1, <2>2, <2>3, <2>4 DEF TargetInv, MeaningInv
<1>3. /\ \A k \in Link : status'[k] = IF k = l THEN (IF call.value THEN "true" ELSE "false") ELSE status[k]
      /\ UNCHANGED <<definition, tokens, targetToken, waiting, phase, outcome>>
  BY <1>0, <1>1 DEF StatusDetermined, TypeOK
<1>5. /\ calls' \in Seq(CallRecord) /\ StackInv'
      /\ \A c \in pending' : c \in pending \/ (c.op = "targetDetermined" /\ c.activity = Target[l] /\ c.token = u /\ u # None)
      /\ Determining' = Determining \ {l}
      /\ UNCHANGED <<Entering, Executing, Skipping, Leaving, Proceeding, Eliminating, Finishing, Ending, Looping>>
      /\ \A c \in Notices' : c.op = "targetDetermined" /\ c.activity = Target[l] /\ c.token = u /\ u # None
      /\ u # None => \E c \in Notices' : c.activity = Target[l]
  <2>2. Looping \ {call} = Looping /\ Ending = {b \in Ending : ~ (call.op = "end" /\ call.activity \in Flows /\ call.token = <<"branch", b>>)}
    BY <1>1 DEF Looping
  <2>3. {k \in Determining : ~ (call.op = "determine" /\ call.link = k)} = Determining \ {l}
    BY <1>1
  <2>4. CASE u = None
    <3>1. Then(<<>>)
      BY <2>4 DEF StatusDetermined
    <3> HIDE DEF l, u
    <3>e. Dropped
      BY <1>0, <1>1, <1>2, <2>2, <2>3, <2>4, <3>1, EffectOfNothing
    <3> QED BY <1>0, <1>1, <1>2, <2>2, <2>3, <2>4, <3>1, <3>e DEF Dropped, Top
  <2>5. CASE u # None
    <3> DEFINE c == Call("targetDetermined", Target[l], u)
    <3>1. c \in ActivityCall /\ c.op = "targetDetermined" /\ c.activity = Target[l] /\ c.token = u
      BY <1>2, <2>5 DEF Call, ActivityCall
    <3>2. c \notin pending
      BY <1>2, <3>1 DEF Notices
    <3>3. Then(<<c>>)
      BY <2>5 DEF StatusDetermined
    <3> HIDE DEF c, l, u
    <3>4. /\ calls' \in Seq(CallRecord) /\ StackInv'
          /\ \A d : d \in pending' <=> (d \in pending /\ d # call) \/ d = c
          /\ Notices' = (Notices \ {call}) \cup {c}
          /\ Determining' = Determining \ {l}
          /\ UNCHANGED <<Entering, Executing, Skipping, Leaving, Proceeding, Eliminating, Finishing, Ending, Looping>>
      <4>1. ReplacedBy(c)
        BY <1>0, <1>1, <2>2, <2>3, <3>1, <3>2, <3>3, EffectOfCall
      <4> QED BY <1>0, <1>1, <2>2, <2>3, <3>1, <3>2, <3>3, <4>1 DEF ReplacedBy, Top, When
    <3> QED BY <1>2, <2>5, <3>1, <3>4
  <2> QED BY <2>4, <2>5
<1> HIDE DEF l, u
<1>6. Waiting' = Waiting /\ Performed' = Performed
  BY <1>3, PerformedStays DEF Waiting, definition
<1>7. /\ UNCHANGED <<Touched, Opened, Settled, Active, Holders>>
      /\ Awaiting' \subseteq Awaiting
  <2>1. Touched' = Touched
    BY <1>3, <1>5 DEF Touched
  <2>2. Opened' = Opened
    BY <1>3 DEF Opened
  <2>3. Settled' = Settled
    BY <1>3, <1>5 DEF Settled
  <2>4. Active' = Active
    BY <1>3, <1>5 DEF Active
  <2>5. Holders' = Holders
    BY <1>3, <1>5, <1>6 DEF Holders
  <2>6. Awaiting' \subseteq Awaiting
    BY <1>1, <1>2, <1>3, <1>5 DEF Awaiting, Targets
  <2> QED BY <2>1, <2>2, <2>3, <2>4, <2>5, <2>6
<1>10. TypeOK'
  <2>1. status' \in [Link -> {"absent", "unset", "true", "false"}]
    BY <1>0, <1>1 DEF TypeOK, StatusDetermined, l
  <2> QED BY <2>1, <1>0, <1>3, <1>5 DEF TypeOK, CallRecord, definition, tokens
<1>11. CallsInv'
  BY <1>0, <1>1, <1>2, <1>3, <1>5 DEF CallsInv, ThreadOps, tokens, TypeOK, l, u
<1>12. WaitsInv'
  BY <1>0, <1>3 DEF WaitsInv, tokens
<1>13. TokensInv'
  BY Domains, <1>0, <1>2, <1>3, <1>7 DEF TokensInv, tokens
<1>14. UniqueInv'
  BY <1>0, <1>5 DEF UniqueInv
<1>15. PhaseInv'
  BY Domains, <1>0, <1>1, <1>2, <1>3, <1>5, <1>6 DEF PhaseInv
<1>16. TouchInv'
  BY Domains, <1>0, <1>2, <1>6, <1>7 DEF TouchInv
<1>17. ActiveInv'
  BY Domains, <1>0, <1>2, <1>3, <1>5, <1>7 DEF ActiveInv, definition
<1>18. EndedInv'
  BY Domains, <1>0, <1>2, <1>3, <1>5, <1>7 DEF EndedInv, tokens
<1>19. LeftInv'
  BY Domains, <1>0, <1>2, <1>3, <1>5, <1>7 DEF LeftInv
<1>20. SequenceInv'
  BY Domains, <1>0, <1>2, <1>3, <1>7 DEF SequenceInv
<1>21. BranchInv'
  BY CallTypes, Domains, <1>0, <1>2, <1>3, <1>5, <1>7 DEF BranchInv
<1>22. HoldInv'
  BY <1>0, <1>2, <1>7 DEF HoldInv
<1>23. NodeInv'
  <2>1. \A y \in Activity : phase'[y] = "entered" => TokenOf(y) \in DOMAIN parent /\ node[TokenOf(y)] = y
    BY <1>0, <1>2, <1>3 DEF NodeInv
  <2>2. ASSUME NEW tk \in DOMAIN parent, node[tk] # None
        PROVE  /\ phase'[node[tk]] # "idle"
               /\ node[tk] \in Basic /\ phase'[node[tk]] = "dead" => node[tk] \notin Awaiting'
    <3>1. node[tk] \in Activity
      BY <2>2, <1>0 DEF TypeOK
    <3> QED BY <2>2, <3>1, <1>0, <1>2, <1>3, <1>7 DEF NodeInv
  <2>3. \A tk \in DOMAIN parent : node[tk] \in Basic => node[tk] # None
    BY Shapes DEF Basic
  <2> QED BY <2>1, <2>2, <2>3, <1>3 DEF NodeInv, tokens
<1>24. TargetInv'
  BY Domains, <1>0, <1>1, <1>2, <1>3, <1>5 DEF TargetInv, links
<1>25. NoticeInv'
  BY Domains, <1>0, <1>2, <1>3, <1>5 DEF NoticeInv
<1>26. LinkInv'
  BY Domains, <1>0, <1>1, <1>2, <1>3, <1>5, <1>7, SourceOf DEF LinkInv, links
<1>27. MeaningInv'
  <2>1. /\ \A x \in Activity : phase'[x] \in {"skipped", "dead"} \/ x \in Skipping' \/ x \in Eliminating' => ~ Performed'[x]
        /\ \A x \in Activity : phase'[x] \in {"started", "left"} \/ x \in Executing' => Performed'[x]
    BY <1>0, <1>3, <1>5, <1>6 DEF MeaningInv
  <2>2. \A x \in Activity : phase'[x] = "entered" \/ x \in Entering' => Eligible(x)'
    BY <1>0, <1>3, <1>5, <1>6 DEF MeaningInv, Eligible, definition
  <2>3. \A k \in Link : /\ status'[k] = "true" => holds[k] /\ Performed[Source(k)]
                        /\ status'[k] = "false" => ~ (holds[k] /\ Performed[Source(k)])
    BY <1>0, <1>1, <1>2, <1>3 DEF MeaningInv
  <2>4. \A c \in pending' : c.op = "determine" => c.value = (holds[c.link] /\ Performed[Source(c.link)])
    BY <1>0, <1>5 DEF MeaningInv
  <2> QED BY <2>1, <2>2, <2>3, <2>4, <1>3, <1>6 DEF MeaningInv, definition
<1>28. ChoiceInv'
  BY <1>0, <1>3 DEF ChoiceInv, definition
<1>z. DeadInv /\ TakenInv /\ DoneInv /\ FiredInv
  BY FurtherParts
<1>29. DeadInv'
  BY Domains, <1>0, <1>z, <1>2, <1>3, <1>5 DEF DeadInv, PhaseInv
<1>30. TakenInv'
  BY Domains, <1>0, <1>z, <1>2, <1>3, <1>5, <1>6 DEF TakenInv, PhaseInv, definition
<1>31. DoneInv'
  BY Domains, <1>0, <1>z, <1>2, <1>3, <1>5, <1>7 DEF DoneInv, definition
<1>32. FiredInv'
  <2>1. ASSUME NEW k \in Link, k # l,
               \/ phase[Source(k)] = "left"
               \/ phase[Source(k)] = "dead" /\ (Source(k) \notin Basic \/ Source(k) \notin Awaiting')
        PROVE  status[k] \in {"true", "false"} \/ k \in Determining
    <3>1. CASE phase[Source(k)] = "left" \/ Source(k) \notin Basic \/ Source(k) \notin Awaiting
      BY <2>1, <3>1, <1>z DEF FiredInv
    <3>2. CASE phase[Source(k)] = "dead" /\ Source(k) \in Basic /\ Source(k) \in Awaiting /\ Source(k) \notin Awaiting'
      <4>1. PICK j \in Targets(Source(k)) : status[j] = "unset"
        BY <3>2, <1>2 DEF Awaiting
      <4>2. j = l
        BY <4>1, <3>2, <1>3, Domains DEF Awaiting, Targets
      <4>3. targetToken[l] # None
        BY <4>1, <4>2, <3>2, <1>0, <1>1 DEF TargetInv, Targets
      <4>4. \E c \in Notices' : c.activity = Source(k)
        BY <4>1, <4>2, <4>3, <1>5 DEF Targets, u, l
      <4> QED BY <4>4, <3>2, Domains DEF Awaiting
    <3> QED BY <2>1, <3>1, <3>2
  <2>2. status'[l] \in {"true", "false"}
    BY <1>1, <1>3
  <2>3. \A k \in Link : k # l => status'[k] = status[k] /\ (k \in Determining' <=> k \in Determining)
    BY <1>3, <1>5
  <2>4. phase' = phase
    BY <1>3
  <2> QED BY <2>1, <2>2, <2>3, <2>4 DEF FiredInv
<1> QED BY <1>5, <1>10, <1>11, <1>12, <1>13, <1>14, <1>15, <1>16, <1>17, <1>18, <1>19, <1>20, <1>21, <1>22,
           <1>23, <1>24, <1>25, <1>26, <1>27, <1>28, <1>29, <1>30, <1>31, <1>32 DEF FlowInv

(* Activity.targetDetermined keeps the invariant. *)
LEMMA TargetDeterminedKeeps ==
  ASSUME FlowInv, TargetDetermined
  PROVE  FlowInv'
<1> DEFINE a == call.activity
           t == call.token
<1>0. /\ TypeOK /\ StackInv /\ CallsInv /\ WaitsInv /\ TokensInv /\ UniqueInv /\ PhaseInv
      /\ TouchInv /\ ActiveInv /\ EndedInv /\ LeftInv /\ SequenceInv /\ BranchInv /\ HoldInv
      /\ NodeInv /\ TargetInv /\ NoticeInv /\ LinkInv /\ MeaningInv /\ ChoiceInv
  BY Parts
<1>1. /\ calls # <<>> /\ call.op = "targetDetermined" /\ call \in pending /\ a \in Activity
      /\ t \in DOMAIN parent /\ t \in Token /\ call \in Notices
  BY <1>0, CallOnTop, DoingTop DEF TargetDetermined, Calling
<1>2. /\ a \in Awaiting /\ a \in Touched
      /\ \/ phase[a] = "entered" /\ t = TokenOf(a) /\ a \notin Executing /\ a \notin Skipping
         \/ phase[a] = "dead" /\ a \in Basic
      /\ phase[a] = "dead" => node[t] # a
      /\ phase[a] = "entered" => node[t] = a
      /\ \A c \in Notices : c = call
  <2>1. a \in Awaiting
    BY <1>1 DEF Awaiting
  <2>2. \/ phase[a] = "entered" /\ t = TokenOf(a) /\ a \notin Executing /\ a \notin Skipping
        \/ phase[a] = "dead" /\ a \in Basic
    BY <1>0, <1>1 DEF NoticeInv
  <2>3. a \in Touched
    BY <1>1, <2>2 DEF Touched
  <2>4. \A c \in Notices : c = call
    BY <1>0, <1>1, OnlyNotice
  <2> QED BY <1>0, <1>1, <2>1, <2>2, <2>3, <2>4 DEF NodeInv
<1>3. UNCHANGED <<definition, parent, node, links, waiting, phase>>
  BY DEF TargetDetermined
<1>4. \E E, S \in SUBSET {a}, D \in SUBSET Link :
        /\ calls' \in Seq(CallRecord) /\ StackInv'
        /\ \A c \in pending' : \/ c \in pending
                               \/ c.op \in {"execute", "skip"} /\ c.activity = a /\ c.token = TokenOf(a) /\ phase[a] = "entered"
                               \/ c.op = "determine" /\ c.link \in D /\ c.value = FALSE
        /\ \A c, d \in pending' : c.op = "determine" /\ d.op = "determine" /\ c.link = d.link => c = d
        /\ Executing' = Executing \cup E /\ Skipping' = Skipping \cup S /\ Determining' = Determining \cup D
        /\ UNCHANGED <<Entering, Leaving, Proceeding, Eliminating, Finishing, Ending, Looping>>
        /\ \A c : c \notin Notices'
        /\ a \in E => a \notin S /\ Performed[a] /\ AreTargetsDetermined(a) /\ phase[a] = "entered"
        /\ a \in S => ~ Performed[a] /\ AreTargetsDetermined(a) /\ phase[a] = "entered"
        /\ phase[a] = "dead" /\ AreTargetsDetermined(a) => \A l \in Link : Source(l) = a => l \in D
        /\ \A l \in D : /\ l \in Link /\ Source(l) = a /\ l \notin Determining /\ status[l] = "unset"
                        /\ phase[a] = "dead" /\ a \in Basic /\ AreTargetsDetermined(a)
        /\ \/ UNCHANGED <<ended, outcome>>
           \/ ended' = DOMAIN parent /\ outcome' = "faulted"
  <2>0. Looping \ {call} = Looping
    BY <1>1 DEF Looping
  <2>1. CASE AreTargetsDetermined(a) /\ node[t] = a /\ EvaluateJoinCondition(a, t)
    <3>1. phase[a] = "entered" /\ Eligible(a) /\ Top("enter") = {} /\ t = TokenOf(a) /\ a \notin Executing /\ a \notin Skipping
      BY <1>0, <1>1, <1>2, <2>1 DEF MeaningInv, Top
    <3>2. \E E, S \in SUBSET {a} :
           /\ calls' \in Seq(CallRecord) /\ StackInv'
           /\ \A c \in pending' : c \in pending \/ (c.op \in {"execute", "skip"} /\ c.activity = a /\ c.token = TokenOf(a))
           /\ \A c \in pending : c = call \/ c \in pending'
           /\ Executing' = Executing \cup E /\ Skipping' = Skipping \cup S
           /\ Entering' = Entering \ Top("enter")
           /\ UNCHANGED <<Leaving, Proceeding, Eliminating, Finishing, Ending, Determining, Looping>>
           /\ \A c : c \notin Notices'
           /\ a \in E => a \notin S /\ Performed[a]
           /\ a \in S => ~ Performed[a]
           /\ \/ UNCHANGED <<ended, outcome>>
              \/ ended' = DOMAIN parent /\ outcome' = "faulted"
      <4> HIDE DEF a
      <4> QED BY <1>1, <1>2, <2>1, <3>1, Joining DEF a
    <3>3. PICK E \in SUBSET {a}, S \in SUBSET {a} :
           /\ calls' \in Seq(CallRecord) /\ StackInv'
           /\ \A c \in pending' : c \in pending \/ (c.op \in {"execute", "skip"} /\ c.activity = a /\ c.token = TokenOf(a))
           /\ \A c \in pending : c = call \/ c \in pending'
           /\ Executing' = Executing \cup E /\ Skipping' = Skipping \cup S
           /\ Entering' = Entering \ Top("enter")
           /\ UNCHANGED <<Leaving, Proceeding, Eliminating, Finishing, Ending, Determining, Looping>>
           /\ \A c : c \notin Notices'
           /\ a \in E => a \notin S /\ Performed[a]
           /\ a \in S => ~ Performed[a]
           /\ \/ UNCHANGED <<ended, outcome>>
              \/ ended' = DOMAIN parent /\ outcome' = "faulted"
      BY <3>2
    <3>4. WITNESS E \in SUBSET {a}, S \in SUBSET {a}, {} \in SUBSET Link
    <3> QED BY <3>1, <3>3, <2>1, <1>0 DEF UniqueInv
  <2>2. CASE Then(<<>>) /\ UNCHANGED <<ended, outcome>> /\ (~ AreTargetsDetermined(a) \/ a \notin Basic)
    <3>1. /\ calls' \in Seq(CallRecord) /\ StackInv'
          /\ \A c : c \in pending' <=> c \in pending /\ c # call
          /\ UNCHANGED <<Entering, Executing, Skipping, Leaving, Proceeding, Eliminating, Finishing, Ending, Determining, Looping>>
          /\ Notices' = Notices \ {call}
      <4>1. Dropped
        BY <1>0, <1>1, <2>0, <2>2, EffectOfNothing
      <4> QED BY <1>0, <1>1, <2>0, <2>2, <4>1 DEF Dropped, Top
    <3>2. WITNESS {} \in SUBSET {a}, {} \in SUBSET {a}, {} \in SUBSET Link
    <3> QED BY <3>1, <2>2, <1>0, <1>2 DEF UniqueInv
  <2>3. CASE /\ AreTargetsDetermined(a) /\ node[t] # a /\ a \in Basic
             /\ Then(SetSourcesNegativeStatus(a)) /\ UNCHANGED <<ended, outcome>>
    <3> DEFINE D == ToSet(Sources[a])
    <3>1. phase[a] = "dead"
      BY <1>2, <2>3
    <3>3. /\ \A l \in D : l \in Link /\ Source(l) = a
          /\ \A l \in Link : Source(l) = a => l \in D
      BY <1>1, SourceOf
    <3>6. \A l \in D : l \notin Determining /\ status[l] = "unset"
      <4>1. \A l \in D : status[l] # "absent"
        BY <1>0, <1>2, LinksPresent
      <4>2. \A l \in D : status[l] \in {"absent", "unset", "true", "false"}
        BY <1>0, <3>3 DEF TypeOK
      <4>3. \A l \in D : l \notin Determining /\ status[l] \notin {"true", "false"}
        BY <1>0, <1>2, <3>3, <2>3 DEF LinkInv
      <4> QED BY <4>1, <4>2, <4>3
    <3>7. /\ calls' \in Seq(CallRecord) /\ StackInv'
          /\ \A c \in pending' : c \in pending \/ (c.op = "determine" /\ c.link \in D /\ c.value = FALSE)
          /\ \A c, d \in pending' : c.op = "determine" /\ d.op = "determine" /\ c.link = d.link => c = d
          /\ UNCHANGED <<Entering, Executing, Skipping, Leaving, Proceeding, Finishing, Ending, Looping>>
          /\ Eliminating' = Eliminating \ Top("eliminate")
          /\ Determining' = Determining \cup D
          /\ Notices' = Notices \ {call}
      BY <1>0, <1>1, <2>3, <3>6, EffectOfNegatives
    <3>8. Eliminating' = Eliminating /\ \A c : c \notin Notices'
      BY <3>7, <1>1, <1>2 DEF Top
    <3>9. WITNESS {} \in SUBSET {a}, {} \in SUBSET {a}, D \in SUBSET Link
    <3> HIDE DEF D
    <3> QED BY <3>1, <3>3, <3>6, <3>7, <3>8, <2>3
  <2> QED BY <1>2, <2>1, <2>2, <2>3 DEF TargetDetermined
<1>5. PICK E \in SUBSET {a}, S \in SUBSET {a}, D \in SUBSET Link :
        /\ calls' \in Seq(CallRecord) /\ StackInv'
        /\ \A c \in pending' : \/ c \in pending
                               \/ c.op \in {"execute", "skip"} /\ c.activity = a /\ c.token = TokenOf(a) /\ phase[a] = "entered"
                               \/ c.op = "determine" /\ c.link \in D /\ c.value = FALSE
        /\ \A c, d \in pending' : c.op = "determine" /\ d.op = "determine" /\ c.link = d.link => c = d
        /\ Executing' = Executing \cup E /\ Skipping' = Skipping \cup S /\ Determining' = Determining \cup D
        /\ UNCHANGED <<Entering, Leaving, Proceeding, Eliminating, Finishing, Ending, Looping>>
        /\ \A c : c \notin Notices'
        /\ a \in E => a \notin S /\ Performed[a] /\ AreTargetsDetermined(a) /\ phase[a] = "entered"
        /\ a \in S => ~ Performed[a] /\ AreTargetsDetermined(a) /\ phase[a] = "entered"
        /\ phase[a] = "dead" /\ AreTargetsDetermined(a) => \A l \in Link : Source(l) = a => l \in D
        /\ \A l \in D : /\ l \in Link /\ Source(l) = a /\ l \notin Determining /\ status[l] = "unset"
                        /\ phase[a] = "dead" /\ a \in Basic /\ AreTargetsDetermined(a)
        /\ \/ UNCHANGED <<ended, outcome>>
           \/ ended' = DOMAIN parent /\ outcome' = "faulted"
  BY <1>4
<1> HIDE DEF a, t
<1>6. Waiting' = Waiting /\ Performed' = Performed
  BY <1>3, PerformedStays DEF Waiting, definition
<1>7. /\ UNCHANGED <<Touched, Opened, Settled, Active, Holders>>
      /\ Awaiting' \subseteq Awaiting /\ (AreTargetsDetermined(a) => a \notin Awaiting')
  <2>1. Touched' = Touched
    BY <1>3, <1>5 DEF Touched
  <2>2. Opened' = Opened
    BY <1>3 DEF Opened
  <2>3. Settled' = Settled
    BY <1>3, <1>5 DEF Settled
  <2>4. Active' = Active
    BY <1>3, <1>5 DEF Active
  <2>5. Holders' = Holders
    BY <1>3, <1>5, <1>6 DEF Holders
  <2>6. Awaiting' \subseteq Awaiting /\ (AreTargetsDetermined(a) => a \notin Awaiting')
    BY <1>3, <1>5 DEF Awaiting, AreTargetsDetermined, links
  <2> QED BY <2>1, <2>2, <2>3, <2>4, <2>5, <2>6
<1>10. TypeOK'
  BY <1>0, <1>3, <1>5 DEF TypeOK, CallRecord, definition, links
<1>11. CallsInv'
  BY <1>0, <1>1, <1>2, <1>3, <1>5 DEF CallsInv, ThreadOps
<1>12. WaitsInv'
  BY <1>0, <1>3 DEF WaitsInv, tokens
<1>13. TokensInv'
  BY Domains, <1>0, <1>2, <1>3, <1>7 DEF TokensInv, tokens
<1>14. UniqueInv'
  BY <1>0, <1>1, <1>2, <1>5 DEF UniqueInv
<1>15. PhaseInv'
  BY Domains, <1>0, <1>1, <1>2, <1>3, <1>5, <1>6 DEF PhaseInv
<1>16. TouchInv'
  BY Domains, <1>0, <1>2, <1>6, <1>7 DEF TouchInv
<1>17. ActiveInv'
  BY Domains, <1>0, <1>2, <1>3, <1>5, <1>7 DEF ActiveInv, definition
<1>18. EndedInv'
  BY Domains, <1>0, <1>3, <1>5, <1>7 DEF EndedInv, TokensInv
<1>19. LeftInv'
  BY Domains, <1>0, <1>2, <1>3, <1>5, <1>7 DEF LeftInv
<1>20. SequenceInv'
  BY Domains, <1>0, <1>2, <1>3, <1>7 DEF SequenceInv
<1>21. BranchInv'
  BY CallTypes, Domains, <1>0, <1>2, <1>3, <1>5, <1>7 DEF BranchInv
<1>22. HoldInv'
  BY <1>0, <1>2, <1>7 DEF HoldInv
<1>23. NodeInv'
  <2>1. \A y \in Activity : phase'[y] = "entered" => TokenOf(y) \in DOMAIN parent /\ node[TokenOf(y)] = y
    BY <1>0, <1>2, <1>3 DEF NodeInv
  <2>2. ASSUME NEW tk \in DOMAIN parent, node[tk] # None
        PROVE  /\ phase'[node[tk]] # "idle"
               /\ node[tk] \in Basic /\ phase'[node[tk]] = "dead" => node[tk] \notin Awaiting'
    <3>1. node[tk] \in Activity
      BY <2>2, <1>0 DEF TypeOK
    <3> QED BY <2>2, <3>1, <1>0, <1>2, <1>3, <1>7 DEF NodeInv
  <2>3. \A tk \in DOMAIN parent : node[tk] \in Basic => node[tk] # None
    BY Shapes DEF Basic
  <2> QED BY <2>1, <2>2, <2>3, <1>3 DEF NodeInv, tokens
<1>24. TargetInv'
  BY Domains, <1>0, <1>1, <1>2, <1>3, <1>5 DEF TargetInv, links, AreTargetsDetermined, Targets
<1>25. NoticeInv'
  BY <1>5 DEF NoticeInv
<1>26. LinkInv'
  BY Domains, <1>0, <1>1, <1>2, <1>3, <1>5, <1>7, SourceOf DEF LinkInv, links
<1>27. MeaningInv'
  BY Domains, <1>0, <1>1, <1>2, <1>3, <1>5, <1>6 DEF MeaningInv, Eligible, definition, links
<1>28. ChoiceInv'
  BY <1>0, <1>3 DEF ChoiceInv, definition
<1>z. DeadInv /\ TakenInv /\ DoneInv /\ FiredInv
  BY FurtherParts
<1>29. DeadInv'
  BY Domains, <1>0, <1>z, <1>2, <1>3, <1>5 DEF DeadInv, PhaseInv
<1>30. TakenInv'
  BY Domains, <1>0, <1>z, <1>2, <1>3, <1>5, <1>6 DEF TakenInv, PhaseInv, definition
<1>31. DoneInv'
  BY Domains, <1>0, <1>z, <1>2, <1>3, <1>5, <1>7 DEF DoneInv, definition
<1>32. FiredInv'
  <2>1. \A x \in Activity : x # a => (x \in Awaiting' <=> x \in Awaiting)
    BY <1>2, <1>3, <1>5 DEF Awaiting, links, a
  <2>2. a \in Awaiting' <=> ~ AreTargetsDetermined(a)
    BY <1>1, <1>3, <1>5 DEF Awaiting, AreTargetsDetermined, links
  <2> SUFFICES ASSUME NEW l \in Link,
                      \/ phase[Source(l)] = "left"
                      \/ phase[Source(l)] = "dead" /\ (Source(l) \notin Basic \/ Source(l) \notin Awaiting')
               PROVE  status[l] \in {"true", "false"} \/ l \in Determining'
    BY <1>3 DEF FiredInv, links
  <2>3. CASE Source(l) # a
    BY <2>1, <2>3, <1>5, <1>z, Domains DEF FiredInv
  <2>4. CASE Source(l) = a
    BY <2>2, <2>4, <1>2, <1>5
  <2> QED BY <2>3, <2>4
<1> QED BY <1>5, <1>10, <1>11, <1>12, <1>13, <1>14, <1>15, <1>16, <1>17, <1>18, <1>19, <1>20, <1>21, <1>22,
           <1>23, <1>24, <1>25, <1>26, <1>27, <1>28, <1>29, <1>30, <1>31, <1>32 DEF FlowInv

-----------------------------------------------------------------------------
(* Execution. *)

(* The activity that is executed next has been entered, its links are      *)
(* determined and nothing within it has been reached.                      *)
LEMMA ExecuteTop ==
  ASSUME FlowInv, calls # <<>>, call.op = "execute", NEW a, a = call.activity
  PROVE  /\ call \in pending /\ a \in Activity /\ call \in ActivityCall
         /\ call.token = TokenOf(a) /\ call.token \in DOMAIN parent /\ call.token \in Token
         /\ a \in Executing /\ phase[a] = "entered" /\ Performed[a] /\ a \in Touched
         /\ a \notin Entering /\ a \notin Skipping /\ a \notin Leaving /\ a \notin Proceeding
         /\ a \notin Eliminating /\ a \notin Finishing /\ a \notin Ending /\ a \notin Waiting
         /\ \A x \in ChildSet(a) : x \in Activity /\ x # a /\ x # Root /\ Structure(x) = a /\ x \notin Touched
         /\ \A x \in Touched : x # Root => Structure(x) # a
         /\ \A l \in Targets(a) : status[l] # "unset"
         /\ \A l \in Targets(a) : status[l] # "absent"
         /\ a \notin Awaiting
         /\ \A c : c \notin Notices
         /\ Top("enter") = {} /\ Top("execute") = {a} /\ Top("skip") = {} /\ Top("leave") = {} /\ Top("proceed") = {}
         /\ Top("eliminate") = {} /\ Top("end") = {}
         /\ Looping \ {call} = Looping
<1>0. /\ TypeOK /\ StackInv /\ CallsInv /\ UniqueInv /\ PhaseInv /\ TouchInv /\ TargetInv /\ MeaningInv /\ LinkInv
  BY Parts
<1>1. /\ call \in pending /\ a \in Activity /\ call \in ActivityCall
      /\ call.token = TokenOf(a) /\ call.token \in DOMAIN parent /\ call.token \in Token
  BY <1>0, CallOnTop DEF ThreadOps
<1>2. a \in Executing
  BY <1>1, DoingTop
<1>3. /\ phase[a] = "entered" /\ Performed[a] /\ a \in Touched
      /\ a \notin Entering /\ a \notin Skipping /\ a \notin Leaving /\ a \notin Proceeding
      /\ a \notin Eliminating /\ a \notin Finishing /\ a \notin Ending /\ a \notin Waiting
  BY <1>0, <1>1, <1>2 DEF PhaseInv, UniqueInv, MeaningInv, Touched
<1>4. \A x \in Touched : x # Root => Structure(x) # a
  BY <1>0, <1>3 DEF TouchInv, Opened
<1>5. \A x \in ChildSet(a) : x \in Activity /\ x # a /\ x # Root /\ Structure(x) = a /\ x \notin Touched
  BY <1>1, <1>3, <1>4, StructureOfChild
<1>6. \A l \in Targets(a) : status[l] # "unset"
  BY <1>0, <1>2, <1>3 DEF TargetInv, Targets
<1>7. \A c : c \notin Notices
  BY <1>0, OnlyNotice DEF Notices
<1>8. a \notin Awaiting
  BY <1>6, <1>7 DEF Awaiting
<1>9. \A l \in Targets(a) : status[l] # "absent"
  BY <1>0, <1>3, LinksPresent
<1>10. /\ Top("enter") = {} /\ Top("execute") = {a} /\ Top("skip") = {} /\ Top("leave") = {} /\ Top("proceed") = {}
       /\ Top("eliminate") = {} /\ Top("end") = {}
  BY DEF Top
<1>11. Looping \ {call} = Looping
  BY DEF Looping
<1> QED BY <1>1, <1>2, <1>3, <1>4, <1>5, <1>6, <1>7, <1>8, <1>9, <1>10, <1>11

(* A basic activity that completes at once. *)
LEMMA ExecuteBasicKeeps ==
  ASSUME FlowInv, ExecuteBasic, call.activity \notin receives
  PROVE  FlowInv'
<1> DEFINE a == call.activity
           t == call.token
<1>0. /\ TypeOK /\ StackInv /\ CallsInv /\ WaitsInv /\ TokensInv /\ UniqueInv /\ PhaseInv
      /\ TouchInv /\ ActiveInv /\ EndedInv /\ LeftInv /\ SequenceInv /\ BranchInv /\ HoldInv
      /\ NodeInv /\ TargetInv /\ NoticeInv /\ LinkInv /\ MeaningInv /\ ChoiceInv
  BY Parts
<1>1. calls # <<>> /\ call.op = "execute" /\ Kind[a] = "basic" /\ a \notin Flows /\ a \in Basic /\ a \notin receives
  BY DEF ExecuteBasic, Calling, Basic, Flows
<1>2. /\ call \in pending /\ a \in Activity /\ call \in ActivityCall
      /\ t = TokenOf(a) /\ t \in DOMAIN parent /\ t \in Token
      /\ a \in Executing /\ phase[a] = "entered" /\ Performed[a] /\ a \in Touched
      /\ a \notin Entering /\ a \notin Skipping /\ a \notin Leaving /\ a \notin Proceeding
      /\ a \notin Eliminating /\ a \notin Finishing /\ a \notin Ending /\ a \notin Waiting
      /\ \A x \in ChildSet(a) : x \in Activity /\ x # a /\ x # Root /\ Structure(x) = a /\ x \notin Touched
      /\ \A x \in Touched : x # Root => Structure(x) # a
      /\ a \notin Awaiting
  BY <1>1, ExecuteTop
<1>4. /\ \A c : c \notin Notices
      /\ Top("enter") = {} /\ Top("execute") = {a} /\ Top("skip") = {} /\ Top("leave") = {} /\ Top("proceed") = {}
      /\ Top("eliminate") = {} /\ Top("end") = {}
      /\ Looping \ {call} = Looping
  BY <1>1, ExecuteTop
<1>3. /\ \A x \in Activity : phase'[x] = IF x = a THEN "started" ELSE phase[x]
      /\ UNCHANGED <<definition, tokens, links, waiting, outcome>>
  BY <1>0, <1>1, <1>2 DEF ExecuteBasic, Reach, TypeOK
<1>5. /\ calls' \in Seq(CallRecord) /\ StackInv'
      /\ \A c \in pending' : c \in pending \/ (c.op = "leave" /\ c.activity = a /\ c.token = t)
      /\ Executing' = Executing \ {a} /\ Leaving' = Leaving \cup {a}
      /\ UNCHANGED <<Entering, Skipping, Proceeding, Eliminating, Finishing, Ending, Determining, Looping>>
      /\ \A c : c \notin Notices'
  <2> DEFINE c == Call("leave", a, t)
  <2>1. c \in ActivityCall /\ c.op = "leave" /\ c.activity = a /\ c.token = t
    BY <1>2 DEF Call, ActivityCall
  <2>2. c \notin pending
    BY <1>2, <2>1 DEF Leaving, Doing
  <2>3. Then(<<c>>)
    BY <1>1 DEF ExecuteBasic
  <2> HIDE DEF c, a, t
  <2>e. ReplacedBy(c)
    BY <1>0, <1>1, <1>4, <2>1, <2>2, <2>3, EffectOfCall
  <2> QED BY <1>0, <1>1, <1>4, <2>1, <2>2, <2>3, <2>e DEF ReplacedBy, When
<1> HIDE DEF a, t
<1>6. Waiting' = Waiting /\ Performed' = Performed
  BY <1>3, PerformedStays DEF Waiting, definition
<1>7. /\ Touched' = Touched /\ Opened' = Opened \cup {a} /\ Settled' = Settled
      /\ Active' = Active /\ Holders' = Holders /\ Awaiting' = Awaiting
  <2>1. Touched' = Touched
    BY <1>2, <1>3, <1>5 DEF Touched
  <2>2. Opened' = Opened \cup {a}
    BY <1>2, <1>3 DEF Opened
  <2>3. Settled' = Settled
    BY <1>2, <1>3, <1>5 DEF Settled
  <2>4. Active' = Active
    BY <1>2, <1>3, <1>5 DEF Active
  <2>5. Holders' = Holders
    BY <1>1, <1>2, <1>3, <1>5, <1>6 DEF Holders
  <2>6. Awaiting' = Awaiting
    BY <1>3, <1>4, <1>5 DEF Awaiting, links
  <2> QED BY <2>1, <2>2, <2>3, <2>4, <2>5, <2>6
<1>10. TypeOK'
  <2>1. phase' \in [Activity -> {"idle", "entered", "started", "left", "skipped", "dead"}]
    BY <1>0, <1>2 DEF TypeOK, ExecuteBasic, Reach, a
  <2> QED BY <2>1, <1>0, <1>3, <1>5 DEF TypeOK, CallRecord, definition, tokens, links
<1>11. CallsInv'
  BY <1>0, <1>1, <1>2, <1>3, <1>5 DEF CallsInv, ThreadOps, tokens
<1>12. WaitsInv'
  BY <1>0, <1>3 DEF WaitsInv, tokens
<1>13. TokensInv'
  BY Domains, <1>0, <1>1, <1>2, <1>3, <1>7 DEF TokensInv, tokens
<1>14. UniqueInv'
  BY <1>0, <1>1, <1>2, <1>5 DEF UniqueInv
<1>15. PhaseInv'
  BY Domains, <1>0, <1>1, <1>2, <1>3, <1>5, <1>6 DEF PhaseInv
<1>16. TouchInv'
  BY Domains, <1>0, <1>2, <1>6, <1>7 DEF TouchInv
<1>17. ActiveInv'
  BY Domains, <1>0, <1>2, <1>3, <1>5, <1>7 DEF ActiveInv, definition
<1>18. EndedInv'
  BY Domains, <1>0, <1>1, <1>2, <1>3, <1>5, <1>7 DEF EndedInv, tokens
<1>19. LeftInv'
  BY Domains, <1>0, <1>1, <1>2, <1>3, <1>5, <1>7 DEF LeftInv
<1>20. SequenceInv'
  BY Domains, <1>0, <1>1, <1>2, <1>3, <1>7 DEF SequenceInv
<1>21. BranchInv'
  BY CallTypes, Domains, <1>0, <1>2, <1>3, <1>5, <1>7 DEF BranchInv
<1>22. HoldInv'
  BY <1>0, <1>2, <1>7 DEF HoldInv
<1>23. NodeInv'
  <2>1. \A y \in Activity : phase'[y] = "entered" => TokenOf(y) \in DOMAIN parent /\ node[TokenOf(y)] = y
    BY <1>0, <1>2, <1>3 DEF NodeInv
  <2>2. ASSUME NEW tk \in DOMAIN parent, node[tk] # None
        PROVE  /\ phase'[node[tk]] # "idle"
               /\ node[tk] \in Basic /\ phase'[node[tk]] = "dead" => node[tk] \notin Awaiting'
    <3>1. node[tk] \in Activity
      BY <2>2, <1>0 DEF TypeOK
    <3> QED BY <2>2, <3>1, <1>0, <1>2, <1>3, <1>7 DEF NodeInv
  <2>3. \A tk \in DOMAIN parent : node[tk] \in Basic => node[tk] # None
    BY Shapes DEF Basic
  <2> QED BY <2>1, <2>2, <2>3, <1>3 DEF NodeInv, tokens
<1>24. TargetInv'
  BY Domains, <1>0, <1>1, <1>2, <1>3, <1>5 DEF TargetInv, links
<1>25. NoticeInv'
  BY <1>5 DEF NoticeInv
<1>26. LinkInv'
  BY Domains, Shapes, <1>0, <1>1, <1>2, <1>3, <1>5, <1>7, SourceOf DEF LinkInv, links
<1>27. MeaningInv'
  BY Domains, <1>0, <1>1, <1>2, <1>3, <1>5, <1>6 DEF MeaningInv, Eligible, definition, links
<1>28. ChoiceInv'
  BY <1>0, <1>3 DEF ChoiceInv, definition
<1>z. DeadInv /\ TakenInv /\ DoneInv /\ FiredInv
  BY FurtherParts
<1>29. DeadInv'
  BY Domains, <1>0, <1>z, <1>2, <1>3, <1>5 DEF DeadInv, PhaseInv
<1>30. TakenInv'
  BY Domains, StructureOf, <1>0, <1>z, <1>1, <1>2, <1>3, <1>5, <1>6 DEF TakenInv, PhaseInv, definition, Choice, Basic
<1>31. DoneInv'
  BY Domains, StructureOf, <1>0, <1>z, <1>1, <1>2, <1>3, <1>5, <1>7 DEF DoneInv, definition, Choice, Basic
<1>32. FiredInv'
  BY Domains, <1>0, <1>z, <1>2, <1>3, <1>5, <1>7 DEF FiredInv, links
<1> QED BY <1>5, <1>10, <1>11, <1>12, <1>13, <1>14, <1>15, <1>16, <1>17, <1>18, <1>19, <1>20, <1>21, <1>22,
           <1>23, <1>24, <1>25, <1>26, <1>27, <1>28, <1>29, <1>30, <1>31, <1>32 DEF FlowInv

(* An activity that waits for a message. *)
LEMMA ExecuteAndWaitKeeps ==
  ASSUME FlowInv, ExecutePick \/ (ExecuteBasic /\ call.activity \in receives)
  PROVE  FlowInv'
<1> DEFINE a == call.activity
           t == call.token
<1>0. /\ TypeOK /\ StackInv /\ CallsInv /\ WaitsInv /\ TokensInv /\ UniqueInv /\ PhaseInv
      /\ TouchInv /\ ActiveInv /\ EndedInv /\ LeftInv /\ SequenceInv /\ BranchInv /\ HoldInv
      /\ NodeInv /\ TargetInv /\ NoticeInv /\ LinkInv /\ MeaningInv /\ ChoiceInv
  BY Parts
<1>1. calls # <<>> /\ call.op = "execute" /\ Kind[a] \in {"basic", "pick"} /\ a \notin Flows /\ a \in Receives \cup Choice
  BY <1>0, CallOnTop DEF ExecuteBasic, ExecutePick, Calling, Basic, Flows, TypeOK, Choice
<1>2. /\ call \in pending /\ a \in Activity /\ call \in ActivityCall
      /\ t = TokenOf(a) /\ t \in DOMAIN parent /\ t \in Token
      /\ a \in Executing /\ phase[a] = "entered" /\ Performed[a] /\ a \in Touched
      /\ a \notin Entering /\ a \notin Skipping /\ a \notin Leaving /\ a \notin Proceeding
      /\ a \notin Eliminating /\ a \notin Finishing /\ a \notin Ending /\ a \notin Waiting
      /\ \A x \in ChildSet(a) : x \in Activity /\ x # a /\ x # Root /\ Structure(x) = a /\ x \notin Touched
      /\ \A x \in Touched : x # Root => Structure(x) # a
      /\ a \notin Awaiting
  BY <1>1, ExecuteTop
<1>4. /\ \A c : c \notin Notices
      /\ Top("enter") = {} /\ Top("execute") = {a} /\ Top("skip") = {} /\ Top("leave") = {} /\ Top("proceed") = {}
      /\ Top("eliminate") = {} /\ Top("end") = {}
      /\ Looping \ {call} = Looping
  BY <1>1, ExecuteTop
<1>3. /\ \A x \in Activity : phase'[x] = IF x = a THEN "started" ELSE phase[x]
      /\ waiting' = waiting \cup {call}
      /\ UNCHANGED <<definition, tokens, links, outcome>>
  BY <1>0, <1>1, <1>2 DEF ExecuteBasic, ExecutePick, Reach, TypeOK
<1>5. /\ calls' \in Seq(CallRecord) /\ StackInv'
      /\ \A c \in pending' : c \in pending
      /\ Executing' = Executing \ {a}
      /\ UNCHANGED <<Entering, Skipping, Leaving, Proceeding, Eliminating, Finishing, Ending, Determining, Looping>>
      /\ \A c : c \notin Notices'
  <2>1. Then(<<>>)
    BY DEF ExecuteBasic, ExecutePick
  <2> HIDE DEF a, t
  <2>e. Dropped
    BY <1>0, <1>1, <1>4, <2>1, EffectOfNothing
  <2> QED BY <1>0, <1>1, <1>4, <2>1, <2>e DEF Dropped
<1>6. Waiting' = Waiting \cup {a} /\ Performed' = Performed
  BY <1>2, <1>3, PerformedStays DEF Waiting, definition
<1> HIDE DEF a, t
<1>7. /\ Touched' = Touched /\ Opened' = Opened \cup {a} /\ Settled' = Settled
      /\ Active' = Active /\ Holders' = Holders /\ Awaiting' = Awaiting
  <2>1. Touched' = Touched
    BY <1>2, <1>3, <1>5 DEF Touched
  <2>2. Opened' = Opened \cup {a}
    BY <1>2, <1>3 DEF Opened
  <2>3. Settled' = Settled
    BY <1>2, <1>3, <1>5 DEF Settled
  <2>4. Active' = Active
    BY <1>2, <1>3, <1>5 DEF Active
  <2>5. Holders' = Holders
    BY <1>1, <1>2, <1>3, <1>5, <1>6 DEF Holders
  <2>6. Awaiting' = Awaiting
    BY <1>3, <1>4, <1>5 DEF Awaiting, links
  <2> QED BY <2>1, <2>2, <2>3, <2>4, <2>5, <2>6
<1>10. TypeOK'
  <2>1. phase' \in [Activity -> {"idle", "entered", "started", "left", "skipped", "dead"}]
    BY <1>0, <1>2 DEF TypeOK, ExecuteBasic, ExecutePick, Reach, a
  <2>2. waiting' \subseteq [op : {"execute"}, activity : Receives \cup Choice, token : Token]
    BY <1>0, <1>1, <1>2, <1>3 DEF TypeOK, ActivityCall, a, t
  <2> QED BY <2>1, <2>2, <1>0, <1>3, <1>5 DEF TypeOK, CallRecord, definition, tokens, links
<1>11. CallsInv'
  BY <1>0, <1>1, <1>2, <1>3, <1>5 DEF CallsInv, ThreadOps, tokens
<1>12. WaitsInv'
  BY <1>0, <1>2, <1>3 DEF WaitsInv, tokens, a, t
<1>13. TokensInv'
  BY Domains, <1>0, <1>1, <1>2, <1>3, <1>7 DEF TokensInv, tokens
<1>14. UniqueInv'
  BY <1>0, <1>1, <1>2, <1>5 DEF UniqueInv
<1>15. PhaseInv'
  BY Domains, <1>0, <1>1, <1>2, <1>3, <1>5, <1>6 DEF PhaseInv
<1>16. TouchInv'
  BY Domains, <1>0, <1>2, <1>6, <1>7 DEF TouchInv
<1>17. ActiveInv'
  BY Domains, <1>0, <1>2, <1>3, <1>5, <1>7 DEF ActiveInv, definition
<1>18. EndedInv'
  BY Domains, <1>0, <1>1, <1>2, <1>3, <1>5, <1>7 DEF EndedInv, tokens
<1>19. LeftInv'
  BY Domains, <1>0, <1>1, <1>2, <1>3, <1>5, <1>7 DEF LeftInv
<1>20. SequenceInv'
  BY Domains, <1>0, <1>1, <1>2, <1>3, <1>7 DEF SequenceInv
<1>21. BranchInv'
  BY CallTypes, Domains, <1>0, <1>2, <1>3, <1>5, <1>7 DEF BranchInv
<1>22. HoldInv'
  BY <1>0, <1>2, <1>7 DEF HoldInv
<1>23. NodeInv'
  <2>1. \A y \in Activity : phase'[y] = "entered" => TokenOf(y) \in DOMAIN parent /\ node[TokenOf(y)] = y
    BY <1>0, <1>2, <1>3 DEF NodeInv
  <2>2. ASSUME NEW tk \in DOMAIN parent, node[tk] # None
        PROVE  /\ phase'[node[tk]] # "idle"
               /\ node[tk] \in Basic /\ phase'[node[tk]] = "dead" => node[tk] \notin Awaiting'
    <3>1. node[tk] \in Activity
      BY <2>2, <1>0 DEF TypeOK
    <3> QED BY <2>2, <3>1, <1>0, <1>2, <1>3, <1>7 DEF NodeInv
  <2>3. \A tk \in DOMAIN parent : node[tk] \in Basic => node[tk] # None
    BY Shapes DEF Basic
  <2> QED BY <2>1, <2>2, <2>3, <1>3 DEF NodeInv, tokens
<1>24. TargetInv'
  BY Domains, <1>0, <1>1, <1>2, <1>3, <1>5 DEF TargetInv, links
<1>25. NoticeInv'
  BY <1>5 DEF NoticeInv
<1>26. LinkInv'
  BY Domains, Shapes, <1>0, <1>1, <1>2, <1>3, <1>5, <1>7, SourceOf DEF LinkInv, links
<1>27. MeaningInv'
  BY Domains, <1>0, <1>1, <1>2, <1>3, <1>5, <1>6 DEF MeaningInv, Eligible, definition, links
<1>28. ChoiceInv'
  BY <1>0, <1>3 DEF ChoiceInv, definition
<1>z. DeadInv /\ TakenInv /\ DoneInv /\ FiredInv
  BY FurtherParts
<1>29. DeadInv'
  BY Domains, <1>0, <1>z, <1>2, <1>3, <1>5 DEF DeadInv, PhaseInv
<1>30. TakenInv'
  BY Domains, <1>0, <1>z, <1>2, <1>3, <1>5, <1>6 DEF TakenInv, PhaseInv, definition
<1>31. DoneInv'
  BY Domains, <1>0, <1>z, <1>2, <1>3, <1>5, <1>7 DEF DoneInv, definition
<1>32. FiredInv'
  BY Domains, <1>0, <1>z, <1>2, <1>3, <1>5, <1>7 DEF FiredInv, links
<1> QED BY <1>5, <1>10, <1>11, <1>12, <1>13, <1>14, <1>15, <1>16, <1>17, <1>18, <1>19, <1>20, <1>21, <1>22,
           <1>23, <1>24, <1>25, <1>26, <1>27, <1>28, <1>29, <1>30, <1>31, <1>32 DEF FlowInv

LEMMA ActiveTouched ==
  ASSUME PhaseInv
  PROVE  /\ \A x \in Active : x \in Touched
         /\ \A x \in Holders : x \in Touched
         /\ \A x : x \in Executing \/ x \in Skipping \/ x \in Leaving \/ x \in Finishing \/ x \in Proceeding
                   \/ x \in Ending \/ x \in Waiting \/ x \in Eliminating \/ x \in Entering => x \in Touched
         /\ \A x \in Touched : x \in Activity
         /\ \A x \in Activity : x \notin Touched => phase[x] = "idle"
BY Domains DEF PhaseInv, Active, Holders, Touched

LEMMA FirstChild ==
  ASSUME NEW s \in Activity, s \notin Basic
  PROVE  /\ Children[s] \in Seq(Activity) /\ 1 \in DOMAIN Children[s] /\ Head(Children[s]) = Children[s][1]
         /\ Children[s][1] \in ChildSet(s) /\ Children[s][1] \in Activity
<1>1. Children[s] \in Seq(Activity) /\ Len(Children[s]) > 0
  BY Shapes
<1>2. 1 \in DOMAIN Children[s] /\ Head(Children[s]) = Children[s][1]
  BY <1>1
<1> QED BY <1>1, <1>2 DEF ChildSet, ToSet

LEMMA ChildAt ==
  ASSUME NEW s \in Activity, NEW i \in DOMAIN Children[s]
  PROVE  /\ Children[s][i] \in ChildSet(s) /\ Children[s][i] \in Activity /\ Structure(Children[s][i]) = s
         /\ s \notin Basic /\ i \in Nat
<1>1. Children[s][i] \in ChildSet(s)
  BY DEF ChildSet, ToSet
<1>2. i \in Nat
  BY Shapes
<1> QED BY <1>1, <1>2, StructureOfChild

(* A sequence enters its first activity. *)
LEMMA ExecuteSequenceKeeps ==
  ASSUME FlowInv, ExecuteSequence
  PROVE  FlowInv'
<1> DEFINE a == call.activity
           t == call.token
<1>0. /\ TypeOK /\ StackInv /\ CallsInv /\ WaitsInv /\ TokensInv /\ UniqueInv /\ PhaseInv
      /\ TouchInv /\ ActiveInv /\ EndedInv /\ LeftInv /\ SequenceInv /\ BranchInv /\ HoldInv
      /\ NodeInv /\ TargetInv /\ NoticeInv /\ LinkInv /\ MeaningInv /\ ChoiceInv
  BY Parts
<1>1. calls # <<>> /\ call.op = "execute" /\ Kind[a] = "sequence" /\ a \notin Flows /\ a \notin Basic /\ a \notin Choice
  BY DEF ExecuteSequence, Calling, Basic, Flows, Choice
<1>2. /\ call \in pending /\ a \in Activity /\ call \in ActivityCall
      /\ t = TokenOf(a) /\ t \in DOMAIN parent /\ t \in Token
      /\ a \in Executing /\ phase[a] = "entered" /\ Performed[a] /\ a \in Touched
      /\ a \notin Entering /\ a \notin Skipping /\ a \notin Leaving /\ a \notin Proceeding
      /\ a \notin Eliminating /\ a \notin Finishing /\ a \notin Ending /\ a \notin Waiting
      /\ \A x \in ChildSet(a) : x \in Activity /\ x # a /\ x # Root /\ Structure(x) = a /\ x \notin Touched
      /\ \A x \in Touched : x # Root => Structure(x) # a
      /\ a \notin Awaiting
  BY <1>1, ExecuteTop
<1>4. /\ \A c : c \notin Notices
      /\ Top("enter") = {} /\ Top("execute") = {a} /\ Top("skip") = {} /\ Top("leave") = {} /\ Top("proceed") = {}
      /\ Top("eliminate") = {} /\ Top("end") = {}
      /\ Looping \ {call} = Looping
  BY <1>1, ExecuteTop
<1> DEFINE x == Head(Children[a])
<1>a. /\ x = Children[a][1] /\ 1 \in DOMAIN Children[a] /\ x \in ChildSet(a) /\ x \in Activity
      /\ BranchOf[x] = BranchOf[a] /\ TokenOf(x) = t
  BY <1>1, <1>2, FirstChild, BranchOfChild
<1>b. /\ x # a /\ x # Root /\ Structure(x) = a /\ x \notin Touched /\ phase[x] = "idle"
      /\ x \notin Entering /\ x \notin Executing /\ x \notin Skipping /\ x \notin Leaving /\ x \notin Proceeding
      /\ x \notin Eliminating /\ x \notin Finishing /\ x \notin Ending /\ x \notin Waiting
      /\ \A y \in Active : y \in Touched
  BY <1>0, <1>2, <1>a, ActiveTouched
<1>3. /\ \A y \in Activity : phase'[y] = IF y = a THEN "started" ELSE phase[y]
      /\ UNCHANGED <<definition, tokens, links, waiting, outcome>>
  BY <1>0, <1>1, <1>2 DEF ExecuteSequence, Reach, TypeOK
<1>5. /\ calls' \in Seq(CallRecord) /\ StackInv'
      /\ \A c \in pending' : c \in pending \/ (c.op = "enter" /\ c.activity = x /\ c.token = t)
      /\ Executing' = Executing \ {a} /\ Entering' = Entering \cup {x}
      /\ UNCHANGED <<Skipping, Leaving, Proceeding, Eliminating, Finishing, Ending, Determining, Looping>>
      /\ \A c : c \notin Notices'
  <2> DEFINE c == Call("enter", x, t)
  <2>1. c \in ActivityCall /\ c.op = "enter" /\ c.activity = x /\ c.token = t
    BY <1>2, <1>a DEF Call, ActivityCall
  <2>2. c \notin pending
    BY <1>a, <1>b, <2>1 DEF Entering, Doing
  <2>3. Then(<<c>>)
    BY <1>1 DEF ExecuteSequence
  <2> HIDE DEF c, a, t, x
  <2>e. ReplacedBy(c)
    BY <1>0, <1>1, <1>4, <2>1, <2>2, <2>3, EffectOfCall
  <2> QED BY <1>0, <1>1, <1>4, <2>1, <2>2, <2>3, <2>e DEF ReplacedBy, When
<1> HIDE DEF a, t, x
<1>6. Waiting' = Waiting /\ Performed' = Performed
  BY <1>3, PerformedStays DEF Waiting, definition
<1>7. /\ Touched' = Touched \cup {x} /\ Opened' = Opened \cup {a} /\ Settled' = Settled
      /\ Active' = Active \cup {x} /\ Holders' = (Holders \ {a}) \cup {x} /\ Awaiting' = Awaiting
  <2>1. Touched' = Touched \cup {x}
    BY <1>2, <1>3, <1>5, <1>a DEF Touched
  <2>2. Opened' = Opened \cup {a}
    BY <1>2, <1>3 DEF Opened
  <2>3. Settled' = Settled
    BY <1>2, <1>3, <1>5 DEF Settled
  <2>4. Active' = Active \cup {x}
    BY <1>2, <1>3, <1>5, <1>a DEF Active
  <2>5. Holders' = (Holders \ {a}) \cup {x}
    BY <1>1, <1>2, <1>3, <1>5, <1>6, <1>a, <1>b DEF Holders
  <2>6. Awaiting' = Awaiting
    BY <1>3, <1>4, <1>5 DEF Awaiting, links
  <2> QED BY <2>1, <2>2, <2>3, <2>4, <2>5, <2>6
<1>8. \A s \in Activity : \A i \in DOMAIN Children[s] : Children[s][i] = x => s = a /\ i = 1
  BY <1>2, <1>a, TreeAssumption
<1>10. TypeOK'
  <2>1. phase' \in [Activity -> {"idle", "entered", "started", "left", "skipped", "dead"}]
    BY <1>0, <1>2 DEF TypeOK, ExecuteSequence, Reach, a
  <2> QED BY <2>1, <1>0, <1>3, <1>5 DEF TypeOK, CallRecord, definition, tokens, links
<1>11. CallsInv'
  BY <1>0, <1>1, <1>2, <1>3, <1>5, <1>a DEF CallsInv, ThreadOps, tokens
<1>12. WaitsInv'
  BY <1>0, <1>3 DEF WaitsInv, tokens
<1>13. TokensInv'
  BY Domains, <1>0, <1>1, <1>2, <1>3, <1>7 DEF TokensInv, tokens
<1>14. UniqueInv'
  BY <1>0, <1>1, <1>2, <1>5, <1>b DEF UniqueInv
<1>15. PhaseInv'
  BY Domains, <1>0, <1>1, <1>2, <1>3, <1>5, <1>6, <1>a, <1>b DEF PhaseInv
<1>16. TouchInv'
  BY Domains, <1>0, <1>2, <1>6, <1>7, <1>b DEF TouchInv
<1>17. ActiveInv'
  BY Domains, <1>0, <1>1, <1>2, <1>3, <1>5, <1>7, <1>b DEF ActiveInv, definition
<1>18. EndedInv'
  BY Domains, <1>0, <1>1, <1>2, <1>3, <1>5, <1>7 DEF EndedInv, tokens
<1>19. LeftInv'
  BY Domains, <1>0, <1>1, <1>2, <1>3, <1>5, <1>7 DEF LeftInv
<1>20. SequenceInv'
  <2> SUFFICES ASSUME NEW s \in Activity, Kind[s] = "sequence", phase'[s] \in {"started", "left"},
                      NEW i \in DOMAIN Children[s], NEW j \in DOMAIN Children[s], i < j,
                      Children[s][j] \in Touched'
               PROVE  Children[s][i] \in Settled'
    BY DEF SequenceInv
  <2>1. CASE s = a
    <3>1. Children[s][j] \in ChildSet(a) /\ i \in Nat /\ i # 0
      BY <2>1, ChildAt, Shapes
    <3>2. Children[s][j] = x
      BY <3>1, <1>2, <1>7
    <3> QED BY <3>1, <3>2, <1>8
  <2>2. CASE s # a
    BY <2>2, <1>0, <1>3, <1>7, <1>8 DEF SequenceInv
  <2> QED BY <2>1, <2>2
<1>21. BranchInv'
  BY CallTypes, Domains, <1>0, <1>1, <1>2, <1>3, <1>5, <1>7, <1>8 DEF BranchInv
<1>22. HoldInv'
  BY <1>0, <1>2, <1>7, <1>a DEF HoldInv, Holders
<1>23. NodeInv'
  <2>1. \A y \in Activity : phase'[y] = "entered" => TokenOf(y) \in DOMAIN parent /\ node[TokenOf(y)] = y
    BY <1>0, <1>2, <1>3 DEF NodeInv
  <2>2. ASSUME NEW tk \in DOMAIN parent, node[tk] # None
        PROVE  /\ phase'[node[tk]] # "idle"
               /\ node[tk] \in Basic /\ phase'[node[tk]] = "dead" => node[tk] \notin Awaiting'
    <3>1. node[tk] \in Activity
      BY <2>2, <1>0 DEF TypeOK
    <3> QED BY <2>2, <3>1, <1>0, <1>2, <1>3, <1>7 DEF NodeInv
  <2>3. \A tk \in DOMAIN parent : node[tk] \in Basic => node[tk] # None
    BY Shapes DEF Basic
  <2> QED BY <2>1, <2>2, <2>3, <1>3 DEF NodeInv, tokens
<1>24. TargetInv'
  BY Domains, <1>0, <1>1, <1>2, <1>3, <1>5 DEF TargetInv, links
<1>25. NoticeInv'
  BY <1>5 DEF NoticeInv
<1>26. LinkInv'
  BY Domains, Shapes, <1>0, <1>1, <1>2, <1>3, <1>5, <1>7, SourceOf DEF LinkInv, links, Flows
<1>27. MeaningInv'
  BY Domains, <1>0, <1>1, <1>2, <1>3, <1>5, <1>6, <1>b DEF MeaningInv, Eligible, definition, links
<1>28. ChoiceInv'
  BY <1>0, <1>3 DEF ChoiceInv, definition
<1>z. DeadInv /\ TakenInv /\ DoneInv /\ FiredInv
  BY FurtherParts
<1>29. DeadInv'
  BY Domains, <1>0, <1>z, <1>2, <1>3, <1>5 DEF DeadInv, PhaseInv
<1>30. TakenInv'
  BY Domains, StructureOf, <1>0, <1>z, <1>1, <1>2, <1>3, <1>5, <1>6 DEF TakenInv, PhaseInv, definition, Choice, Basic
<1>31. DoneInv'
  BY Domains, StructureOf, <1>0, <1>z, <1>1, <1>2, <1>3, <1>5, <1>7 DEF DoneInv, definition, Choice, Basic
<1>32. FiredInv'
  BY Domains, <1>0, <1>z, <1>2, <1>3, <1>5, <1>7 DEF FiredInv, links
<1> QED BY <1>5, <1>10, <1>11, <1>12, <1>13, <1>14, <1>15, <1>16, <1>17, <1>18, <1>19, <1>20, <1>21, <1>22,
           <1>23, <1>24, <1>25, <1>26, <1>27, <1>28, <1>29, <1>30, <1>31, <1>32 DEF FlowInv

(* If.execute and Pick.performActivity: the calls they make. *)
EndsInBranch(made) ==
  \E p \in Seq(CallRecord), c \in CallRecord : made = p \o <<c>> /\ c.op \in {"enter", "end"}

LEMMA BranchCalls ==
  ASSUME TypeOK, ChoiceInv, NEW a \in Choice, NEW t \in Token
  PROVE  /\ TakeBranch(a, t) \in Seq(CallRecord) /\ Injective(TakeBranch(a, t))
         /\ \A c \in ToSet(TakeBranch(a, t)) :
              /\ c \in ActivityCall /\ c.token = t
              /\ \/ c.op = "eliminate" /\ c.activity \in ChildSet(a) /\ c.activity # choice[a]
                 \/ c.op = "enter" /\ c.activity = choice[a] /\ choice[a] \in ChildSet(a)
                 \/ c.op = "end" /\ c.activity = a /\ choice[a] = None
         /\ \A b \in ChildSet(a) : b # choice[a] => Call("eliminate", b, t) \in ToSet(TakeBranch(a, t))
         /\ choice[a] = None => Call("end", a, t) \in ToSet(TakeBranch(a, t))
         /\ choice[a] # None => Call("enter", choice[a], t) \in ToSet(TakeBranch(a, t))
         /\ EndsInBranch(TakeBranch(a, t))
<1> DEFINE taken == CHOOSE i \in DOMAIN Children[a] : Children[a][i] = choice[a]
           other == IF choice[a] = None THEN Children[a] ELSE RemoveAt(Children[a], taken)
           final == IF choice[a] = None THEN Call("end", a, t) ELSE Call("enter", choice[a], t)
           first == [i \in DOMAIN other |-> Call("eliminate", other[i], t)]
<1>1. /\ a \in Activity /\ Children[a] \in Seq(Activity) /\ ChildSet(a) \subseteq Activity /\ None \notin Activity
      /\ choice[a] \in ChildSet(a) \/ choice[a] = None
  BY Shapes DEF Choice, ChoiceInv
<1>2. Injective(Children[a])
  BY <1>1, TreeAssumption DEF Injective
<1>3. /\ other \in Seq(Activity) /\ Injective(other)
      /\ \A b : b \in ToSet(other) <=> b \in ChildSet(a) /\ b # choice[a]
  <2>1. CASE choice[a] = None
    BY <2>1, <1>1, <1>2 DEF ChildSet
  <2>2. CASE choice[a] # None
    <3>1. \E i \in DOMAIN Children[a] : Children[a][i] = choice[a]
      BY <2>2, <1>1 DEF ChildSet, ToSet
    <3>2. taken \in DOMAIN Children[a] /\ Children[a][taken] = choice[a]
      BY <3>1
    <3> HIDE DEF taken
    <3>3. /\ RemoveAt(Children[a], taken) \in Seq(Activity) /\ Injective(RemoveAt(Children[a], taken))
          /\ \A c : c \in ToSet(RemoveAt(Children[a], taken)) <=> c \in ToSet(Children[a]) /\ c # Children[a][taken]
      BY <3>2, <1>1, <1>2, Removal
    <3> QED BY <2>2, <3>2, <3>3 DEF ChildSet
  <2> QED BY <2>1, <2>2
<1> HIDE DEF taken, other
<1>4. /\ first \in Seq(CallRecord) /\ Injective(first)
      /\ \A c : c \in ToSet(first) => /\ c \in ActivityCall /\ c.op = "eliminate" /\ c.token = t
                                      /\ c.activity \in ToSet(other)
      /\ \A b \in ToSet(other) : Call("eliminate", b, t) \in ToSet(first)
      /\ \A i \in DOMAIN first : first[i].op = "eliminate"
  <2> HIDE DEF first
  <2>1. first = [i \in DOMAIN other |-> Call("eliminate", other[i], t)]
    BY DEF first
  <2> QED BY <1>3, <2>1, Eliminations
<1>5. /\ final \in ActivityCall /\ final \in CallRecord /\ final.token = t
      /\ \/ final.op = "enter" /\ final.activity = choice[a] /\ choice[a] # None
         \/ final.op = "end" /\ final.activity = a /\ choice[a] = None
  <2>1. CASE choice[a] = None
    BY <2>1, <1>1 DEF Call, ActivityCall, CallRecord
  <2>2. CASE choice[a] # None
    BY <2>2, <1>1 DEF Call, ActivityCall, CallRecord
  <2> QED BY <2>1, <2>2
<1>6. TakeBranch(a, t) = first \o <<final>>
  BY DEF TakeBranch, first, other, taken
<1> HIDE DEF first, final
<1>7. <<final>> \in Seq(CallRecord) /\ Injective(<<final>>) /\ \A d : d \in ToSet(<<final>>) <=> d = final
  BY <1>5, SingleCall
<1>8. \A i \in DOMAIN first, j \in DOMAIN <<final>> : first[i] # <<final>>[j]
  BY <1>4, <1>5
<1>9. /\ first \o <<final>> \in Seq(CallRecord) /\ Injective(first \o <<final>>)
      /\ \A c : c \in ToSet(first \o <<final>>) <=> c \in ToSet(first) \/ c \in ToSet(<<final>>)
  BY <1>4, <1>7, <1>8, Concatenation
<1>10. \A c : c \in ToSet(TakeBranch(a, t)) <=> c \in ToSet(first) \/ c = final
  BY <1>6, <1>7, <1>9
<1>11. /\ choice[a] = None => final = Call("end", a, t)
       /\ choice[a] # None => final = Call("enter", choice[a], t)
  BY DEF final
<1>12. ASSUME NEW c \in ToSet(TakeBranch(a, t))
       PROVE  /\ c \in ActivityCall /\ c.token = t
              /\ \/ c.op = "eliminate" /\ c.activity \in ChildSet(a) /\ c.activity # choice[a]
                 \/ c.op = "enter" /\ c.activity = choice[a] /\ choice[a] \in ChildSet(a)
                 \/ c.op = "end" /\ c.activity = a /\ choice[a] = None
  BY <1>1, <1>3, <1>4, <1>5, <1>10
<1>13. EndsInBranch(TakeBranch(a, t))
  BY <1>4, <1>5, <1>6 DEF EndsInBranch
<1> QED BY <1>3, <1>4, <1>6, <1>9, <1>10, <1>11, <1>12, <1>13

(* A message starts a new stack of calls. *)
LEMMA EffectOfMessage ==
  ASSUME calls = <<>>, NEW made \in Seq(CallRecord), Injective(made), calls' = made,
         \A m \in ToSet(made) : m.op # "targetDetermined" /\ m.op # "proceed"
  PROVE  /\ calls' \in Seq(CallRecord) /\ StackInv' /\ pending' = ToSet(made)
         /\ \A c : c \notin pending
         /\ Entering' = Made(ToSet(made), "enter") /\ Executing' = Made(ToSet(made), "execute")
         /\ Skipping' = Made(ToSet(made), "skip") /\ Leaving' = Made(ToSet(made), "leave")
         /\ Proceeding' = Made(ToSet(made), "proceed") /\ Eliminating' = Made(ToSet(made), "eliminate")
         /\ Finishing' = Made(ToSet(made), "end") \ Flows /\ Ending' = MadeEnding(ToSet(made))
         /\ Determining' = MadeDetermining(ToSet(made))
         /\ \A c : c \notin Notices'
         /\ Looping' = {m \in ToSet(made) : m.op = "branch"}
<1>1. pending' = ToSet(made)
  BY DEF pending
<1>2. \A c : c \notin pending
  <2>1. DOMAIN calls = {}
    OBVIOUS
  <2> QED BY <2>1 DEF pending, ToSet
<1>3. StackInv'
  BY DEF StackInv, Injective, ToSet
<1>4. /\ Entering' = Made(ToSet(made), "enter") /\ Executing' = Made(ToSet(made), "execute")
      /\ Skipping' = Made(ToSet(made), "skip") /\ Leaving' = Made(ToSet(made), "leave")
      /\ Proceeding' = Made(ToSet(made), "proceed") /\ Eliminating' = Made(ToSet(made), "eliminate")
      /\ Finishing' = Made(ToSet(made), "end") \ Flows
  BY <1>1 DEF Entering, Executing, Skipping, Leaving, Proceeding, Eliminating, Finishing, Doing, Made
<1>5. /\ Ending' = MadeEnding(ToSet(made)) /\ Determining' = MadeDetermining(ToSet(made))
  BY <1>1 DEF Ending, Determining, MadeEnding, MadeDetermining
<1>6. \A c : c \notin Notices'
  BY <1>1 DEF Notices
<1>7. Looping' = {m \in ToSet(made) : m.op = "branch"}
  BY <1>1 DEF Looping
<1> QED BY <1>1, <1>2, <1>3, <1>4, <1>5, <1>6, <1>7

LEMMA NothingPending ==
  ASSUME calls = <<>>
  PROVE  /\ \A c : c \notin pending
         /\ \A x : /\ x \notin Entering /\ x \notin Executing /\ x \notin Skipping /\ x \notin Leaving /\ x \notin Proceeding
                   /\ x \notin Eliminating /\ x \notin Finishing /\ x \notin Ending /\ x \notin Determining
                   /\ x \notin Notices /\ x \notin Looping
<1>1. DOMAIN calls = {}
  OBVIOUS
<1>2. \A c : c \notin pending
  BY <1>1 DEF pending, ToSet
<1> QED BY <1>2 DEF Entering, Executing, Skipping, Leaving, Proceeding, Eliminating, Finishing, Ending, Determining,
                    Notices, Looping, Doing

(* An if or a pick that takes a branch keeps the invariant. *)
LEMMA TakeBranchKeeps ==
  ASSUME FlowInv, NEW a \in Choice, NEW t, t = TokenOf(a), t \in DOMAIN parent, a \in Touched,
         \/ phase[a] = "entered" /\ a \in Executing /\ a \notin Waiting
         \/ phase[a] = "started" /\ a \in Waiting /\ a \notin Executing /\ a \notin Leaving /\ a \notin Finishing,
         a \notin Entering, a \notin Proceeding, a \notin Eliminating, a \notin Ending, a \notin Skipping,
         a \notin Leaving, a \notin Finishing,
         Performed[a], \A x \in Touched : x # Root => Structure(x) # a, a \notin Awaiting,
         \A c : c \notin Notices,
         \A x \in Activity : phase'[x] = IF x = a THEN "started" ELSE phase[x],
         phase' \in [Activity -> {"idle", "entered", "started", "left", "skipped", "dead"}],
         UNCHANGED <<definition, tokens, links, outcome>>, waiting' \subseteq waiting, Waiting' = Waiting \ {a},
         calls' \in Seq(CallRecord), StackInv',
         \A c \in pending' : c \in pending \/ c \in ToSet(TakeBranch(a, t)),
         Executing' = Executing \ {a},
         \A x : x \in Entering' <=> x \in Entering \/ (choice[a] # None /\ x = choice[a]),
         \A x : x \in Eliminating' <=> x \in Eliminating \/ (x \in ChildSet(a) /\ x # choice[a]),
         \A x : x \in Finishing' <=> x \in Finishing \/ (choice[a] = None /\ x = a),
         UNCHANGED <<Skipping, Leaving, Proceeding, Ending, Determining, Looping>>,
         \A c : c \notin Notices'
  PROVE  FlowInv'
<1>0. /\ TypeOK /\ StackInv /\ CallsInv /\ WaitsInv /\ TokensInv /\ UniqueInv /\ PhaseInv
      /\ TouchInv /\ ActiveInv /\ EndedInv /\ LeftInv /\ SequenceInv /\ BranchInv /\ HoldInv
      /\ NodeInv /\ TargetInv /\ NoticeInv /\ LinkInv /\ MeaningInv /\ ChoiceInv
  BY Parts
<1>1. /\ a \in Activity /\ a \notin Flows /\ a \notin Basic /\ Kind[a] # "sequence" /\ Kind[a] # "flow" /\ t \in Token
      /\ choice[a] = None \/ choice[a] \in ChildSet(a)
      /\ None \notin Activity
  BY <1>0, Shapes DEF Choice, Flows, Basic, ChoiceInv, TypeOK
<1>2. /\ \A x \in ChildSet(a) : /\ x \in Activity /\ x # a /\ x # Root /\ Structure(x) = a /\ x \notin Touched
                                /\ phase[x] = "idle" /\ x \notin Entering /\ x \notin Eliminating /\ x \notin Executing
                                /\ x \notin Skipping /\ x \notin Leaving /\ x \notin Finishing /\ x \notin Proceeding
                                /\ x \notin Ending /\ x \notin Waiting
      /\ \A x \in ChildSet(a) : BranchOf[x] = BranchOf[a] /\ TokenOf(x) = t
      /\ \A x \in Active : x \in Touched
  <2>1. \A x \in ChildSet(a) : x \in Activity /\ x # a /\ x # Root /\ Structure(x) = a /\ x \notin Touched
    BY <1>1, StructureOfChild
  <2>2. \A x \in ChildSet(a) : BranchOf[x] = BranchOf[a] /\ TokenOf(x) = t
    BY <1>1, BranchOfChild
  <2> QED BY <2>1, <2>2, <1>0, ActiveTouched
<1>3. /\ \A x \in Activity : phase'[x] = IF x = a THEN "started" ELSE phase[x]
      /\ UNCHANGED <<definition, tokens, links, outcome>> /\ waiting' \subseteq waiting
  OBVIOUS
<1>4. /\ \A c \in ToSet(TakeBranch(a, t)) :
              /\ c \in ActivityCall /\ c.token = t
              /\ \/ c.op = "eliminate" /\ c.activity \in ChildSet(a) /\ c.activity # choice[a]
                 \/ c.op = "enter" /\ c.activity = choice[a] /\ choice[a] \in ChildSet(a)
                 \/ c.op = "end" /\ c.activity = a /\ choice[a] = None
  BY <1>0, <1>1, BranchCalls
<1>5. /\ calls' \in Seq(CallRecord) /\ StackInv'
      /\ \A c \in pending' : \/ c \in pending
                             \/ /\ c \in ActivityCall /\ c.token = t
                                /\ \/ c.op = "eliminate" /\ c.activity \in ChildSet(a)
                                   \/ c.op = "enter" /\ c.activity \in ChildSet(a)
                                   \/ c.op = "end" /\ c.activity = a
      /\ Executing' = Executing \ {a}
      /\ \A x : x \in Entering' <=> x \in Entering \/ (choice[a] # None /\ x = choice[a])
      /\ \A x : x \in Eliminating' <=> x \in Eliminating \/ (x \in ChildSet(a) /\ x # choice[a])
      /\ \A x : x \in Finishing' <=> x \in Finishing \/ (choice[a] = None /\ x = a)
      /\ UNCHANGED <<Skipping, Leaving, Proceeding, Ending, Determining, Looping>>
      /\ \A c : c \notin Notices'
  BY <1>4
<1>6. Waiting' = Waiting \ {a} /\ Performed' = Performed
  BY <1>3, PerformedStays DEF definition
<1>7. /\ \A x : x \in Touched' <=> x \in Touched \/ x \in ChildSet(a)
      /\ Opened' = Opened \cup {a} /\ Settled' = Settled
      /\ \A x : x \in Active' <=> x \in Active \/ (choice[a] # None /\ x = choice[a])
      /\ \A x : x \in Holders' => \/ x \in Holders /\ x # a
                                  \/ choice[a] # None /\ x = choice[a]
                                  \/ choice[a] = None /\ x = a
      /\ Awaiting' = Awaiting
  <2>1. \A x : x \in Touched' <=> x \in Touched \/ x \in ChildSet(a)
    BY <1>1, <1>2, <1>3, <1>5 DEF Touched
  <2>2. Opened' = Opened \cup {a}
    BY <1>1, <1>2, <1>3 DEF Opened
  <2>3. Settled' = Settled
    BY <1>1, <1>2, <1>3, <1>5 DEF Settled
  <2>4. \A x : x \in Active' <=> x \in Active \/ (choice[a] # None /\ x = choice[a])
    BY <1>1, <1>2, <1>3, <1>5 DEF Active
  <2>5. \A x : x \in Holders' => \/ x \in Holders /\ x # a
                                 \/ choice[a] # None /\ x = choice[a]
                                 \/ choice[a] = None /\ x = a
    BY <1>1, <1>2, <1>3, <1>5, <1>6 DEF Holders
  <2>6. Awaiting' = Awaiting
    BY <1>3, <1>5 DEF Awaiting, links
  <2> QED BY <2>1, <2>2, <2>3, <2>4, <2>5, <2>6
<1>8. \A s \in Activity : \A i \in DOMAIN Children[s] : Children[s][i] \in ChildSet(a) => s = a
  BY <1>2, ChildAt
<1>10. TypeOK'
  BY <1>0, <1>3, <1>5 DEF TypeOK, CallRecord, definition, tokens, links
<1>11. CallsInv'
  BY <1>0, <1>1, <1>2, <1>3, <1>5 DEF CallsInv, ThreadOps, tokens
<1>12. WaitsInv'
  BY <1>0, <1>3 DEF WaitsInv, tokens
<1>13. TokensInv'
  BY Domains, <1>0, <1>1, <1>2, <1>3, <1>7 DEF TokensInv, tokens
<1>14. UniqueInv'
  <2>1. ASSUME NEW c \in pending', NEW d \in pending', c.op = "eliminate", d.op = "eliminate", c.activity = d.activity
        PROVE  c = d
    <3>1. \A e \in pending : e.op = "eliminate" => e.activity \in Eliminating
      BY <1>0, CallTypes DEF Eliminating, Doing
    <3>2. CASE c \in pending /\ d \in pending
      BY <2>1, <3>2, <1>0 DEF UniqueInv
    <3>3. CASE c.activity \in ChildSet(a)
      <4>1. c \in ActivityCall /\ d \in ActivityCall /\ c.token = t /\ d.token = t
        BY <2>1, <3>1, <3>3, <1>2, <1>5
      <4> QED BY <4>1, <2>1 DEF ActivityCall
    <3> QED BY <2>1, <3>2, <3>3, <1>5
  <2>2. \A c \in pending' : c.op = "determine" => c \in pending
    BY <1>5
  <2>3. \A x \in Activity : ~ (x \in Entering' /\ x \in Eliminating')
    BY <1>0, <1>1, <1>2, <1>5 DEF UniqueInv
  <2>4. \A x \in Activity : ~ (x \in Finishing' /\ x \in Leaving')
    BY <1>0, <1>5 DEF UniqueInv
  <2> QED BY <2>1, <2>2, <2>3, <2>4, <1>0, <1>5 DEF UniqueInv
<1>15. PhaseInv'
  BY Domains, <1>0, <1>1, <1>2, <1>3, <1>5, <1>6 DEF PhaseInv
<1>16. TouchInv'
  BY Domains, <1>0, <1>2, <1>6, <1>7 DEF TouchInv
<1>17. ActiveInv'
  BY Domains, <1>0, <1>1, <1>2, <1>3, <1>5, <1>7 DEF ActiveInv, definition
<1>18. EndedInv'
  BY Domains, <1>0, <1>1, <1>2, <1>3, <1>5, <1>7 DEF EndedInv, tokens
<1>19. LeftInv'
  BY Domains, <1>0, <1>1, <1>2, <1>3, <1>5, <1>7 DEF LeftInv
<1>20. SequenceInv'
  BY Domains, <1>0, <1>1, <1>2, <1>3, <1>7, <1>8 DEF SequenceInv
<1>21. BranchInv'
  BY CallTypes, Domains, <1>0, <1>1, <1>2, <1>3, <1>5, <1>7, <1>8 DEF BranchInv
<1>22. HoldInv'
  <2>1. a \in Holders
    BY <1>1 DEF Holders
  <2> QED BY <2>1, <1>0, <1>1, <1>2, <1>7 DEF HoldInv
<1>23. NodeInv'
  <2>1. \A y \in Activity : phase'[y] = "entered" => TokenOf(y) \in DOMAIN parent /\ node[TokenOf(y)] = y
    BY <1>0, <1>2, <1>3 DEF NodeInv
  <2>2. ASSUME NEW tk \in DOMAIN parent, node[tk] # None
        PROVE  /\ phase'[node[tk]] # "idle"
               /\ node[tk] \in Basic /\ phase'[node[tk]] = "dead" => node[tk] \notin Awaiting'
    <3>1. node[tk] \in Activity
      BY <2>2, <1>0 DEF TypeOK
    <3> QED BY <2>2, <3>1, <1>0, <1>2, <1>3, <1>7 DEF NodeInv
  <2>3. \A tk \in DOMAIN parent : node[tk] \in Basic => node[tk] # None
    BY Shapes DEF Basic
  <2> QED BY <2>1, <2>2, <2>3, <1>3 DEF NodeInv, tokens
<1>24. TargetInv'
  BY Domains, <1>0, <1>1, <1>2, <1>3, <1>5 DEF TargetInv, links
<1>25. NoticeInv'
  BY <1>5 DEF NoticeInv
<1>26. LinkInv'
  BY Domains, Shapes, <1>0, <1>1, <1>2, <1>3, <1>5, <1>7, SourceOf DEF LinkInv, links, Flows
<1>27. MeaningInv'
  <2>1. \A x \in ChildSet(a) : x # choice[a] => ~ Performed[x]
    BY <1>1, <1>2, PerformedEquation DEF Eligible
  <2>2. choice[a] # None => Eligible(choice[a])
    BY <1>1, <1>2 DEF Eligible
  <2>3. \A x \in Activity : phase'[x] \in {"skipped", "dead"} \/ x \in Skipping' \/ x \in Eliminating' => ~ Performed[x]
    BY <2>1, <1>0, <1>3, <1>5 DEF MeaningInv
  <2>4. \A x \in Activity : phase'[x] \in {"started", "left"} \/ x \in Executing' => Performed[x]
    BY <1>0, <1>3, <1>5 DEF MeaningInv
  <2>5. \A x \in Activity : phase'[x] = "entered" \/ x \in Entering' => Eligible(x)
    BY <2>2, <1>0, <1>3, <1>5 DEF MeaningInv
  <2>6. \A x \in Activity : Eligible(x)' = Eligible(x)
    BY <1>3, <1>6 DEF Eligible, definition
  <2>7. \A c \in pending' : c.op = "determine" => c \in pending
    BY <1>5
  <2> QED BY <2>3, <2>4, <2>5, <2>6, <2>7, <1>0, <1>3, <1>6 DEF MeaningInv, definition, links
<1>28. ChoiceInv'
  BY <1>0, <1>3 DEF ChoiceInv, definition
<1>z. DeadInv /\ TakenInv /\ DoneInv /\ FiredInv
  BY FurtherParts
<1>29. DeadInv'
  BY Domains, <1>0, <1>z, <1>2, <1>3, <1>5 DEF DeadInv, PhaseInv
<1>30. TakenInv'
  BY Domains, StructureOf, <1>0, <1>z, <1>1, <1>2, <1>3, <1>5, <1>6 DEF TakenInv, PhaseInv, definition
<1>31. DoneInv'
  BY Domains, StructureOf, <1>0, <1>z, <1>1, <1>2, <1>3, <1>5, <1>7 DEF DoneInv, definition
<1>32. FiredInv'
  BY Domains, <1>0, <1>z, <1>2, <1>3, <1>5, <1>7 DEF FiredInv, links
<1> QED BY <1>5, <1>10, <1>11, <1>12, <1>13, <1>14, <1>15, <1>16, <1>17, <1>18, <1>19, <1>20, <1>21, <1>22,
           <1>23, <1>24, <1>25, <1>26, <1>27, <1>28, <1>29, <1>30, <1>31, <1>32 DEF FlowInv

LEMMA BranchSets ==
  ASSUME TypeOK, ChoiceInv, NEW a \in Choice, NEW t \in Token, NEW M, M = ToSet(TakeBranch(a, t))
  PROVE  /\ \A x : x \in Made(M, "enter") <=> choice[a] # None /\ x = choice[a]
         /\ \A x : x \in Made(M, "eliminate") <=> x \in ChildSet(a) /\ x # choice[a]
         /\ \A x : x \in Made(M, "end") <=> choice[a] = None /\ x = a
         /\ \A x : /\ x \notin Made(M, "execute") /\ x \notin Made(M, "skip") /\ x \notin Made(M, "leave")
                   /\ x \notin Made(M, "proceed") /\ x \notin MadeEnding(M) /\ x \notin MadeDetermining(M)
         /\ \A m \in M : m.op # "targetDetermined" /\ m.op # "branch" /\ m.op # "determine" /\ m.op # "proceed"
<1>1. /\ \A c \in M :
              /\ c \in ActivityCall /\ c.token = t
              /\ \/ c.op = "eliminate" /\ c.activity \in ChildSet(a) /\ c.activity # choice[a]
                 \/ c.op = "enter" /\ c.activity = choice[a] /\ choice[a] \in ChildSet(a)
                 \/ c.op = "end" /\ c.activity = a /\ choice[a] = None
      /\ \A b \in ChildSet(a) : b # choice[a] => Call("eliminate", b, t) \in M
      /\ choice[a] = None => Call("end", a, t) \in M
      /\ choice[a] # None => Call("enter", choice[a], t) \in M
  BY BranchCalls
<1>2. /\ a \in Activity /\ ChildSet(a) \subseteq Activity /\ None \notin Activity /\ a \notin Flows
      /\ choice[a] = None \/ choice[a] \in ChildSet(a)
  BY Shapes DEF Choice, ChoiceInv, Flows
<1>3. \A op, b : Call(op, b, t).op = op /\ Call(op, b, t).activity = b /\ Call(op, b, t).token = t
  BY DEF Call
<1>4. \A x : x \in Made(M, "enter") <=> choice[a] # None /\ x = choice[a]
  BY <1>1, <1>2, <1>3 DEF Made
<1>5. \A x : x \in Made(M, "eliminate") <=> x \in ChildSet(a) /\ x # choice[a]
  BY <1>1, <1>2, <1>3 DEF Made
<1>6. \A x : x \in Made(M, "end") <=> choice[a] = None /\ x = a
  BY <1>1, <1>2, <1>3 DEF Made
<1>7. \A m \in M : m.op \in {"eliminate", "enter", "end"} /\ (m.op = "end" => m.activity \notin Flows)
  BY <1>1, <1>2
<1>8. \A x : /\ x \notin Made(M, "execute") /\ x \notin Made(M, "skip") /\ x \notin Made(M, "leave")
             /\ x \notin Made(M, "proceed") /\ x \notin MadeEnding(M) /\ x \notin MadeDetermining(M)
  BY <1>7 DEF Made, MadeEnding, MadeDetermining
<1> QED BY <1>4, <1>5, <1>6, <1>7, <1>8

LEMMA ExecuteIfKeeps ==
  ASSUME FlowInv, ExecuteIf
  PROVE  FlowInv'
<1> DEFINE a == call.activity
           t == call.token
           made == TakeBranch(a, t)
           M == ToSet(made)
<1>0. TypeOK /\ StackInv /\ CallsInv /\ UniqueInv /\ ChoiceInv /\ PhaseInv
  BY Parts
<1>1. calls # <<>> /\ call.op = "execute" /\ Kind[a] = "if"
  BY DEF ExecuteIf, Calling
<1>2. /\ call \in pending /\ a \in Activity
      /\ t = TokenOf(a) /\ t \in DOMAIN parent /\ t \in Token
      /\ a \in Executing /\ phase[a] = "entered" /\ Performed[a] /\ a \in Touched
      /\ a \notin Entering /\ a \notin Skipping /\ a \notin Leaving /\ a \notin Proceeding
      /\ a \notin Eliminating /\ a \notin Finishing /\ a \notin Ending /\ a \notin Waiting
      /\ \A x \in ChildSet(a) : x \notin Touched
      /\ \A x \in Touched : x # Root => Structure(x) # a
      /\ a \notin Awaiting
  BY <1>1, ExecuteTop
<1>3. /\ \A c : c \notin Notices
      /\ Top("enter") = {} /\ Top("execute") = {a} /\ Top("skip") = {} /\ Top("leave") = {} /\ Top("proceed") = {}
      /\ Top("eliminate") = {} /\ Top("end") = {}
      /\ Looping \ {call} = Looping
  BY <1>1, ExecuteTop
<1>4. a \in Choice
  BY <1>1, <1>2 DEF Choice
<1>5. /\ \A x \in Activity : phase'[x] = IF x = a THEN "started" ELSE phase[x]
      /\ phase' \in [Activity -> {"idle", "entered", "started", "left", "skipped", "dead"}]
      /\ UNCHANGED <<definition, tokens, links, waiting, outcome>>
      /\ Then(made)
  BY <1>0, <1>2 DEF ExecuteIf, Reach, TypeOK
<1> HIDE DEF a, t
<1>6. /\ made \in Seq(CallRecord) /\ Injective(made)
      /\ \A c \in M :
           /\ c \in ActivityCall /\ c.token = t
           /\ \/ c.op = "eliminate" /\ c.activity \in ChildSet(a) /\ c.activity # choice[a]
              \/ c.op = "enter" /\ c.activity = choice[a] /\ choice[a] \in ChildSet(a)
              \/ c.op = "end" /\ c.activity = a /\ choice[a] = None
  BY <1>0, <1>2, <1>4, BranchCalls
<1>7. /\ \A x : x \in Made(M, "enter") <=> choice[a] # None /\ x = choice[a]
      /\ \A x : x \in Made(M, "eliminate") <=> x \in ChildSet(a) /\ x # choice[a]
      /\ \A x : x \in Made(M, "end") <=> choice[a] = None /\ x = a
      /\ \A x : /\ x \notin Made(M, "execute") /\ x \notin Made(M, "skip") /\ x \notin Made(M, "leave")
                /\ x \notin Made(M, "proceed") /\ x \notin MadeEnding(M) /\ x \notin MadeDetermining(M)
      /\ \A m \in M : m.op # "targetDetermined" /\ m.op # "branch" /\ m.op # "determine"
  BY <1>0, <1>2, <1>4, BranchSets
<1>8. \A m \in M : m \notin pending
  <2>1. \A x \in ChildSet(a) : x \in Activity /\ x \notin Entering /\ x \notin Eliminating
    BY <1>2, Shapes DEF Touched
  <2>2. a \notin Finishing /\ a \notin Flows
    BY <1>1, <1>2 DEF Flows
  <2> QED BY <2>1, <2>2, <1>2, <1>6 DEF Entering, Eliminating, Finishing, Doing
<1>9. \A m \in M : m \in pending => m = call
  BY <1>8
<1>10. \A i \in DOMAIN made : made[i].op = "targetDetermined" => i = 1
  BY <1>7 DEF ToSet
<1> HIDE DEF made
<1>11. Replaced(M)
  <2>1. Ordered(made)
    <3>1. \A i \in DOMAIN made : made[i] \in M
      BY DEF ToSet
    <3> QED BY <3>1, <1>6 DEF Ordered
  <2> QED BY <2>1, <1>0, <1>1, <1>5, <1>6, <1>9, <1>10, Effect
<1> HIDE DEF M
<1>12. a \notin Flows
  BY <1>1 DEF Flows
<1>13. /\ Executing' = Executing \ {a}
       /\ \A x : x \in Entering' <=> x \in Entering \/ (choice[a] # None /\ x = choice[a])
       /\ \A x : x \in Eliminating' <=> x \in Eliminating \/ (x \in ChildSet(a) /\ x # choice[a])
       /\ \A x : x \in Finishing' <=> x \in Finishing \/ (choice[a] = None /\ x = a)
  <2>1. Executing' = Executing \ {a}
    BY <1>3, <1>7, <1>11 DEF Replaced
  <2>2. \A x : x \in Entering' <=> x \in Entering \/ (choice[a] # None /\ x = choice[a])
    BY <1>3, <1>7, <1>11 DEF Replaced
  <2>3. \A x : x \in Eliminating' <=> x \in Eliminating \/ (x \in ChildSet(a) /\ x # choice[a])
    BY <1>3, <1>7, <1>11 DEF Replaced
  <2>4. \A x : x \in Finishing' <=> x \in Finishing \/ (choice[a] = None /\ x = a)
    BY <1>3, <1>7, <1>11, <1>12 DEF Replaced
  <2> QED BY <2>1, <2>2, <2>3, <2>4
<1>14. /\ UNCHANGED <<Skipping, Leaving, Proceeding, Ending, Determining, Looping>>
       /\ \A c : c \notin Notices'
  <2>1. UNCHANGED <<Skipping, Leaving, Proceeding>>
    BY <1>3, <1>7, <1>11 DEF Replaced
  <2>2. UNCHANGED <<Ending, Determining>>
    BY <1>1, <1>7, <1>11 DEF Replaced
  <2>3. UNCHANGED Looping /\ \A c : c \notin Notices'
    BY <1>3, <1>7, <1>11 DEF Replaced
  <2> QED BY <2>1, <2>2, <2>3
<1>15. \A c \in pending' : c \in pending \/ c \in ToSet(TakeBranch(a, t))
  BY <1>11 DEF M, made, Replaced
<1>16. waiting' \subseteq waiting /\ Waiting' = Waiting \ {a} /\ UNCHANGED <<definition, tokens, links, outcome>>
  BY <1>2, <1>5 DEF Waiting
<1> QED BY <1>2, <1>3, <1>4, <1>5, <1>11, <1>13, <1>14, <1>15, <1>16, TakeBranchKeeps DEF Replaced

(* The activity that a message is for. *)
LEMMA WaitingTop ==
  ASSUME FlowInv, calls = <<>>, NEW w \in waiting, NEW a, a = w.activity, waiting' = waiting \ {w}
  PROVE  /\ a \in Activity /\ a \in Receives \cup Choice /\ w.token = TokenOf(a) /\ w.token \in DOMAIN parent
         /\ w.token \in Token
         /\ a \in Waiting /\ phase[a] = "started" /\ Performed[a] /\ a \in Touched
         /\ \A x \in Touched : x # Root => Structure(x) # a
         /\ a \notin Awaiting
         /\ waiting' \subseteq waiting /\ Waiting' = Waiting \ {a}
         /\ \A c : c \notin pending
         /\ \A x : /\ x \notin Entering /\ x \notin Executing /\ x \notin Skipping /\ x \notin Leaving /\ x \notin Proceeding
                   /\ x \notin Eliminating /\ x \notin Finishing /\ x \notin Ending /\ x \notin Determining
                   /\ x \notin Notices /\ x \notin Looping
<1>0. TypeOK /\ WaitsInv /\ PhaseInv /\ TouchInv /\ TargetInv /\ MeaningInv
  BY Parts
<1>1. /\ \A c : c \notin pending
      /\ \A x : /\ x \notin Entering /\ x \notin Executing /\ x \notin Skipping /\ x \notin Leaving /\ x \notin Proceeding
                /\ x \notin Eliminating /\ x \notin Finishing /\ x \notin Ending /\ x \notin Determining
                /\ x \notin Notices /\ x \notin Looping
  BY NothingPending
<1>2. \A v \in waiting : /\ v \in [op : {"execute"}, activity : Receives \cup Choice, token : Token]
                         /\ v.token = TokenOf(v.activity) /\ v.token \in DOMAIN parent
                         /\ v.activity \in Activity
  BY <1>0, Shapes DEF TypeOK, WaitsInv, Basic, Choice
<1>3. a \in Activity /\ a \in Receives \cup Choice /\ w.token = TokenOf(a) /\ w.token \in DOMAIN parent /\ w.token \in Token
  BY <1>2
<1>4. a \in Waiting
  BY <1>3 DEF Waiting
<1>5. phase[a] = "started" /\ Performed[a] /\ a \in Touched
  BY <1>0, <1>3, <1>4 DEF PhaseInv, MeaningInv, Touched
<1>6. \A x \in Touched : x # Root => Structure(x) # a
  BY <1>0, <1>4 DEF TouchInv
<1>7. a \notin Awaiting
  BY <1>0, <1>1, <1>5 DEF TargetInv, Awaiting, Targets
<1>8. waiting' \subseteq waiting /\ Waiting' = Waiting \ {a}
  <2>1. \A v \in waiting : v.activity = a => v = w
    BY <1>2
  <2> QED BY <2>1, <1>3 DEF Waiting
<1> QED BY <1>1, <1>3, <1>4, <1>5, <1>6, <1>7, <1>8

LEMMA PickKeeps ==
  ASSUME FlowInv, calls = <<>>, NEW w \in waiting, w.activity \notin Basic, waiting' = waiting \ {w},
         calls' = TakeBranch(w.activity, w.token), UNCHANGED <<definition, tokens, links, phase, outcome>>
  PROVE  FlowInv'
<1> DEFINE a == w.activity
           t == w.token
           M == ToSet(TakeBranch(a, t))
<1>0. TypeOK /\ ChoiceInv
  BY Parts
<1>1. /\ a \in Activity /\ a \in Choice /\ t = TokenOf(a) /\ t \in DOMAIN parent /\ t \in Token
      /\ a \in Waiting /\ phase[a] = "started" /\ Performed[a] /\ a \in Touched
      /\ \A x \in Touched : x # Root => Structure(x) # a
      /\ a \notin Awaiting
      /\ waiting' \subseteq waiting /\ Waiting' = Waiting \ {a}
      /\ \A c : c \notin pending
      /\ \A x : /\ x \notin Entering /\ x \notin Executing /\ x \notin Skipping /\ x \notin Leaving /\ x \notin Proceeding
                /\ x \notin Eliminating /\ x \notin Finishing /\ x \notin Ending /\ x \notin Determining
                /\ x \notin Notices /\ x \notin Looping
  BY WaitingTop, Shapes
<1>2. calls' = TakeBranch(a, t) /\ UNCHANGED <<definition, tokens, links, phase, outcome>>
  OBVIOUS
<1> HIDE DEF a, t
<1>3. /\ TakeBranch(a, t) \in Seq(CallRecord) /\ Injective(TakeBranch(a, t))
  BY <1>0, <1>1, BranchCalls
<1>4. /\ \A x : x \in Made(M, "enter") <=> choice[a] # None /\ x = choice[a]
      /\ \A x : x \in Made(M, "eliminate") <=> x \in ChildSet(a) /\ x # choice[a]
      /\ \A x : x \in Made(M, "end") <=> choice[a] = None /\ x = a
      /\ \A x : /\ x \notin Made(M, "execute") /\ x \notin Made(M, "skip") /\ x \notin Made(M, "leave")
                /\ x \notin Made(M, "proceed") /\ x \notin MadeEnding(M) /\ x \notin MadeDetermining(M)
      /\ \A m \in M : m.op # "targetDetermined" /\ m.op # "branch" /\ m.op # "determine" /\ m.op # "proceed"
  BY <1>0, <1>1, BranchSets
<1>5. /\ calls' \in Seq(CallRecord) /\ StackInv' /\ pending' = M
      /\ Entering' = Made(M, "enter") /\ Executing' = Made(M, "execute")
      /\ Skipping' = Made(M, "skip") /\ Leaving' = Made(M, "leave")
      /\ Proceeding' = Made(M, "proceed") /\ Eliminating' = Made(M, "eliminate")
      /\ Finishing' = Made(M, "end") \ Flows /\ Ending' = MadeEnding(M)
      /\ Determining' = MadeDetermining(M)
      /\ \A c : c \notin Notices'
      /\ Looping' = {m \in M : m.op = "branch"}
  BY <1>2, <1>3, <1>4, EffectOfMessage
<1> HIDE DEF M
<1>6. a \notin Flows
  BY <1>1 DEF Choice, Flows
<1>7. /\ Executing' = Executing \ {a}
      /\ \A x : x \in Entering' <=> x \in Entering \/ (choice[a] # None /\ x = choice[a])
      /\ \A x : x \in Eliminating' <=> x \in Eliminating \/ (x \in ChildSet(a) /\ x # choice[a])
      /\ \A x : x \in Finishing' <=> x \in Finishing \/ (choice[a] = None /\ x = a)
  BY <1>1, <1>4, <1>5, <1>6
<1>8. UNCHANGED <<Skipping, Leaving, Proceeding, Ending, Determining, Looping>>
  BY <1>1, <1>4, <1>5
<1>9. /\ \A x \in Activity : phase'[x] = IF x = a THEN "started" ELSE phase[x]
      /\ phase' \in [Activity -> {"idle", "entered", "started", "left", "skipped", "dead"}]
      /\ UNCHANGED <<definition, tokens, links, outcome>>
  BY <1>0, <1>1, <1>2 DEF TypeOK
<1>10. \A c \in pending' : c \in pending \/ c \in ToSet(TakeBranch(a, t))
  BY <1>5 DEF M
<1> QED BY <1>1, <1>5, <1>7, <1>8, <1>9, <1>10, TakeBranchKeeps

(* A basic activity that gets its message. *)
LEMMA ReceiveKeeps ==
  ASSUME FlowInv, calls = <<>>, NEW w \in waiting, w.activity \in Basic, waiting' = waiting \ {w},
         calls' = <<Call("leave", w.activity, w.token)>>, UNCHANGED <<definition, tokens, links, phase, outcome>>
  PROVE  FlowInv'
<1> DEFINE a == w.activity
           t == w.token
           c == Call("leave", a, t)
<1>0. /\ TypeOK /\ StackInv /\ CallsInv /\ WaitsInv /\ TokensInv /\ UniqueInv /\ PhaseInv
      /\ TouchInv /\ ActiveInv /\ EndedInv /\ LeftInv /\ SequenceInv /\ BranchInv /\ HoldInv
      /\ NodeInv /\ TargetInv /\ NoticeInv /\ LinkInv /\ MeaningInv /\ ChoiceInv
  BY Parts
<1>1. a \in Basic
  OBVIOUS
<1>2. /\ a \in Activity /\ t = TokenOf(a) /\ t \in DOMAIN parent /\ t \in Token
      /\ a \in Waiting /\ phase[a] = "started" /\ Performed[a] /\ a \in Touched
      /\ a \notin Awaiting
      /\ waiting' \subseteq waiting /\ Waiting' = Waiting \ {a}
      /\ \A d : d \notin pending
      /\ \A x : /\ x \notin Entering /\ x \notin Executing /\ x \notin Skipping /\ x \notin Leaving /\ x \notin Proceeding
                /\ x \notin Eliminating /\ x \notin Finishing /\ x \notin Ending /\ x \notin Determining
                /\ x \notin Notices /\ x \notin Looping
  BY WaitingTop
<1>3. UNCHANGED <<definition, tokens, links, phase, outcome>> /\ waiting' \subseteq waiting
  OBVIOUS
<1>4. a \notin Flows
  BY <1>1 DEF Basic, Flows
<1>5. /\ calls' \in Seq(CallRecord) /\ StackInv'
      /\ \A d \in pending' : d.op = "leave" /\ d.activity = a /\ d.token = t
      /\ \A d, e \in pending' : d = e
      /\ Leaving' = {a}
      /\ \A x : /\ x \notin Entering' /\ x \notin Executing' /\ x \notin Skipping' /\ x \notin Proceeding'
                /\ x \notin Eliminating' /\ x \notin Finishing' /\ x \notin Ending' /\ x \notin Determining'
                /\ x \notin Notices' /\ x \notin Looping'
  <2>1. c \in CallRecord /\ c.op = "leave" /\ c.activity = a /\ c.token = t
    BY <1>2 DEF Call, ActivityCall, CallRecord
  <2>2. calls' = <<c>>
    OBVIOUS
  <2> HIDE DEF c
  <2>3. <<c>> \in Seq(CallRecord) /\ Injective(<<c>>) /\ \A d : d \in ToSet(<<c>>) <=> d = c
    BY <2>1, SingleCall
  <2> DEFINE M == ToSet(<<c>>)
  <2>4. /\ calls' \in Seq(CallRecord) /\ StackInv' /\ pending' = M
        /\ Entering' = Made(M, "enter") /\ Executing' = Made(M, "execute")
        /\ Skipping' = Made(M, "skip") /\ Leaving' = Made(M, "leave")
        /\ Proceeding' = Made(M, "proceed") /\ Eliminating' = Made(M, "eliminate")
        /\ Finishing' = Made(M, "end") \ Flows /\ Ending' = MadeEnding(M)
        /\ Determining' = MadeDetermining(M)
        /\ \A d : d \notin Notices'
        /\ Looping' = {m \in M : m.op = "branch"}
    BY <2>1, <2>2, <2>3, EffectOfMessage
  <2> HIDE DEF M
  <2>5. /\ \A x : /\ x \notin Made(M, "enter") /\ x \notin Made(M, "execute") /\ x \notin Made(M, "skip")
                  /\ x \notin Made(M, "proceed") /\ x \notin Made(M, "eliminate") /\ x \notin Made(M, "end")
                  /\ x \notin MadeEnding(M) /\ x \notin MadeDetermining(M)
        /\ \A x : x \in Made(M, "leave") <=> x = a
        /\ \A m : m \in M <=> m = c
    BY <1>2, <2>1, <2>3 DEF Made, MadeEnding, MadeDetermining, M
  <2>6. Leaving' = {a}
    BY <2>4, <2>5
  <2>7. \A x : /\ x \notin Entering' /\ x \notin Executing' /\ x \notin Skipping' /\ x \notin Proceeding'
               /\ x \notin Eliminating' /\ x \notin Finishing' /\ x \notin Ending' /\ x \notin Determining'
    BY <2>4, <2>5
  <2>8. \A x : x \notin Notices' /\ x \notin Looping'
    BY <2>1, <2>4, <2>5
  <2> QED BY <2>1, <2>4, <2>5, <2>6, <2>7, <2>8
<1> HIDE DEF a, t, c
<1>6. Waiting' = Waiting \ {a} /\ Performed' = Performed
  BY <1>2, <1>3, PerformedStays DEF definition
<1>7. /\ Touched' = Touched /\ Opened' = Opened /\ Settled' = Settled
      /\ Active' = Active /\ Holders' = Holders /\ Awaiting' = Awaiting
  <2>1. Touched' = Touched
    BY <1>2, <1>3, <1>5 DEF Touched
  <2>2. Opened' = Opened
    BY <1>3 DEF Opened
  <2>3. Settled' = Settled
    BY <1>2, <1>3, <1>5 DEF Settled
  <2>4. Active' = Active
    BY <1>2, <1>3, <1>5 DEF Active
  <2>5. Holders' = Holders
    BY <1>1, <1>2, <1>3, <1>5, <1>6 DEF Holders
  <2>6. Awaiting' = Awaiting
    BY <1>2, <1>3, <1>5 DEF Awaiting, links
  <2> QED BY <2>1, <2>2, <2>3, <2>4, <2>5, <2>6
<1>10. TypeOK'
  BY <1>0, <1>3, <1>5 DEF TypeOK, CallRecord, definition, tokens, links
<1>11. CallsInv'
  BY <1>0, <1>2, <1>3, <1>5 DEF CallsInv, ThreadOps, tokens
<1>12. WaitsInv'
  BY <1>0, <1>3 DEF WaitsInv, tokens
<1>13. TokensInv'
  BY Domains, <1>0, <1>2, <1>3, <1>7 DEF TokensInv, tokens
<1>14. UniqueInv'
  BY <1>0, <1>1, <1>2, <1>5 DEF UniqueInv
<1>15. PhaseInv'
  BY Domains, <1>0, <1>1, <1>2, <1>3, <1>5, <1>6 DEF PhaseInv
<1>16. TouchInv'
  BY Domains, <1>0, <1>2, <1>6, <1>7 DEF TouchInv
<1>17. ActiveInv'
  BY Domains, <1>0, <1>1, <1>2, <1>3, <1>5, <1>7, StructureOf DEF ActiveInv, definition
<1>18. EndedInv'
  BY Domains, <1>0, <1>2, <1>3, <1>5, <1>7 DEF EndedInv, tokens
<1>19. LeftInv'
  BY Domains, <1>0, <1>2, <1>3, <1>4, <1>5, <1>7 DEF LeftInv
<1>20. SequenceInv'
  BY Domains, <1>0, <1>2, <1>3, <1>7 DEF SequenceInv
<1>21. BranchInv'
  BY <1>5 DEF BranchInv
<1>22. HoldInv'
  BY <1>0, <1>2, <1>7 DEF HoldInv
<1>23. NodeInv'
  <2>1. \A y \in Activity : phase'[y] = "entered" => TokenOf(y) \in DOMAIN parent /\ node[TokenOf(y)] = y
    BY <1>0, <1>2, <1>3 DEF NodeInv
  <2>2. ASSUME NEW tk \in DOMAIN parent, node[tk] # None
        PROVE  /\ phase'[node[tk]] # "idle"
               /\ node[tk] \in Basic /\ phase'[node[tk]] = "dead" => node[tk] \notin Awaiting'
    <3>1. node[tk] \in Activity
      BY <2>2, <1>0 DEF TypeOK
    <3> QED BY <2>2, <3>1, <1>0, <1>2, <1>3, <1>7 DEF NodeInv
  <2>3. \A tk \in DOMAIN parent : node[tk] \in Basic => node[tk] # None
    BY Shapes DEF Basic
  <2> QED BY <2>1, <2>2, <2>3, <1>3 DEF NodeInv, tokens
<1>24. TargetInv'
  BY Domains, <1>0, <1>1, <1>2, <1>3, <1>5 DEF TargetInv, links
<1>25. NoticeInv'
  BY <1>5 DEF NoticeInv
<1>26. LinkInv'
  BY Domains, <1>0, <1>1, <1>2, <1>3, <1>5, <1>7, SourceOf DEF LinkInv, links
<1>27. MeaningInv'
  BY Domains, <1>0, <1>1, <1>2, <1>3, <1>5, <1>6 DEF MeaningInv, Eligible, definition, links
<1>28. ChoiceInv'
  BY <1>0, <1>3 DEF ChoiceInv, definition
<1>z. DeadInv /\ TakenInv /\ DoneInv /\ FiredInv
  BY FurtherParts
<1>29. DeadInv'
  BY Domains, <1>0, <1>z, <1>2, <1>3, <1>5 DEF DeadInv, PhaseInv
<1>30. TakenInv'
  BY Domains, StructureOf, <1>0, <1>z, <1>1, <1>2, <1>3, <1>5, <1>6 DEF TakenInv, PhaseInv, definition, Choice, Basic
<1>31. DoneInv'
  BY Domains, StructureOf, <1>0, <1>z, <1>1, <1>2, <1>3, <1>5, <1>7 DEF DoneInv, definition, Choice, Basic
<1>32. FiredInv'
  BY Domains, <1>0, <1>z, <1>2, <1>3, <1>5, <1>7 DEF FiredInv, links
<1> QED BY <1>5, <1>10, <1>11, <1>12, <1>13, <1>14, <1>15, <1>16, <1>17, <1>18, <1>19, <1>20, <1>21, <1>22,
           <1>23, <1>24, <1>25, <1>26, <1>27, <1>28, <1>29, <1>30, <1>31, <1>32 DEF FlowInv

LEMMA MessageReceivedKeeps ==
  ASSUME FlowInv, MessageReceived
  PROVE  FlowInv'
<1>1. PICK w \in waiting :
        /\ waiting' = waiting \ {w}
        /\ calls' = IF w.activity \in Basic THEN <<Call("leave", w.activity, w.token)>>
                    ELSE TakeBranch(w.activity, w.token)
  BY DEF MessageReceived
<1>2. calls = <<>> /\ UNCHANGED <<definition, tokens, links, phase, outcome>>
  BY DEF MessageReceived
<1>3. CASE w.activity \in Basic
  BY <1>1, <1>2, <1>3, ReceiveKeeps
<1>4. CASE w.activity \notin Basic
  BY <1>1, <1>2, <1>4, PickKeeps
<1> QED BY <1>3, <1>4

(* Flow.execute creates the link instances and a token for every branch. *)
LEMMA ExecuteFlowKeeps ==
  ASSUME FlowInv, ExecuteFlow
  PROVE  FlowInv'
<1> DEFINE a == call.activity
           t == call.token
<1>0. /\ TypeOK /\ StackInv /\ CallsInv /\ WaitsInv /\ TokensInv /\ UniqueInv /\ PhaseInv
      /\ TouchInv /\ ActiveInv /\ EndedInv /\ LeftInv /\ SequenceInv /\ BranchInv /\ HoldInv
      /\ NodeInv /\ TargetInv /\ NoticeInv /\ LinkInv /\ MeaningInv /\ ChoiceInv
  BY Parts
<1>1. calls # <<>> /\ call.op = "execute" /\ Kind[a] = "flow" /\ a \in Flows /\ a \notin Basic /\ a \notin Choice
  BY <1>0, CallOnTop DEF ExecuteFlow, Calling, Basic, Flows, Choice
<1>2. /\ call \in pending /\ a \in Activity /\ call \in ActivityCall
      /\ t = TokenOf(a) /\ t \in DOMAIN parent /\ t \in Token
      /\ a \in Executing /\ phase[a] = "entered" /\ Performed[a] /\ a \in Touched
      /\ a \notin Entering /\ a \notin Skipping /\ a \notin Leaving /\ a \notin Proceeding
      /\ a \notin Eliminating /\ a \notin Finishing /\ a \notin Ending /\ a \notin Waiting
      /\ \A x \in ChildSet(a) : x \in Activity /\ x # a /\ x # Root /\ Structure(x) = a /\ x \notin Touched
      /\ \A x \in Touched : x # Root => Structure(x) # a
      /\ a \notin Awaiting
  BY <1>1, ExecuteTop
<1>4. /\ \A c : c \notin Notices
      /\ Top("enter") = {} /\ Top("execute") = {a} /\ Top("skip") = {} /\ Top("leave") = {} /\ Top("proceed") = {}
      /\ Top("eliminate") = {} /\ Top("end") = {}
      /\ Looping \ {call} = Looping
  BY <1>1, ExecuteTop
<1> DEFINE new == {<<"branch", b>> : b \in ChildSet(a)}
           up == LinksToken(a, t)
           all == DOMAIN parent \cup {up} \cup new
<1>a. /\ \A b \in ChildSet(a) : /\ b \in Activity /\ b # Root /\ Structure(b) = a /\ <<"branch", b>> \notin DOMAIN parent
                                /\ IsBranch(b)
      /\ \A u \in new : u \notin DOMAIN parent /\ u \in Token /\ u # Main
      /\ <<"links", a>> \notin DOMAIN parent /\ <<"links", a>> \in Token /\ \A f : <<"links", f>> \notin new
      /\ a \notin Opened
  <2>1. \A b \in ChildSet(a) : b \in Activity /\ b # Root /\ Structure(b) = a /\ <<"branch", b>> \notin DOMAIN parent
    <3> HIDE DEF a, t
    <3>1. ASSUME NEW b \in ChildSet(a)
          PROVE  b \in Activity /\ b # Root /\ Structure(b) = a /\ <<"branch", b>> \notin DOMAIN parent
      <4>1. b \in Activity /\ b # Root /\ Structure(b) = a
        BY <1>2, StructureOfChild
      <4>2. phase[Structure(b)] \notin {"started", "left"}
        BY <4>1, <1>2
      <4> QED BY <4>1, <4>2, <1>0 DEF TokensInv
    <3> QED BY <3>1
  <2>2. \A b \in ChildSet(a) : IsBranch(b)
    BY <1>1, <2>1 DEF IsBranch
  <2>3. a \notin Opened
    BY <1>2 DEF Opened
  <2>4. <<"links", a>> \notin DOMAIN parent /\ <<"links", a>> \in Token
    BY <1>0, <1>2, <2>3 DEF TokensInv, Token
  <2>5. \A u \in new : u \notin DOMAIN parent /\ u \in Token /\ u # Main
    BY <2>1 DEF Token, Main
  <2>6. \A f : <<"links", f>> \notin new
    OBVIOUS
  <2> QED BY <2>1, <2>2, <2>3, <2>4, <2>5, <2>6
<1>b. /\ \A l \in Links[a] : /\ l \in Link /\ status[l] = "absent" /\ Target[l] \in Activity /\ Target[l] \notin Touched
                             /\ phase[Target[l]] = "idle" /\ Source(l) \notin Touched /\ Target[l] # a
      /\ \A x \in Activity : x \notin Touched => phase[x] = "idle"
  <2>1. \A l \in Links[a] : l \in Link /\ status[l] = "absent"
    BY <1>0, <1>2, <1>a, Shapes DEF LinkInv
  <2>2. \A l \in Links[a] : Target[l] \in Activity /\ Target[l] \notin Touched /\ Source(l) \notin Touched
    BY <1>0, <2>1, LinksPresent, SourceOf, TargetOf DEF Targets
  <2>3. \A x \in Activity : x \notin Touched => phase[x] = "idle"
    BY DEF Touched
  <2> QED BY <2>1, <2>2, <2>3, <1>2
<1>3. /\ \A x \in Activity : phase'[x] = IF x = a THEN "started" ELSE phase[x]
      /\ DOMAIN parent' = all /\ DOMAIN node' = all
      /\ \A u \in all : parent'[u] = IF u \in new THEN up ELSE IF u \in DOMAIN parent THEN parent[u] ELSE t
      /\ \A u \in all : node'[u] = IF u \in DOMAIN parent THEN node[u] ELSE node[t]
      /\ \A l \in Link : status'[l] = IF l \in Links[a] THEN "unset" ELSE status[l]
      /\ UNCHANGED <<definition, ended, targetToken, waiting, outcome>>
  BY <1>0, <1>1, <1>2 DEF ExecuteFlow, Reach, TypeOK, Create, ChildSet
<1>c. \A u \in DOMAIN parent : u \in DOMAIN parent' /\ parent'[u] = parent[u] /\ node'[u] = node[u]
  BY <1>3, <1>a
<1>5. /\ calls' \in Seq(CallRecord) /\ StackInv'
      /\ \A c \in pending' : c \in pending \/ c = Branch(a, 1)
      /\ Executing' = Executing \ {a} /\ Looping' = Looping \cup {Branch(a, 1)}
      /\ UNCHANGED <<Entering, Skipping, Leaving, Proceeding, Eliminating, Finishing, Ending, Determining>>
      /\ \A c : c \notin Notices'
      /\ Branch(a, 1).op = "branch" /\ Branch(a, 1).activity = a /\ Branch(a, 1).index = 1
      /\ Branch(a, 1) \notin pending
  <2> DEFINE c == Branch(a, 1)
  <2>1. c \in BranchCall /\ c.op = "branch" /\ c.activity = a /\ c.index = 1
    BY <1>2 DEF Branch, BranchCall
  <2>2. c \notin pending
    BY <1>0, <1>2, <2>1 DEF BranchInv, Looping
  <2>3. Then(<<c>>)
    BY <1>1 DEF ExecuteFlow
  <2> HIDE DEF c, a, t
  <2>4. Continued(c)
    BY <1>0, <1>1, <2>1, <2>2, <2>3, EffectOfBranch
  <2>5. /\ Executing' = Executing \ {a} /\ Looping' = Looping \cup {c}
        /\ UNCHANGED <<Entering, Skipping, Leaving, Proceeding, Eliminating, Finishing>>
    BY <1>4, <2>4 DEF Continued
  <2>6. UNCHANGED <<Ending, Determining>> /\ \A d : d \notin Notices'
    BY <1>1, <1>4, <2>4 DEF Continued
  <2> QED BY <2>1, <2>2, <2>4, <2>5, <2>6 DEF c, Continued
<1> HIDE DEF a, t, new, up, all
<1>6. Waiting' = Waiting /\ Performed' = Performed
  BY <1>3, PerformedStays DEF Waiting, definition
<1>7. /\ Touched' = Touched /\ Opened' = Opened \cup {a} /\ Settled' = Settled
      /\ Active' = Active /\ Holders' = Holders
      /\ \A x \in Awaiting' : x \in Awaiting \/ x \notin Touched
  <2>1. Touched' = Touched
    BY <1>2, <1>3, <1>5 DEF Touched
  <2>2. Opened' = Opened \cup {a}
    BY <1>2, <1>3 DEF Opened
  <2>3. Settled' = Settled
    BY <1>2, <1>3, <1>5 DEF Settled
  <2>4. Active' = Active
    BY <1>2, <1>3, <1>5 DEF Active
  <2>5. Holders' = Holders
    BY <1>1, <1>2, <1>3, <1>5, <1>6 DEF Holders
  <2>6. \A x \in Awaiting' : x \in Awaiting \/ x \notin Touched
    BY <1>3, <1>4, <1>5, <1>b DEF Awaiting, Targets
  <2> QED BY <2>1, <2>2, <2>3, <2>4, <2>5, <2>6
<1>8. \A x \in Activity : x \notin Touched => phase'[x] = "idle"
  BY <1>2, <1>3, <1>b
<1>10. TypeOK'
  <2>1. phase' \in [Activity -> {"idle", "entered", "started", "left", "skipped", "dead"}]
    BY <1>0, <1>2 DEF TypeOK, ExecuteFlow, Reach, a
  <2>2. \A u \in new : u \in Token
    BY <1>a
  <2>3. up \in Token /\ up \in all /\ t \in all
    BY <1>2, <1>a DEF up, LinksToken, all
  <2>4. DOMAIN parent' \subseteq Token /\ DOMAIN node' = DOMAIN parent'
    BY <2>2, <2>3, <1>0, <1>3 DEF all, TypeOK
  <2>5. ASSUME NEW u \in DOMAIN parent', u # Main
        PROVE  parent'[u] \in DOMAIN parent'
    <3>1. CASE u \in new
      BY <3>1, <2>3, <1>3
    <3>2. CASE u \in DOMAIN parent /\ u \notin new
      BY <3>2, <2>5, <1>0, <1>3 DEF TypeOK, all
    <3>3. CASE u \notin DOMAIN parent /\ u \notin new
      BY <3>3, <2>3, <1>3
    <3> QED BY <3>1, <3>2, <3>3
  <2>6. \A u \in DOMAIN parent' : node'[u] \in Activity \cup {None}
    BY <1>0, <1>2, <1>3 DEF TypeOK
  <2>7. ended' \subseteq DOMAIN parent' /\ targetToken' \in [Link -> DOMAIN parent' \cup {None}]
    BY <1>0, <1>3 DEF TypeOK, all
  <2>8. status' \in [Link -> {"absent", "unset", "true", "false"}]
    BY <1>0, <1>1 DEF TypeOK, ExecuteFlow, Create
  <2> QED BY <2>1, <2>4, <2>5, <2>6, <2>7, <2>8, <1>0, <1>3, <1>5 DEF TypeOK, CallRecord, definition
<1>11. CallsInv'
  BY <1>0, <1>1, <1>2, <1>5, <1>c, FirstChild DEF CallsInv, ThreadOps
<1>12. WaitsInv'
  BY <1>0, <1>3, <1>c DEF WaitsInv
<1>13. TokensInv'
  <2>1. Main \in DOMAIN parent'
    BY <1>0, <1>c DEF TokensInv
  <2>2. ASSUME NEW b \in Activity, <<"branch", b>> \in DOMAIN parent', <<"branch", b>> \notin DOMAIN parent
        PROVE  b \in ChildSet(a) /\ <<"branch", b>> \in new
    <3>1. up = t \/ up = <<"links", a>>
      BY DEF up, LinksToken
    <3>2. <<"branch", b>> \in new
      BY <2>2, <3>1, <1>2, <1>3 DEF all
    <3> QED BY <3>2 DEF new
  <2>3. \A b \in Activity : <<"branch", b>> \in DOMAIN parent' => IsBranch(b)
    BY <2>2, <1>0, <1>a DEF TokensInv
  <2>4. ASSUME NEW b \in Activity \ {Root}, <<"branch", b>> \in DOMAIN parent'
        PROVE  /\ phase'[Structure(b)] \in {"started", "left"}
               /\ parent'[<<"branch", b>>] = LinksToken(Structure(b), TokenOf(Structure(b)))
               /\ Links[Structure(b)] # {} => parent'[<<"links", Structure(b)>>] = TokenOf(Structure(b))
    <3>1. CASE <<"branch", b>> \in DOMAIN parent
      <4>1. /\ Structure(b) \in Activity /\ phase[Structure(b)] \in {"started", "left"}
            /\ parent[<<"branch", b>>] = LinksToken(Structure(b), TokenOf(Structure(b)))
            /\ Links[Structure(b)] # {} => parent[<<"links", Structure(b)>>] = TokenOf(Structure(b))
        BY <3>1, <1>0, StructureOf DEF TokensInv
      <4>2. parent[<<"branch", b>>] \in DOMAIN parent
        BY <3>1, <1>0 DEF TypeOK, Main
      <4>3. Links[Structure(b)] # {} => <<"links", Structure(b)>> \in DOMAIN parent
        BY <4>1, <4>2 DEF LinksToken
      <4> QED BY <3>1, <4>1, <4>3, <1>3, <1>c
    <3>2. CASE <<"branch", b>> \notin DOMAIN parent
      <4>1. Structure(b) = a /\ <<"branch", b>> \in new
        BY <3>2, <2>2, <2>4, <1>a
      <4>2. parent'[<<"branch", b>>] = up
        BY <4>1, <2>4, <1>3
      <4>3. ASSUME Links[a] # {} PROVE parent'[<<"links", a>>] = t
        <5>1. <<"links", a>> \in all
          BY <4>3 DEF all, up, LinksToken
        <5> QED BY <5>1, <1>3, <1>a
      <4> QED BY <4>1, <4>2, <4>3, <1>2, <1>3 DEF up
    <3> QED BY <3>1, <3>2
  <2>5. ASSUME NEW f \in Flows, phase'[f] \in {"started", "left"}, NEW b \in ChildSet(f)
        PROVE  <<"branch", b>> \in DOMAIN parent'
    <3>1. CASE f = a
      BY <3>1, <1>3 DEF all, new
    <3>2. CASE f # a
      BY <3>2, <2>5, <1>0, <1>3, <1>c, Domains DEF TokensInv
    <3> QED BY <3>1, <3>2
  <2>6. ASSUME NEW f \in Activity, <<"links", f>> \in DOMAIN parent' PROVE f \in Opened'
    <3>1. CASE <<"links", f>> \in DOMAIN parent
      BY <3>1, <1>0, <1>7 DEF TokensInv
    <3>2. CASE <<"links", f>> \notin DOMAIN parent
      <4>1. <<"links", f>> = up
        BY <3>2, <2>6, <1>3, <1>a DEF all
      <4>2. up = t \/ up = <<"links", a>>
        BY DEF up, LinksToken
      <4>3. f = a
        BY <3>2, <4>1, <4>2, <1>2
      <4> QED BY <4>3, <1>7
    <3> QED BY <3>1, <3>2
  <2> QED BY <2>1, <2>3, <2>4, <2>5, <2>6 DEF TokensInv
<1>14. UniqueInv'
  BY <1>0, <1>1, <1>2, <1>5, CallTypes DEF UniqueInv, BranchInv
<1>15. PhaseInv'
  BY Domains, <1>0, <1>1, <1>2, <1>3, <1>5, <1>6 DEF PhaseInv
<1>16. TouchInv'
  BY Domains, <1>0, <1>2, <1>6, <1>7 DEF TouchInv
<1>17. ActiveInv'
  BY Domains, <1>0, <1>2, <1>3, <1>5, <1>7 DEF ActiveInv, definition
<1>18. EndedInv'
  BY Domains, <1>0, <1>1, <1>2, <1>3, <1>5, <1>7, <1>a DEF EndedInv, TypeOK
<1>19. LeftInv'
  BY Domains, <1>0, <1>2, <1>3, <1>5, <1>7 DEF LeftInv
<1>20. SequenceInv'
  BY Domains, <1>0, <1>1, <1>2, <1>3, <1>7 DEF SequenceInv
<1>21. BranchInv'
  BY CallTypes, Domains, ChildAt, <1>0, <1>1, <1>2, <1>3, <1>5, <1>7 DEF BranchInv
<1>22. HoldInv'
  BY <1>0, <1>2, <1>7 DEF HoldInv
<1>23. NodeInv'
  <2>1. \A x \in Activity : phase'[x] = "entered" => TokenOf(x) \in DOMAIN parent' /\ node'[TokenOf(x)] = x
    BY <1>0, <1>2, <1>3, <1>c DEF NodeInv
  <2>2. \A x \in Awaiting : x \notin Awaiting' \/ x \in Awaiting
    OBVIOUS
  <2>3. ASSUME NEW u \in DOMAIN parent, node[u] # None
        PROVE  /\ phase'[node[u]] # "idle"
               /\ node[u] \in Basic /\ phase'[node[u]] = "dead" => node[u] \notin Awaiting'
    <3>1. node[u] \in Activity /\ phase[node[u]] # "idle" /\ node[u] \in Touched
      BY <2>3, <1>0 DEF TypeOK, NodeInv, Touched
    <3> QED BY <2>3, <3>1, <1>0, <1>2, <1>3, <1>7 DEF NodeInv
  <2>4. \A u \in DOMAIN parent' : node'[u] = node[t] \/ (u \in DOMAIN parent /\ node'[u] = node[u])
    BY <1>3
  <2>5. \A u \in DOMAIN parent' : node'[u] \in Basic => node'[u] # None
    BY Shapes DEF Basic
  <2> QED BY <2>1, <2>3, <2>4, <2>5, <1>2 DEF NodeInv
<1>24. TargetInv'
  BY Domains, <1>0, <1>1, <1>2, <1>3, <1>5, <1>b DEF TargetInv
<1>25. NoticeInv'
  BY <1>5 DEF NoticeInv
<1>26. LinkInv'
  <2>1. \A x \in Activity : phase'[x] \in {"left", "dead"} => x \in Touched /\ phase[x] = phase'[x]
    BY <1>2, <1>3 DEF Touched
  <2>2. ASSUME NEW l \in Link, status'[l] \in {"true", "false"} \/ l \in Determining'
        PROVE  /\ phase'[Source(l)] \in {"left", "dead"}
               /\ Source(l) \in Basic \/ phase'[Source(l)] = "left" => Source(l) \notin Awaiting'
    <3>1. status[l] \in {"true", "false"} \/ l \in Determining
      BY <2>2, <1>3, <1>5
    <3>2. /\ phase[Source(l)] \in {"left", "dead"} /\ Source(l) \in Activity
          /\ Source(l) \in Basic \/ phase[Source(l)] = "left" => Source(l) \notin Awaiting
      BY <3>1, <1>0, SourceOf DEF LinkInv
    <3>3. phase'[Source(l)] = phase[Source(l)] /\ Source(l) \in Touched
      BY <3>2, <1>2, <1>3 DEF Touched
    <3> QED BY <3>2, <3>3, <1>7
  <2>3. \A l \in Link : l \in Determining' => status'[l] = "unset"
    BY <1>0, <1>3, <1>5 DEF LinkInv
  <2>4. ASSUME NEW l \in Link, NEW f \in Activity, l \in Links[f]
        PROVE  status'[l] = "absent" <=> f \notin Opened'
    <3>1. CASE f = a
      BY <2>4, <3>1, <1>3, <1>7
    <3>2. CASE f # a
      <4>1. l \notin Links[a]
        BY <2>4, <3>2, <1>2, FlowOfLink
      <4> QED BY <2>4, <3>2, <4>1, <1>0, <1>3, <1>7 DEF LinkInv
    <3> QED BY <3>1, <3>2
  <2> QED BY <2>2, <2>3, <2>4 DEF LinkInv
<1>27. MeaningInv'
  BY Domains, <1>0, <1>1, <1>2, <1>3, <1>5, <1>6, <1>b DEF MeaningInv, Eligible, definition
<1>28. ChoiceInv'
  BY <1>0, <1>3 DEF ChoiceInv, definition
<1>z. DeadInv /\ TakenInv /\ DoneInv /\ FiredInv
  BY FurtherParts
<1>29. DeadInv'
  BY Domains, <1>0, <1>z, <1>2, <1>3, <1>5 DEF DeadInv, PhaseInv
<1>30. TakenInv'
  BY Domains, StructureOf, <1>0, <1>z, <1>1, <1>2, <1>3, <1>5, <1>6 DEF TakenInv, PhaseInv, definition, Choice, Basic
<1>31. DoneInv'
  BY Domains, <1>0, <1>z, <1>2, <1>3, <1>5, <1>7 DEF DoneInv, definition
<1>32. FiredInv'
  <2>1. \A x \in Awaiting : x \in Awaiting'
    BY <1>3, <1>4, <1>b DEF Awaiting, Targets
  <2> QED BY <2>1, Domains, <1>z, <1>b, <1>2, <1>3, <1>5 DEF FiredInv
<1> QED BY <1>5, <1>10, <1>11, <1>12, <1>13, <1>14, <1>15, <1>16, <1>17, <1>18, <1>19, <1>20, <1>21, <1>22,
           <1>23, <1>24, <1>25, <1>26, <1>27, <1>28, <1>29, <1>30, <1>31, <1>32 DEF FlowInv

LEMMA PairOfCalls ==
  ASSUME NEW c \in CallRecord, NEW d \in CallRecord, c # d, d.op # "targetDetermined"
  PROVE  /\ <<c, d>> \in Seq(CallRecord) /\ Injective(<<c, d>>) /\ \A e : e \in ToSet(<<c, d>>) <=> e = c \/ e = d
         /\ \A i \in DOMAIN <<c, d>> : <<c, d>>[i].op = "targetDetermined" => i = 1
<1>1. <<c, d>> \in Seq(CallRecord) /\ DOMAIN <<c, d>> = {1, 2} /\ <<c, d>>[1] = c /\ <<c, d>>[2] = d
  OBVIOUS
<1> QED BY <1>1 DEF Injective, ToSet

(* The effect of the call of an activity that is followed by another call. *)
LEMMA EffectOfPair ==
  ASSUME TypeOK, StackInv, CallsInv, UniqueInv, calls # <<>>, NEW c \in CallRecord, NEW d \in CallRecord,
         c # d, d.op # "targetDetermined", c \notin pending, d \notin pending,
         c.op # "proceed", d.op = "proceed" => d.activity \notin Eliminating, d.op = "proceed" => d.activity \in Activity,
         NEW made, made = <<c, d>>, Then(made), NEW M, M = ToSet(made)
  PROVE  Replaced(M) /\ \A e : e \in M <=> e = c \/ e = d
<1>1. /\ made \in Seq(CallRecord) /\ Injective(made) /\ \A e : e \in M <=> e = c \/ e = d
      /\ \A i \in DOMAIN made : made[i].op = "targetDetermined" => i = 1
  BY PairOfCalls
<1>2. \A m \in ToSet(made) : m \in pending => m = call
  BY <1>1
<1>3. Ordered(made)
  <2>1. DOMAIN made = {1, 2} /\ made[1] = c /\ made[2] = d
    OBVIOUS
  <2>2. \A e \in pending : e.op = "eliminate" /\ d.op = "proceed" => e.activity # d.activity
    BY DEF Eliminating, Doing
  <2> QED BY <2>1, <2>2 DEF Ordered
<1>4. Replaced(M)
  BY <1>1, <1>2, <1>3, Effect
<1> QED BY <1>1, <1>4

(* No activity of a branch has control before the branch is reached. *)
LEMMA NobodyHolds ==
  ASSUME PhaseInv, TouchInv, NEW b \in Activity, b \notin Touched, NEW x \in Holders
  PROVE  BranchOf[x] # b
<1>1. x \in Touched /\ Touched \in SUBSET Activity
  BY ActiveTouched, Domains
<1>2. \A y \in Touched \ {Root} : Structure(y) \in Touched
  <2>1. \A y \in Opened : y \in Touched
    BY DEF Opened, Touched
  <2> QED BY <2>1 DEF TouchInv
<1> QED BY <1>1, <1>2, UpToBranch

(* The loop of Flow.execute enters the next branch, or ends with the flow. *)
LEMMA ExecuteBranchKeeps ==
  ASSUME FlowInv, ExecuteBranch
  PROVE  FlowInv'
<1> DEFINE f == call.activity
           i == call.index
           b == Children[f][i]
           n == Branch(f, i + 1)
<1>0. /\ TypeOK /\ StackInv /\ CallsInv /\ WaitsInv /\ TokensInv /\ UniqueInv /\ PhaseInv
      /\ TouchInv /\ ActiveInv /\ EndedInv /\ LeftInv /\ SequenceInv /\ BranchInv /\ HoldInv
      /\ NodeInv /\ TargetInv /\ NoticeInv /\ LinkInv /\ MeaningInv /\ ChoiceInv
  BY Parts
<1>1. calls # <<>> /\ call.op = "branch"
  BY DEF ExecuteBranch, Calling
<1>2. /\ call \in pending /\ call \in Looping /\ call \in BranchCall /\ f \in Activity /\ f \in Flows /\ f \notin Basic
      /\ i \in DOMAIN Children[f] /\ i \in Nat /\ DOMAIN Children[f] = 1 .. Len(Children[f]) /\ Len(Children[f]) \in Nat
      /\ b \in Activity /\ b \in ChildSet(f) /\ b # Root /\ Structure(b) = f /\ b # f
      /\ TokenOf(b) = <<"branch", b>> /\ BranchOf[b] = b
      /\ phase[f] = "started" /\ Performed[f] /\ f \notin Choice /\ Kind[f] # "sequence"
      /\ \A j \in DOMAIN Children[f] : j >= i => Children[f][j] \notin Touched
      /\ b \notin Touched
  <2>1. call \in pending /\ call \in BranchCall /\ f \in Activity /\ call \in Looping
    BY <1>0, <1>1, CallOnTop, DoingTop
  <2>2. f \in Flows /\ i \in DOMAIN Children[f]
    BY <1>0, <1>1, <2>1 DEF CallsInv
  <2>3. f \notin Basic /\ f \notin Choice /\ Kind[f] # "sequence"
    BY <2>2 DEF Flows, Basic, Choice
  <2>4. DOMAIN Children[f] = 1 .. Len(Children[f]) /\ Len(Children[f]) \in Nat
    BY <2>1, Shapes
  <2>5. b \in Activity /\ b \in ChildSet(f) /\ b # Root /\ Structure(b) = f /\ i \in Nat
    BY <2>1, <2>2, ChildAt, StructureOfChild
  <2>6. TokenOf(b) = <<"branch", b>> /\ BranchOf[b] = b
    BY <2>1, <2>2, <2>5, BranchOfChild
  <2>7. phase[f] = "started" /\ \A j \in DOMAIN Children[f] : j >= i => Children[f][j] \notin Touched
    BY <2>1, <1>0 DEF BranchInv
  <2>8. Performed[f]
    BY <2>1, <2>7, <1>0 DEF MeaningInv
  <2>9. b \notin Touched
    BY <2>2, <2>4, <2>7
  <2>10. b # f
    BY <2>7, <2>9, <2>1 DEF Touched
  <2> QED BY <2>1, <2>2, <2>3, <2>4, <2>5, <2>6, <2>7, <2>8, <2>9, <2>10
<1>a. /\ phase[b] = "idle" /\ b \notin Entering /\ b \notin Executing /\ b \notin Skipping /\ b \notin Leaving
      /\ b \notin Proceeding /\ b \notin Eliminating /\ b \notin Finishing /\ b \notin Ending /\ b \notin Waiting
      /\ <<"branch", b>> \in DOMAIN parent
      /\ f \notin Leaving /\ f \notin Finishing /\ f \notin Waiting
      /\ \A c : c \notin Notices
      /\ \A c \in Looping : c.activity = f => c = call
  <2>1. /\ phase[b] = "idle" /\ b \notin Entering /\ b \notin Executing /\ b \notin Skipping /\ b \notin Leaving
        /\ b \notin Proceeding /\ b \notin Eliminating /\ b \notin Finishing /\ b \notin Ending /\ b \notin Waiting
    BY <1>0, <1>2, ActiveTouched
  <2>2. <<"branch", b>> \in DOMAIN parent
    BY <1>0, <1>2 DEF TokensInv
  <2>3. f \notin Leaving
    BY <2>1, <1>0, <1>2 DEF LeftInv, Settled
  <2>4. f \notin Finishing
    BY <1>2 DEF Finishing
  <2>5. f \notin Waiting
    BY <1>0, <1>2, Shapes DEF Waiting, TypeOK
  <2>6. \A c : c \notin Notices
    BY <1>0, <1>1, OnlyNotice DEF Notices
  <2>7. \A c \in Looping : c.activity = f => c = call
    BY <1>0, <1>2 DEF UniqueInv
  <2> QED BY <2>1, <2>2, <2>3, <2>4, <2>5, <2>6, <2>7
<1>3. UNCHANGED <<definition, tokens, links, waiting, phase, outcome>>
  BY DEF ExecuteBranch
<1>4. \E B \in SUBSET {b}, L \in SUBSET {n} :
        /\ calls' \in Seq(CallRecord) /\ StackInv'
        /\ \A c \in pending' : \/ c \in pending \/ c \in L
                               \/ c.op = "enter" /\ c.activity = b /\ c.token = <<"branch", b>>
        /\ Entering' = Entering \cup B /\ Looping' = (Looping \ {call}) \cup L
        /\ UNCHANGED <<Executing, Skipping, Leaving, Proceeding, Eliminating, Finishing, Ending, Determining>>
        /\ \A c : c \notin Notices'
        /\ n \in L => i + 1 \in DOMAIN Children[f] /\ n.op = "branch" /\ n.activity = f /\ n.index = i + 1
  <2> DEFINE c == Call("enter", b, <<"branch", b>>)
  <2>1. c \in ActivityCall /\ c.op = "enter" /\ c.activity = b /\ c.token = <<"branch", b>> /\ c \in CallRecord
    BY <1>2 DEF Call, ActivityCall, CallRecord, Token
  <2>2. c \notin pending
    <3> HIDE DEF c, b
    <3> QED BY <1>2, <1>a, <2>1 DEF Entering, Doing
  <2>3. n \in BranchCall /\ n.op = "branch" /\ n.activity = f /\ n.index = i + 1 /\ n \in CallRecord
    BY <1>2 DEF Branch, BranchCall, CallRecord
  <2>4. n \notin pending /\ n # c
    <3>1. n # call
      BY <1>2, <2>3
    <3> QED BY <3>1, <1>a, <2>1, <2>3 DEF Looping
  <2>5. \/ Then(<<>>)
        \/ Then(<<c>> \o <<>>)
        \/ i # Len(Children[f]) /\ Then(<<c>> \o <<n>>)
    BY DEF ExecuteBranch
  <2> HIDE DEF c, n, b, i, f
  <2>6. <<c>> \o <<>> = <<c>> /\ <<c>> \o <<n>> = <<c, n>>
    <3>1. ASSUME NEW s \in Seq(CallRecord), NEW u \in Seq(CallRecord), Len(s) = Len(u),
                 \A k \in 1 .. Len(s) : s[k] = u[k]
          PROVE  s = u
      BY <3>1
    <3>2. /\ <<c>> \in Seq(CallRecord) /\ Len(<<c>>) = 1 /\ <<c>>[1] = c
          /\ <<n>> \in Seq(CallRecord) /\ Len(<<n>>) = 1 /\ <<n>>[1] = n
          /\ <<>> \in Seq(CallRecord) /\ Len(<<>>) = 0
          /\ <<c, n>> \in Seq(CallRecord) /\ Len(<<c, n>>) = 2 /\ <<c, n>>[1] = c /\ <<c, n>>[2] = n
      BY <2>1, <2>3
    <3>3. <<c>> \o <<>> = <<c>>
      BY <3>1, <3>2
    <3>4. <<c>> \o <<n>> = <<c, n>>
      <4>1. /\ <<c>> \o <<n>> \in Seq(CallRecord) /\ Len(<<c>> \o <<n>>) = 2
            /\ (<<c>> \o <<n>>)[1] = c /\ (<<c>> \o <<n>>)[2] = n
        BY <3>2
      <4>2. \A k \in 1 .. 2 : k = 1 \/ k = 2
        OBVIOUS
      <4> QED BY <3>1, <3>2, <4>1, <4>2
    <3> QED BY <3>3, <3>4
  <2>7. /\ Top("enter") = {} /\ Top("execute") = {} /\ Top("skip") = {} /\ Top("leave") = {} /\ Top("proceed") = {}
        /\ Top("eliminate") = {} /\ Top("end") = {}
    BY <1>1 DEF Top
  <2>8. CASE Then(<<>>)
    <3>1. Dropped
      BY <2>8, <1>0, <1>1, EffectOfNothing
    <3>2. WITNESS {} \in SUBSET {b}, {} \in SUBSET {n}
    <3> QED BY <3>1, <2>7, <1>1, <1>a DEF Dropped
  <2>9. CASE Then(<<c>> \o <<>>)
    <3>1. ReplacedBy(c)
      BY <2>1, <2>2, <2>6, <2>9, <1>0, <1>1, EffectOfCall
    <3>2. /\ When(c.op = "enter", c.activity) = {b} /\ \A op : op # "enter" => When(c.op = op, c.activity) = {}
          /\ When(c.op = "end" /\ c.activity \notin Flows, c.activity) = {} /\ When(c.op = "targetDetermined", c) = {}
      BY <2>1 DEF When
    <3>3. WITNESS {b} \in SUBSET {b}, {} \in SUBSET {n}
    <3>4. /\ Entering' = Entering \cup {b} /\ Looping' = (Looping \ {call}) \cup {}
          /\ UNCHANGED <<Executing, Skipping, Leaving, Proceeding, Eliminating, Finishing>>
      BY <3>1, <3>2, <2>7 DEF ReplacedBy
    <3>5. UNCHANGED <<Ending, Determining>> /\ \A d : d \notin Notices'
      BY <3>1, <3>2, <2>1, <1>1, <1>a DEF ReplacedBy
    <3> QED BY <3>1, <3>4, <3>5, <2>1 DEF ReplacedBy
  <2>10. CASE i # Len(Children[f]) /\ Then(<<c>> \o <<n>>)
    <3> DEFINE made == <<c, n>>
               M == ToSet(made)
    <3>1. Then(made) /\ n.op # "targetDetermined"
      BY <2>3, <2>6, <2>10
    <3> HIDE DEF made
    <3>2. made = <<c, n>>
      BY DEF made
    <3>3. Replaced(M) /\ \A e : e \in M <=> e = c \/ e = n
      BY <1>0, <1>1, <2>1, <2>2, <2>3, <2>4, <3>1, <3>2, EffectOfPair
    <3> HIDE DEF M
    <3>4. /\ \A x : x \in Made(M, "enter") <=> x = b
          /\ \A x : /\ x \notin Made(M, "execute") /\ x \notin Made(M, "skip") /\ x \notin Made(M, "leave")
                    /\ x \notin Made(M, "proceed") /\ x \notin Made(M, "eliminate") /\ x \notin Made(M, "end")
                    /\ x \notin MadeEnding(M) /\ x \notin MadeDetermining(M)
          /\ \A m : m \in M /\ m.op = "branch" <=> m = n
          /\ \A m \in M : m.op # "targetDetermined"
      BY <3>3, <2>1, <2>3, <1>2 DEF Made, MadeEnding, MadeDetermining
    <3>5. WITNESS {b} \in SUBSET {b}, {n} \in SUBSET {n}
    <3>6. Entering' = Entering \cup {b} /\ Looping' = (Looping \ {call}) \cup {n}
      BY <3>3, <3>4, <2>7 DEF Replaced
    <3>7. UNCHANGED <<Executing, Skipping, Leaving, Proceeding, Eliminating, Finishing>>
      BY <3>3, <3>4, <2>7 DEF Replaced
    <3>8. UNCHANGED <<Ending, Determining>> /\ \A d : d \notin Notices'
      BY <3>3, <3>4, <1>1, <1>a DEF Replaced
    <3>9. \A d \in pending' : d \in pending \/ d = n \/ (d.op = "enter" /\ d.activity = b /\ d.token = <<"branch", b>>)
      BY <3>3, <2>1 DEF Replaced
    <3>10. i + 1 \in DOMAIN Children[f] /\ calls' \in Seq(CallRecord) /\ StackInv'
      BY <2>10, <1>2, <3>3 DEF Replaced
    <3> QED BY <3>6, <3>7, <3>8, <3>9, <3>10, <2>3
  <2> QED BY <2>5, <2>8, <2>9, <2>10
<1>5. PICK B \in SUBSET {b}, L \in SUBSET {n} :
        /\ calls' \in Seq(CallRecord) /\ StackInv'
        /\ \A c \in pending' : \/ c \in pending \/ c \in L
                               \/ c.op = "enter" /\ c.activity = b /\ c.token = <<"branch", b>>
        /\ Entering' = Entering \cup B /\ Looping' = (Looping \ {call}) \cup L
        /\ UNCHANGED <<Executing, Skipping, Leaving, Proceeding, Eliminating, Finishing, Ending, Determining>>
        /\ \A c : c \notin Notices'
        /\ n \in L => i + 1 \in DOMAIN Children[f] /\ n.op = "branch" /\ n.activity = f /\ n.index = i + 1
  BY <1>4
<1> HIDE DEF n, b, i, f
<1>6. Waiting' = Waiting /\ Performed' = Performed
  BY <1>3, PerformedStays DEF Waiting, definition
<1>7. /\ Touched' = Touched \cup B /\ Opened' = Opened /\ Settled' = Settled
      /\ Active' = Active \cup B /\ Holders' = Holders \cup B /\ Awaiting' = Awaiting
  <2>1. Touched' = Touched \cup B
    BY <1>2, <1>3, <1>5 DEF Touched
  <2>2. Opened' = Opened
    BY <1>3 DEF Opened
  <2>3. Settled' = Settled
    BY <1>3, <1>5 DEF Settled
  <2>4. Active' = Active \cup B
    BY <1>2, <1>3, <1>5 DEF Active
  <2>5. Holders' = Holders \cup B
    BY <1>2, <1>3, <1>5, <1>6 DEF Holders
  <2>6. Awaiting' = Awaiting
    BY <1>3, <1>5, <1>a DEF Awaiting, links
  <2> QED BY <2>1, <2>2, <2>3, <2>4, <2>5, <2>6
<1>8. \A s \in Activity : \A j \in DOMAIN Children[s] : Children[s][j] = b => s = f /\ j = i
  BY <1>2, TreeAssumption DEF b
<1>9. f \in Opened
  BY <1>2 DEF Opened
<1>10. TypeOK'
  BY <1>0, <1>3, <1>5 DEF TypeOK, CallRecord, definition, tokens, links
<1>11. CallsInv'
  BY <1>0, <1>2, <1>3, <1>5, <1>a DEF CallsInv, ThreadOps, tokens
<1>12. WaitsInv'
  BY <1>0, <1>3 DEF WaitsInv, tokens
<1>13. TokensInv'
  BY Domains, <1>0, <1>2, <1>3, <1>7 DEF TokensInv, tokens
<1>14. UniqueInv'
  BY <1>0, <1>2, <1>5, <1>a DEF UniqueInv
<1>15. PhaseInv'
  BY Domains, <1>0, <1>2, <1>3, <1>5, <1>6, <1>a DEF PhaseInv
<1>16. TouchInv'
  BY Domains, <1>0, <1>2, <1>6, <1>7, <1>9, <1>a DEF TouchInv
<1>17. ActiveInv'
  BY Domains, <1>0, <1>2, <1>3, <1>5, <1>7, <1>a DEF ActiveInv, definition
<1>18. EndedInv'
  BY Domains, <1>0, <1>2, <1>3, <1>5, <1>7 DEF EndedInv, tokens
<1>19. LeftInv'
  BY Domains, <1>0, <1>2, <1>3, <1>5, <1>7 DEF LeftInv
<1>20. SequenceInv'
  BY Domains, <1>0, <1>2, <1>3, <1>7, <1>8 DEF SequenceInv
<1>21. BranchInv'
  BY CallTypes, Domains, <1>0, <1>2, <1>3, <1>5, <1>7, <1>8, <1>a, SMTT(20) DEF BranchInv
<1>22. HoldInv'
  BY <1>0, <1>2, <1>7, NobodyHolds DEF HoldInv
<1>23. NodeInv'
  BY Domains, <1>0, <1>2, <1>3, <1>5, <1>7 DEF NodeInv, tokens
<1>24. TargetInv'
  BY Domains, <1>0, <1>1, <1>2, <1>3, <1>5 DEF TargetInv, links
<1>25. NoticeInv'
  BY <1>5 DEF NoticeInv
<1>26. LinkInv'
  BY Domains, <1>0, <1>1, <1>2, <1>3, <1>5, <1>7, SourceOf DEF LinkInv, links
<1>27. MeaningInv'
  BY Domains, <1>0, <1>2, <1>3, <1>5, <1>6 DEF MeaningInv, Eligible, definition, links
<1>28. ChoiceInv'
  BY <1>0, <1>3 DEF ChoiceInv, definition
<1>z. DeadInv /\ TakenInv /\ DoneInv /\ FiredInv
  BY FurtherParts
<1>29. DeadInv'
  BY Domains, <1>0, <1>z, <1>2, <1>3, <1>5 DEF DeadInv, PhaseInv
<1>30. TakenInv'
  BY Domains, <1>0, <1>z, <1>2, <1>3, <1>5, <1>6 DEF TakenInv, PhaseInv, definition
<1>31. DoneInv'
  BY Domains, <1>0, <1>z, <1>2, <1>3, <1>5, <1>7 DEF DoneInv, definition
<1>32. FiredInv'
  BY Domains, <1>0, <1>z, <1>2, <1>3, <1>5, <1>7 DEF FiredInv, links
<1> QED BY <1>5, <1>10, <1>11, <1>12, <1>13, <1>14, <1>15, <1>16, <1>17, <1>18, <1>19, <1>20, <1>21, <1>22,
           <1>23, <1>24, <1>25, <1>26, <1>27, <1>28, <1>29, <1>30, <1>31, <1>32 DEF FlowInv

-----------------------------------------------------------------------------
(* Completion. *)

LEMMA EffectOfCalls ==
  ASSUME TypeOK, StackInv, CallsInv, UniqueInv, calls # <<>>, NEW made \in Seq(CallRecord), Injective(made),
         \A m \in ToSet(made) : m \notin pending /\ m.op # "targetDetermined",
         \A m \in ToSet(made) : m.op = "proceed" => m.activity \in Activity /\ m.activity \notin Eliminating,
         \A m, n \in ToSet(made) : ~ (m.op = "proceed" /\ n.op = "eliminate"),
         Then(made), NEW M, M = ToSet(made)
  PROVE  Replaced(M)
<1>1. \A m \in ToSet(made) : m \in pending => m = call
  OBVIOUS
<1>2. \A i \in DOMAIN made : made[i].op = "targetDetermined" => i = 1
  BY DEF ToSet
<1>3. Ordered(made)
  <2>1. \A i \in DOMAIN made : made[i] \in ToSet(made)
    BY DEF ToSet
  <2>2. \A e \in pending : e.op = "eliminate" /\ e.activity \in Activity => e.activity \in Eliminating
    BY DEF Eliminating, Doing
  <2> QED BY <2>1, <2>2 DEF Ordered
<1> QED BY <1>1, <1>2, <1>3, Effect

(* Activity.leave determines the links that leave the activity. *)
LEMMA LeaveKeeps ==
  ASSUME FlowInv, Leave
  PROVE  FlowInv'
<1> DEFINE a == call.activity
           t == call.token
           D == ToSet(Sources[a])
<1>0. /\ TypeOK /\ StackInv /\ CallsInv /\ WaitsInv /\ TokensInv /\ UniqueInv /\ PhaseInv
      /\ TouchInv /\ ActiveInv /\ EndedInv /\ LeftInv /\ SequenceInv /\ BranchInv /\ HoldInv
      /\ NodeInv /\ TargetInv /\ NoticeInv /\ LinkInv /\ MeaningInv /\ ChoiceInv
  BY Parts
<1>1. calls # <<>> /\ call.op = "leave"
  BY DEF Leave, Calling
<1>2. /\ call \in pending /\ a \in Activity /\ t = TokenOf(a) /\ t \in DOMAIN parent /\ t \in Token
      /\ a \in Leaving /\ phase[a] = "started" /\ Performed[a] /\ a \in Touched
      /\ a \notin Entering /\ a \notin Executing /\ a \notin Skipping /\ a \notin Proceeding
      /\ a \notin Eliminating /\ a \notin Finishing /\ a \notin Ending /\ a \notin Waiting
      /\ \A l \in Link : Target[l] = a => status[l] # "unset"
      /\ \A c : c \notin Notices
  <2>1. /\ call \in pending /\ a \in Activity /\ t = TokenOf(a) /\ t \in DOMAIN parent /\ t \in Token
        /\ a \in Leaving
    BY <1>0, <1>1, CallOnTop, DoingTop DEF ThreadOps
  <2>2. phase[a] = "started" /\ a \in Touched
    BY <2>1, <1>0 DEF PhaseInv, Touched
  <2>3. Performed[a]
    BY <2>1, <2>2, <1>0 DEF MeaningInv
  <2>4. /\ a \notin Entering /\ a \notin Executing /\ a \notin Skipping /\ a \notin Proceeding
        /\ a \notin Eliminating /\ a \notin Finishing /\ a \notin Ending /\ a \notin Waiting
    BY <2>1, <2>2, <1>0 DEF PhaseInv, UniqueInv
  <2>5. \A l \in Link : Target[l] = a => status[l] # "unset"
    BY <2>1, <2>2, <1>0 DEF TargetInv
  <2>6. \A c : c \notin Notices
    BY <1>0, <1>1, OnlyNotice DEF Notices
  <2> QED BY <2>1, <2>2, <2>3, <2>4, <2>5, <2>6
<1>a. /\ \A l \in Link : Source(l) = a <=> l \in D
      /\ \A l \in D : l \in Link /\ Source(l) = a /\ l \notin Determining /\ status[l] = "unset"
      /\ \A c \in Looping : c.activity # a
      /\ a \notin Awaiting
  <2>1. \A l \in D : l \in Link /\ Source(l) = a /\ status[l] # "absent"
    BY <1>0, <1>2, SourceOf, LinksPresent
  <2>2. \A l \in Link : Source(l) = a => l \in D
    BY SourceOf
  <2>3. \A l \in Link : Source(l) = a => l \notin Determining /\ status[l] \notin {"true", "false"}
    BY <1>0, <1>2 DEF LinkInv
  <2>4. \A l \in Link : status[l] \in {"absent", "unset", "true", "false"}
    BY <1>0 DEF TypeOK
  <2>5. ASSUME NEW c \in Looping, c.activity = a PROVE FALSE
    <3>1. a \in Flows /\ c.index \in DOMAIN Children[a] /\ c.index \in Nat
      BY <2>5, <1>0, <1>2, CallTypes, ChildAt DEF CallsInv
    <3>2. Children[a][c.index] \in Settled
      BY <3>1, <1>0, <1>2, ChildAt DEF LeftInv
    <3>3. Children[a][c.index] \in Touched
      BY <3>2 DEF Settled, Touched
    <3> QED BY <2>5, <3>1, <3>3, <1>0 DEF BranchInv
  <2>6. a \notin Awaiting
    BY <1>2 DEF Awaiting, Targets
  <2> QED BY <2>1, <2>2, <2>3, <2>4, <2>5, <2>6
<1>3. /\ \A x \in Activity : phase'[x] = IF x = a THEN "left" ELSE phase[x]
      /\ UNCHANGED <<definition, tokens, links, waiting, outcome>>
  BY <1>0, <1>1, <1>2 DEF Leave, Reach, TypeOK
<1>5. /\ calls' \in Seq(CallRecord) /\ StackInv'
      /\ \A c \in pending' : \/ c \in pending
                             \/ c.op = "proceed" /\ c.activity = a /\ c.token = t
                             \/ c.op = "determine" /\ c.link \in D /\ c.value = holds[c.link]
      /\ \A c, d \in pending' : c.op = "determine" /\ d.op = "determine" /\ c.link = d.link => c = d
      /\ Leaving' = Leaving \ {a} /\ Proceeding' = Proceeding \cup {a} /\ Determining' = Determining \cup D
      /\ UNCHANGED <<Entering, Executing, Skipping, Eliminating, Finishing, Ending, Looping>>
      /\ \A c : c \notin Notices'
  <2> DEFINE p == Call("proceed", a, t)
             s == LinkCalls(a, holds)
             made == s \o <<p>>
             M == ToSet(made)
  <2>1. p \in CallRecord /\ p.op = "proceed" /\ p.activity = a /\ p.token = t
    BY <1>2 DEF Call, ActivityCall, CallRecord
  <2>2. Then(made)
    BY DEF Leave, LinkCalls
  <2> HIDE DEF p, a, t
  <2>3. /\ s \in Seq(CallRecord) /\ Injective(s)
        /\ \A c \in ToSet(s) : c.op = "determine" /\ c.link \in D /\ c.value = holds[c.link]
        /\ \A l \in D : \E c \in ToSet(s) : c.op = "determine" /\ c.link = l
        /\ \A c, d \in ToSet(s) : c.link = d.link => c = d
    <3>1. holds \in [Link -> BOOLEAN]
      BY <1>0 DEF TypeOK
    <3> QED BY <3>1, <1>2, Determinations
  <2>4. <<p>> \in Seq(CallRecord) /\ Injective(<<p>>) /\ \A d : d \in ToSet(<<p>>) <=> d = p
    BY <2>1, SingleCall
  <2> HIDE DEF s
  <2>5. \A i \in DOMAIN s, j \in DOMAIN <<p>> : s[i] # <<p>>[j]
    <3>1. \A i \in DOMAIN s : s[i] \in ToSet(s)
      BY DEF ToSet
    <3>2. \A j \in DOMAIN <<p>> : <<p>>[j] = p
      BY <2>1, SingleCall
    <3> QED BY <3>1, <3>2, <2>1, <2>3
  <2>6. made \in Seq(CallRecord) /\ Injective(made) /\ \A c : c \in M <=> c \in ToSet(s) \/ c = p
    BY <2>3, <2>4, <2>5, Concatenation
  <2> HIDE DEF made
  <2>7. \A m \in ToSet(made) : m \notin pending /\ m.op # "targetDetermined"
    <3>1. \A m \in ToSet(s) : m \notin pending
      BY <2>3, <1>a DEF Determining
    <3>2. p \notin pending
      BY <2>1, <1>2 DEF Proceeding, Doing
    <3> QED BY <3>1, <3>2, <2>1, <2>3, <2>6
  <2>8. Replaced(M)
    <3>1. /\ \A m \in ToSet(made) : m.op = "proceed" => m.activity \in Activity /\ m.activity \notin Eliminating
          /\ \A m \in ToSet(made) : m.op # "eliminate"
      BY <2>1, <2>3, <2>6, <1>2
    <3> QED BY <3>1, <1>0, <1>1, <2>2, <2>6, <2>7, EffectOfCalls
  <2> HIDE DEF M, D
  <2>9. /\ \A x : x \in Made(M, "proceed") <=> x = a
        /\ \A x : /\ x \notin Made(M, "enter") /\ x \notin Made(M, "execute") /\ x \notin Made(M, "skip")
                  /\ x \notin Made(M, "leave") /\ x \notin Made(M, "end") /\ x \notin Made(M, "eliminate")
                  /\ x \notin MadeEnding(M)
        /\ \A l : l \in MadeDetermining(M) <=> l \in D
        /\ \A m \in M : m.op # "targetDetermined" /\ m.op # "branch"
    BY <2>6, <2>1, <2>3, <1>2, <1>a DEF Made, MadeEnding, MadeDetermining
  <2>10. /\ Top("enter") = {} /\ Top("execute") = {} /\ Top("skip") = {} /\ Top("leave") = {a} /\ Top("proceed") = {}
         /\ Top("eliminate") = {} /\ Top("end") = {} /\ call \notin Looping
    BY <1>1 DEF Top, a, Looping
  <2>11. Leaving' = Leaving \ {a} /\ Proceeding' = Proceeding \cup {a} /\ Determining' = Determining \cup D
    BY <2>8, <2>9, <2>10, <1>1 DEF Replaced
  <2>12. UNCHANGED <<Entering, Executing, Skipping, Eliminating, Finishing>>
    BY <2>8, <2>9, <2>10 DEF Replaced
  <2>13. UNCHANGED <<Ending, Looping>> /\ \A e : e \notin Notices'
    BY <2>8, <2>9, <2>10, <1>1, <1>2 DEF Replaced
  <2>14. \A c, d \in pending' : c.op = "determine" /\ d.op = "determine" /\ c.link = d.link => c = d
    <3>1. \A c \in ToSet(s), d \in pending : d.op = "determine" => c.link # d.link
      BY <2>3, <1>a DEF Determining
    <3> QED BY <3>1, <2>1, <2>3, <2>6, <2>8, <1>0 DEF UniqueInv, Replaced
  <2>15. \A c \in pending' : \/ c \in pending
                             \/ c.op = "proceed" /\ c.activity = a /\ c.token = t
                             \/ c.op = "determine" /\ c.link \in D /\ c.value = holds[c.link]
    BY <2>1, <2>3, <2>6, <2>8 DEF Replaced
  <2> QED BY <2>8, <2>11, <2>12, <2>13, <2>14, <2>15 DEF Replaced
<1> HIDE DEF a, t, D
<1>6. Waiting' = Waiting /\ Performed' = Performed
  BY <1>3, PerformedStays DEF Waiting, definition
<1>7. UNCHANGED <<Touched, Opened, Settled, Awaiting>> /\ Active' = Active \cup {a} /\ Holders' = Holders
  <2>1. Touched' = Touched
    BY <1>2, <1>3, <1>5 DEF Touched
  <2>2. Opened' = Opened
    BY <1>2, <1>3 DEF Opened
  <2>3. Settled' = Settled
    BY <1>2, <1>3, <1>5 DEF Settled
  <2>4. Active' = Active \cup {a}
    BY <1>2, <1>3, <1>5 DEF Active
  <2>5. Holders' = Holders
    BY <1>2, <1>3, <1>5, <1>6 DEF Holders
  <2>6. Awaiting' = Awaiting
    BY <1>2, <1>3, <1>5 DEF Awaiting, links
  <2> QED BY <2>1, <2>2, <2>3, <2>4, <2>5, <2>6
<1>8. a \in Active
  BY <1>2 DEF Active
<1>10. TypeOK'
  <2>1. phase' \in [Activity -> {"idle", "entered", "started", "left", "skipped", "dead"}]
    BY <1>0, <1>2 DEF TypeOK, Leave, Reach, a
  <2> QED BY <2>1, <1>0, <1>3, <1>5 DEF TypeOK, CallRecord, definition, tokens, links
<1>11. CallsInv'
  BY <1>0, <1>2, <1>3, <1>5 DEF CallsInv, ThreadOps, tokens
<1>12. WaitsInv'
  BY <1>0, <1>3 DEF WaitsInv, tokens
<1>13. TokensInv'
  BY Domains, <1>0, <1>2, <1>3, <1>7 DEF TokensInv, tokens
<1>14. UniqueInv'
  BY <1>0, <1>1, <1>2, <1>5 DEF UniqueInv
<1>15. PhaseInv'
  BY Domains, <1>0, <1>1, <1>2, <1>3, <1>5, <1>6 DEF PhaseInv
<1>16. TouchInv'
  BY Domains, <1>0, <1>2, <1>6, <1>7 DEF TouchInv
<1>17. ActiveInv'
  BY Domains, <1>0, <1>2, <1>3, <1>5, <1>7, <1>8 DEF ActiveInv, definition
<1>18. EndedInv'
  BY Domains, <1>0, <1>2, <1>3, <1>5, <1>7 DEF EndedInv, tokens
<1>19. LeftInv'
  BY Domains, <1>0, <1>2, <1>3, <1>5, <1>7 DEF LeftInv
<1>20. SequenceInv'
  BY Domains, <1>0, <1>2, <1>3, <1>7 DEF SequenceInv
<1>21. BranchInv'
  BY CallTypes, Domains, <1>0, <1>2, <1>3, <1>5, <1>7, <1>a DEF BranchInv
<1>22. HoldInv'
  BY <1>0, <1>2, <1>7 DEF HoldInv
<1>23. NodeInv'
  <2>1. \A y \in Activity : phase'[y] = "entered" => TokenOf(y) \in DOMAIN parent /\ node[TokenOf(y)] = y
    BY <1>0, <1>2, <1>3 DEF NodeInv
  <2>2. ASSUME NEW tk \in DOMAIN parent, node[tk] # None
        PROVE  /\ phase'[node[tk]] # "idle"
               /\ node[tk] \in Basic /\ phase'[node[tk]] = "dead" => node[tk] \notin Awaiting'
    <3>1. node[tk] \in Activity
      BY <2>2, <1>0 DEF TypeOK
    <3> QED BY <2>2, <3>1, <1>0, <1>2, <1>3, <1>7 DEF NodeInv
  <2>3. \A tk \in DOMAIN parent : node[tk] \in Basic => node[tk] # None
    BY Shapes DEF Basic
  <2> QED BY <2>1, <2>2, <2>3, <1>3 DEF NodeInv, tokens
<1>24. TargetInv'
  BY Domains, <1>0, <1>1, <1>2, <1>3, <1>5 DEF TargetInv, links
<1>25. NoticeInv'
  BY <1>5 DEF NoticeInv
<1>26. LinkInv'
  <2>1. ASSUME NEW l \in Link, status'[l] \in {"true", "false"} \/ l \in Determining'
        PROVE  /\ phase'[Source(l)] \in {"left", "dead"}
               /\ Source(l) \in Basic \/ phase'[Source(l)] = "left" => Source(l) \notin Awaiting'
    <3>1. CASE l \in D
      BY <3>1, <1>2, <1>3, <1>7, <1>a
    <3>2. CASE l \notin D
      <4>1. status[l] \in {"true", "false"} \/ l \in Determining
        BY <2>1, <3>2, <1>3, <1>5 DEF links
      <4>2. /\ phase[Source(l)] \in {"left", "dead"} /\ Source(l) \in Activity
            /\ Source(l) \in Basic \/ phase[Source(l)] = "left" => Source(l) \notin Awaiting
        BY <4>1, <1>0, Domains DEF LinkInv
      <4> QED BY <3>2, <4>2, <1>3, <1>7, <1>a
    <3> QED BY <3>1, <3>2
  <2>2. \A l \in Link : l \in Determining' => status'[l] = "unset"
    BY <1>0, <1>3, <1>5, <1>a DEF LinkInv, links
  <2>3. \A l \in Link, f \in Activity : l \in Links[f] => (status'[l] = "absent" <=> f \notin Opened')
    BY <1>0, <1>3, <1>7 DEF LinkInv, links
  <2> QED BY <2>1, <2>2, <2>3 DEF LinkInv
<1>27. MeaningInv'
  <2>1. \A x \in Activity : phase'[x] \in {"skipped", "dead"} \/ x \in Skipping' \/ x \in Eliminating' => ~ Performed[x]
    BY <1>0, <1>2, <1>3, <1>5 DEF MeaningInv
  <2>2. \A x \in Activity : phase'[x] \in {"started", "left"} \/ x \in Executing' => Performed[x]
    BY <1>0, <1>2, <1>3, <1>5 DEF MeaningInv
  <2>3. \A x \in Activity : phase'[x] = "entered" \/ x \in Entering' => Eligible(x)
    BY <1>0, <1>2, <1>3, <1>5 DEF MeaningInv
  <2>4. \A x \in Activity : Eligible(x)' = Eligible(x)
    BY <1>3, <1>6 DEF Eligible, definition
  <2>5. \A c \in pending' : c.op = "determine" => c.value = (holds[c.link] /\ Performed[Source(c.link)])
    <3>1. \A l \in D : holds[l] = (holds[l] /\ Performed[Source(l)])
      BY <1>0, <1>2, <1>a DEF TypeOK
    <3> QED BY <3>1, <1>0, <1>5 DEF MeaningInv
  <2> QED BY <2>1, <2>2, <2>3, <2>4, <2>5, <1>0, <1>3, <1>6 DEF MeaningInv, definition, links
<1>28. ChoiceInv'
  BY <1>0, <1>3 DEF ChoiceInv, definition
<1>z. DeadInv /\ TakenInv /\ DoneInv /\ FiredInv
  BY FurtherParts
<1>29. DeadInv'
  BY Domains, <1>0, <1>z, <1>2, <1>3, <1>5 DEF DeadInv, PhaseInv
<1>30. TakenInv'
  BY Domains, <1>0, <1>z, <1>2, <1>3, <1>5, <1>6 DEF TakenInv, PhaseInv, definition
<1>31. DoneInv'
  BY Domains, <1>0, <1>z, <1>2, <1>3, <1>5, <1>7 DEF DoneInv, definition
<1>32. FiredInv'
  BY Domains, <1>0, <1>z, <1>a, <1>2, <1>3, <1>5, <1>7 DEF FiredInv, links
<1> QED BY <1>5, <1>10, <1>11, <1>12, <1>13, <1>14, <1>15, <1>16, <1>17, <1>18, <1>19, <1>20, <1>21, <1>22,
           <1>23, <1>24, <1>25, <1>26, <1>27, <1>28, <1>29, <1>30, <1>31, <1>32 DEF FlowInv

(* The End of a structure other than a flow. *)
LEMMA EndStructureKeeps ==
  ASSUME FlowInv, EndStructure
  PROVE  FlowInv'
<1> DEFINE a == call.activity
           t == call.token
<1>0. /\ TypeOK /\ StackInv /\ CallsInv /\ WaitsInv /\ TokensInv /\ UniqueInv /\ PhaseInv
      /\ TouchInv /\ ActiveInv /\ EndedInv /\ LeftInv /\ SequenceInv /\ BranchInv /\ HoldInv
      /\ NodeInv /\ TargetInv /\ NoticeInv /\ LinkInv /\ MeaningInv /\ ChoiceInv
  BY Parts
<1>1. calls # <<>> /\ call.op = "end" /\ a \notin Flows
  BY <1>0, CallOnTop DEF EndStructure, Calling, Flows
<1>2. /\ call \in pending /\ a \in Activity /\ t = TokenOf(a) /\ t \in DOMAIN parent /\ t \in Token /\ a \notin Basic
      /\ a \in Finishing /\ phase[a] = "started" /\ a \in Touched
      /\ a \notin Leaving /\ a \notin Waiting
      /\ \A c : c \notin Notices
  <2>1. call \in pending /\ a \in Activity /\ t \in DOMAIN parent /\ t \in Token /\ a \in Finishing
    BY <1>0, <1>1, CallOnTop, DoingTop
  <2>2. phase[a] = "started" /\ a \in Touched /\ a \notin Leaving /\ a \notin Waiting
    BY <2>1, <1>0 DEF PhaseInv, UniqueInv, Touched
  <2>3. t = TokenOf(a) /\ a \notin Basic
    BY <2>1, <1>0, <1>1 DEF CallsInv
  <2>4. \A c : c \notin Notices
    BY <1>0, <1>1, OnlyNotice DEF Notices
  <2> QED BY <2>1, <2>2, <2>3, <2>4
<1>3. /\ DOMAIN node' = DOMAIN parent
      /\ \A u \in DOMAIN parent : node'[u] = IF u = t THEN None ELSE node[u]
      /\ UNCHANGED <<definition, parent, ended, links, waiting, phase, outcome>>
  BY <1>0, <1>2 DEF EndStructure, TypeOK
<1>5. /\ calls' \in Seq(CallRecord) /\ StackInv'
      /\ \A c \in pending' : c \in pending \/ (c.op = "leave" /\ c.activity = a /\ c.token = t)
      /\ Finishing' = Finishing \ {a} /\ Leaving' = Leaving \cup {a}
      /\ UNCHANGED <<Entering, Executing, Skipping, Proceeding, Eliminating, Ending, Determining, Looping>>
      /\ \A c : c \notin Notices'
  <2> DEFINE c == Call("leave", a, t)
  <2>1. c \in ActivityCall /\ c.op = "leave" /\ c.activity = a /\ c.token = t
    BY <1>2 DEF Call, ActivityCall
  <2>2. c \notin pending
    BY <1>2, <2>1 DEF Leaving, Doing
  <2>3. Then(<<c>>)
    BY <1>1 DEF EndStructure
  <2> HIDE DEF c, a, t
  <2>4. ReplacedBy(c)
    BY <1>0, <1>1, <2>1, <2>2, <2>3, EffectOfCall
  <2>5. /\ Top("enter") = {} /\ Top("execute") = {} /\ Top("skip") = {} /\ Top("leave") = {} /\ Top("proceed") = {}
        /\ Top("eliminate") = {} /\ Top("end") = {a} /\ call \notin Looping
    BY <1>1 DEF Top, a, Looping
  <2>6. \A b : ~ (call.op = "end" /\ call.activity \in Flows /\ call.token = <<"branch", b>>)
    BY <1>1 DEF a
  <2> QED BY <1>1, <1>2, <2>1, <2>4, <2>5, <2>6 DEF ReplacedBy, When
<1> HIDE DEF a, t
<1>6. Waiting' = Waiting /\ Performed' = Performed
  BY <1>3, PerformedStays DEF Waiting, definition
<1>7. UNCHANGED <<Touched, Opened, Settled, Awaiting, Active, Holders>>
  <2>1. Touched' = Touched
    BY <1>3, <1>5 DEF Touched
  <2>2. Opened' = Opened
    BY <1>3 DEF Opened
  <2>3. Settled' = Settled
    BY <1>3, <1>5 DEF Settled
  <2>4. Active' = Active
    BY <1>3, <1>5 DEF Active
  <2>5. Holders' = Holders
    BY <1>2, <1>3, <1>5, <1>6 DEF Holders
  <2>6. Awaiting' = Awaiting
    BY <1>2, <1>3, <1>5 DEF Awaiting, links
  <2> QED BY <2>1, <2>2, <2>3, <2>4, <2>5, <2>6
<1>8. \A x \in Activity : phase[x] = "entered" => TokenOf(x) # t
  <2> SUFFICES ASSUME NEW x \in Activity, phase[x] = "entered", TokenOf(x) = t PROVE FALSE
    OBVIOUS
  <2>1. BranchOf[x] = BranchOf[a] /\ x # a
    BY <1>2 DEF TokenOf
  <2>2. x \in Holders /\ a \in Holders
    BY <1>2 DEF Holders
  <2> QED BY <2>1, <2>2, <1>0 DEF HoldInv
<1>10. TypeOK'
  BY <1>0, <1>2, <1>3, <1>5 DEF TypeOK, CallRecord, definition, links
<1>11. CallsInv'
  BY <1>0, <1>2, <1>3, <1>5 DEF CallsInv, ThreadOps
<1>12. WaitsInv'
  BY <1>0, <1>3 DEF WaitsInv
<1>13. TokensInv'
  BY Domains, <1>0, <1>3, <1>7 DEF TokensInv
<1>14. UniqueInv'
  BY <1>0, <1>1, <1>2, <1>5 DEF UniqueInv
<1>15. PhaseInv'
  BY Domains, <1>0, <1>1, <1>2, <1>3, <1>5, <1>6 DEF PhaseInv
<1>16. TouchInv'
  BY Domains, <1>0, <1>2, <1>6, <1>7 DEF TouchInv
<1>17. ActiveInv'
  BY Domains, <1>0, <1>2, <1>3, <1>5, <1>7 DEF ActiveInv, definition
<1>18. EndedInv'
  BY Domains, <1>0, <1>3, <1>7 DEF EndedInv
<1>19. LeftInv'
  BY Domains, <1>0, <1>1, <1>3, <1>5, <1>7 DEF LeftInv
<1>20. SequenceInv'
  BY Domains, <1>0, <1>2, <1>3, <1>7 DEF SequenceInv
<1>21. BranchInv'
  BY CallTypes, Domains, <1>0, <1>2, <1>3, <1>5, <1>7 DEF BranchInv
<1>22. HoldInv'
  BY <1>0, <1>2, <1>7 DEF HoldInv
<1>23. NodeInv'
  <2>1. \A x \in Activity : phase'[x] = "entered" => TokenOf(x) \in DOMAIN parent' /\ node'[TokenOf(x)] = x
    BY <1>0, <1>2, <1>3, <1>8 DEF NodeInv
  <2>2. ASSUME NEW u \in DOMAIN parent, node[u] # None
        PROVE  /\ phase'[node[u]] # "idle"
               /\ node[u] \in Basic /\ phase'[node[u]] = "dead" => node[u] \notin Awaiting'
    <3>1. node[u] \in Activity
      BY <2>2, <1>0 DEF TypeOK
    <3> QED BY <2>2, <3>1, <1>0, <1>2, <1>3, <1>7 DEF NodeInv
  <2>3. \A u \in DOMAIN parent : node[u] \in Basic => node[u] # None
    BY Shapes DEF Basic
  <2>4. None \notin Basic
    BY Shapes DEF Basic
  <2> QED BY <2>1, <2>2, <2>3, <2>4, <1>3 DEF NodeInv
<1>24. TargetInv'
  BY Domains, <1>0, <1>1, <1>2, <1>3, <1>5 DEF TargetInv, links
<1>25. NoticeInv'
  BY <1>5 DEF NoticeInv
<1>26. LinkInv'
  BY Domains, <1>0, <1>1, <1>2, <1>3, <1>5, <1>7, SourceOf DEF LinkInv, links
<1>27. MeaningInv'
  BY Domains, <1>0, <1>1, <1>2, <1>3, <1>5, <1>6 DEF MeaningInv, Eligible, definition, links
<1>28. ChoiceInv'
  BY <1>0, <1>3 DEF ChoiceInv, definition
<1>z. DeadInv /\ TakenInv /\ DoneInv /\ FiredInv
  BY FurtherParts
<1>29. DeadInv'
  BY Domains, <1>0, <1>z, <1>2, <1>3, <1>5 DEF DeadInv, PhaseInv
<1>30. TakenInv'
  BY Domains, <1>0, <1>z, <1>2, <1>3, <1>5, <1>6 DEF TakenInv, PhaseInv, definition
<1>31. DoneInv'
  BY Domains, <1>0, <1>z, <1>2, <1>3, <1>5, <1>7 DEF DoneInv, definition
<1>32. FiredInv'
  BY Domains, <1>0, <1>z, <1>2, <1>3, <1>5, <1>7 DEF FiredInv, links
<1> QED BY <1>5, <1>10, <1>11, <1>12, <1>13, <1>14, <1>15, <1>16, <1>17, <1>18, <1>19, <1>20, <1>21, <1>22,
           <1>23, <1>24, <1>25, <1>26, <1>27, <1>28, <1>29, <1>30, <1>31, <1>32 DEF FlowInv

(* The default transition of an activity: within a sequence to the next    *)
(* activity, if there is one.                                              *)
LEMMA Succession ==
  ASSUME NEW a \in Activity, a # Root, NEW t, NEW s, s = Structure(a)
  PROVE  \/ /\ Kind[s] = "sequence"
            /\ \E i \in DOMAIN Children[s] : /\ Children[s][i] = a /\ i + 1 \in DOMAIN Children[s]
                                             /\ Successor(a, t) = Call("enter", Children[s][i + 1], t)
         \/ /\ Successor(a, t) = Call("end", s, t)
            /\ Kind[s] = "sequence" => \A i, j \in DOMAIN Children[s] : Children[s][i] = a => j <= i
<1>1. s \in Activity /\ a \in ChildSet(s)
  BY StructureOf
<1>2. Len(Children[s]) \in Nat /\ DOMAIN Children[s] = 1 .. Len(Children[s])
  BY <1>1, Shapes
<1> DEFINE k == CHOOSE j \in DOMAIN Children[s] : Children[s][j] = a
<1>3. k \in DOMAIN Children[s] /\ Children[s][k] = a
  BY <1>1 DEF ChildSet, ToSet
<1>4. \A i \in DOMAIN Children[s] : Children[s][i] = a => i = k
  BY <1>1, <1>3, TreeAssumption
<1>5. Successor(a, t) = IF Kind[s] = "sequence" /\ k < Len(Children[s]) THEN Call("enter", Children[s][k + 1], t)
                        ELSE Call("end", s, t)
  BY DEF Successor
<1> HIDE DEF k
<1>6. CASE Kind[s] = "sequence" /\ k < Len(Children[s])
  <2>1. k + 1 \in DOMAIN Children[s]
    BY <1>2, <1>3, <1>6
  <2> QED BY <2>1, <1>3, <1>5, <1>6
<1>7. CASE ~ (Kind[s] = "sequence" /\ k < Len(Children[s]))
  <2>1. Kind[s] = "sequence" => k = Len(Children[s])
    BY <1>2, <1>3, <1>7
  <2> QED BY <2>1, <1>2, <1>4, <1>5, <1>7
<1> QED BY <1>6, <1>7

LEMMA ProceedTop ==
  ASSUME FlowInv, calls # <<>>, call.op = "proceed", NEW a, a = call.activity
  PROVE  /\ call \in pending /\ a \in Activity /\ call.token = TokenOf(a) /\ call.token \in DOMAIN parent
         /\ call.token \in Token
         /\ a \in Proceeding /\ phase[a] \in {"left", "dead"} /\ a \in Touched
         /\ a \notin Entering /\ a \notin Executing /\ a \notin Skipping /\ a \notin Leaving
         /\ a \notin Eliminating /\ a \notin Finishing /\ a \notin Ending /\ a \notin Waiting
         /\ \A c : c \notin Notices
         /\ a \in Active /\ a \in Holders /\ a \notin Settled
<1>0. /\ TypeOK /\ StackInv /\ CallsInv /\ UniqueInv /\ PhaseInv
  BY Parts
<1>1. /\ call \in pending /\ a \in Activity /\ call.token = TokenOf(a) /\ call.token \in DOMAIN parent
      /\ call.token \in Token /\ a \in Proceeding
  BY <1>0, CallOnTop, DoingTop DEF ThreadOps
<1>2. a \notin Eliminating
  <2>1. call = calls[1] /\ DOMAIN calls = 1 .. Len(calls) /\ Len(calls) \in Nat /\ 1 \in DOMAIN calls
    BY <1>0 DEF TypeOK, call
  <2>2. SUFFICES ASSUME NEW j \in DOMAIN calls, calls[j].op = "eliminate", calls[j].activity = a PROVE FALSE
    BY DEF Eliminating, Doing, pending, ToSet
  <2>3. j < 1
    BY <2>1, <2>2, <1>0 DEF StackInv
  <2> QED BY <2>1, <2>3
<1>3. /\ phase[a] \in {"left", "dead"}
      /\ a \notin Entering /\ a \notin Executing /\ a \notin Skipping /\ a \notin Leaving
      /\ a \notin Finishing /\ a \notin Ending /\ a \notin Waiting
  BY <1>0, <1>1, <1>2 DEF PhaseInv
<1>4. \A c : c \notin Notices
  BY <1>0, OnlyNotice DEF Notices
<1>5. a \in Active /\ a \in Holders /\ a \notin Settled /\ a \in Touched
  BY <1>1, <1>3 DEF Active, Holders, Settled, Touched
<1> QED BY <1>1, <1>2, <1>3, <1>4, <1>5

(* What is known of the activity x that follows a in a sequence, and of    *)
(* the structure x, other than a flow, that a completes.                   *)
Following(x, a) ==
  /\ a # Root /\ x \in Activity /\ x # Root /\ x # a /\ x \notin Touched /\ Structure(x) = Structure(a)
  /\ Structure(a) \in Activity /\ Kind[Structure(a)] = "sequence" /\ BranchOf[x] = BranchOf[a]
  /\ \A i, j \in DOMAIN Children[Structure(a)] :
       Children[Structure(a)][i] = x /\ j < i => Children[Structure(a)][j] = a \/ Children[Structure(a)][j] \in Settled

Completed(x, a) ==
  /\ a # Root /\ x = Structure(a) /\ x \in Activity /\ x \notin Flows /\ x \notin Basic /\ BranchOf[x] = BranchOf[a]
  /\ \A y \in Active : y # a /\ y # Root => Structure(y) # x
  /\ Kind[x] = "sequence" => \A y \in Activity \ {Root, a} : Structure(y) = x => y \in Settled

LEMMA FollowingActivity ==
  ASSUME FlowInv, NEW a \in Activity, a # Root, a \in Touched, a \notin Settled, Kind[Structure(a)] = "sequence",
         NEW i \in DOMAIN Children[Structure(a)], Children[Structure(a)][i] = a,
         i + 1 \in DOMAIN Children[Structure(a)],
         phase[Structure(a)] = "started"
  PROVE  Following(Children[Structure(a)][i + 1], a)
<1> DEFINE s == Structure(a)
           x == Children[s][i + 1]
<1>0. SequenceInv
  BY Parts
<1>1. s \in Activity /\ a \in ChildSet(s) /\ s \notin Flows
  BY StructureOf DEF Flows
<1>2. i \in Nat /\ x \in ChildSet(s) /\ x \in Activity /\ Structure(x) = s /\ x # Root
  BY <1>1, ChildAt, StructureOfChild
<1>3. x # a
  <2>1. x = a => i + 1 = i
    BY <1>1, TreeAssumption
  <2> QED BY <2>1, <1>2
<1>4. x \notin Touched
  BY <1>0, <1>1, <1>2 DEF SequenceInv
<1>5. BranchOf[x] = BranchOf[a]
  BY <1>1, <1>2, BranchOfChild
<1>6. ASSUME NEW k \in DOMAIN Children[s], NEW j \in DOMAIN Children[s], Children[s][k] = x, j < k
      PROVE  Children[s][j] = a \/ Children[s][j] \in Settled
  <2>1. k = i + 1 /\ j \in Nat
    BY <1>1, <1>6, ChildAt, TreeAssumption
  <2>2. j = i \/ j < i
    BY <2>1, <1>2, <1>6
  <2>3. j < i => Children[s][j] \in Settled
    BY <1>0, <1>1 DEF SequenceInv
  <2> QED BY <2>2, <2>3
<1> QED BY <1>1, <1>2, <1>3, <1>4, <1>5, <1>6 DEF Following

LEMMA CompletedStructure ==
  ASSUME FlowInv, NEW a \in Activity, a # Root, a \in Active, a \in Touched, a \notin Settled, Structure(a) \notin Flows,
         Kind[Structure(a)] = "sequence" =>
           \A i, j \in DOMAIN Children[Structure(a)] : Children[Structure(a)][i] = a => j <= i
  PROVE  Completed(Structure(a), a)
<1> DEFINE s == Structure(a)
<1>0. SequenceInv /\ ActiveInv /\ PhaseInv
  BY Parts
<1>1. s \in Activity /\ a \in ChildSet(s) /\ s \notin Basic
  BY StructureOf
<1>2. BranchOf[s] = BranchOf[a]
  BY <1>1, BranchOfChild
<1>3. ASSUME NEW y \in Active, y # a, y # Root, Structure(y) = s PROVE FALSE
  <2>1. y \in Touched /\ y \in Activity /\ y \notin Settled
    <3>1. y \notin Settled
      BY <1>0 DEF PhaseInv, Active, Settled
    <3> QED BY <3>1, <1>0, ActiveTouched, Domains
  <2>2. s \notin Choice
    BY <1>0, <1>3 DEF ActiveInv
  <2>3. Kind[s] = "sequence"
    BY <1>1, <2>2, Shapes DEF Choice, Flows, Basic
  <2>4. phase[s] = "started"
    BY <1>0 DEF ActiveInv
  <2>5. y \in ChildSet(s)
    BY <2>1, <1>3, StructureOf
  <2>6. PICK i \in DOMAIN Children[s] : Children[s][i] = a
    BY <1>1 DEF ChildSet, ToSet
  <2>7. PICK j \in DOMAIN Children[s] : Children[s][j] = y
    BY <2>5 DEF ChildSet, ToSet
  <2>8. i \in Nat /\ j \in Nat /\ i # j
    BY <1>1, <1>3, <2>6, <2>7, ChildAt
  <2>9. j <= i
    BY <2>3, <2>6
  <2>10. j < i
    BY <2>8, <2>9
  <2> QED BY <2>1, <2>3, <2>4, <2>6, <2>7, <2>10, <1>0, <1>1 DEF SequenceInv
<1>4. ASSUME Kind[s] = "sequence", NEW y \in Activity \ {Root, a}, Structure(y) = s PROVE y \in Settled
  <2>1. phase[s] = "started"
    BY <1>0 DEF ActiveInv
  <2>2. y \in ChildSet(s)
    BY <1>4, StructureOf
  <2>3. PICK i \in DOMAIN Children[s] : Children[s][i] = a
    BY <1>1 DEF ChildSet, ToSet
  <2>4. PICK j \in DOMAIN Children[s] : Children[s][j] = y
    BY <2>2 DEF ChildSet, ToSet
  <2>5. i \in Nat /\ j \in Nat /\ i # j
    BY <1>1, <1>4, <2>3, <2>4, ChildAt
  <2>6. j < i
    BY <1>4, <2>3, <2>5
  <2> QED BY <1>4, <2>1, <2>3, <2>4, <2>6, <1>0, <1>1 DEF SequenceInv
<1> QED BY <1>1, <1>2, <1>3, <1>4 DEF Completed

(* Activity.proceed keeps the invariant. *)
LEMMA ProceedKeeps ==
  ASSUME FlowInv, Proceed
  PROVE  FlowInv'
<1> DEFINE a == call.activity
           t == call.token
           s == Structure(a)
<1>0. /\ TypeOK /\ StackInv /\ CallsInv /\ WaitsInv /\ TokensInv /\ UniqueInv /\ PhaseInv
      /\ TouchInv /\ ActiveInv /\ EndedInv /\ LeftInv /\ SequenceInv /\ BranchInv /\ HoldInv
      /\ NodeInv /\ TargetInv /\ NoticeInv /\ LinkInv /\ MeaningInv /\ ChoiceInv
  BY Parts
<1>1. calls # <<>> /\ call.op = "proceed"
  BY DEF Proceed, Calling
<1>2. /\ call \in pending /\ a \in Activity /\ t = TokenOf(a) /\ t \in DOMAIN parent /\ t \in Token
      /\ a \in Proceeding /\ phase[a] \in {"left", "dead"} /\ a \in Touched
      /\ a \notin Entering /\ a \notin Executing /\ a \notin Skipping /\ a \notin Leaving
      /\ a \notin Eliminating /\ a \notin Finishing /\ a \notin Ending /\ a \notin Waiting
      /\ \A c : c \notin Notices
      /\ a \in Active /\ a \in Holders /\ a \notin Settled
  BY <1>1, ProceedTop
<1>a. a # Root => /\ s \in Activity /\ s \notin Basic /\ phase[s] = "started" /\ s \notin Leaving /\ s \notin Finishing
                  /\ s \in Opened /\ s \notin Waiting /\ Performed[s] /\ a \in ChildSet(s)
  <2> SUFFICES ASSUME a # Root PROVE /\ s \in Activity /\ s \notin Basic /\ phase[s] = "started" /\ s \notin Leaving
                                     /\ s \notin Finishing /\ s \in Opened /\ s \notin Waiting /\ Performed[s]
                                     /\ a \in ChildSet(s)
    OBVIOUS
  <2>1. s \in Activity /\ s \notin Basic /\ a \in ChildSet(s)
    BY <1>2, StructureOf
  <2>2. phase[s] = "started" /\ s \notin Leaving /\ s \notin Finishing
    BY <1>0, <1>2 DEF ActiveInv
  <2>3. s \in Opened /\ s \notin Waiting
    BY <1>0, <1>2 DEF TouchInv
  <2>4. Performed[s]
    BY <2>1, <2>2, <1>0 DEF MeaningInv
  <2> QED BY <2>1, <2>2, <2>3, <2>4
<1>3. /\ DOMAIN node' = DOMAIN parent
      /\ \A u \in DOMAIN parent : node'[u] = IF u = t THEN None ELSE node[u]
      /\ outcome' \in {"running", "completed", "faulted"}
      /\ UNCHANGED <<definition, parent, ended, links, waiting, phase>>
  BY <1>0, <1>2 DEF Proceed, TypeOK
<1>b. /\ Top("enter") = {} /\ Top("execute") = {} /\ Top("skip") = {} /\ Top("leave") = {} /\ Top("proceed") = {a}
      /\ Top("eliminate") = {} /\ Top("end") = {} /\ call \notin Looping
  BY <1>1 DEF Top, Looping
<1> DEFINE P(N, F, E) ==
        /\ calls' \in Seq(CallRecord) /\ StackInv'
        /\ \A c \in pending' : \/ c \in pending
                               \/ c.op = "enter" /\ c.activity \in N /\ c.token = t
                               \/ c.op = "end" /\ c.activity \in F /\ c.token = t
                               \/ c.op = "end" /\ a \in E /\ c.activity = s /\ c.token = t
        /\ Entering' = Entering \cup N /\ Finishing' = Finishing \cup F /\ Ending' = Ending \cup E
        /\ Proceeding' = Proceeding \ {a}
        /\ UNCHANGED <<Executing, Skipping, Leaving, Eliminating, Determining, Looping>>
        /\ \A c : c \notin Notices'
        /\ \A x, y : x \in N \cup F \cup E /\ y \in N \cup F \cup E => x = y
        /\ N = {} \/ F = {}
        /\ N = {} \/ E = {}
        /\ E = {} \/ F = {}
        /\ \A x \in N : Following(x, a)
        /\ \A x \in F : Completed(x, a)
        /\ a \in E => a # Root /\ s \in Flows
        /\ E \subseteq {a}
<1>4. \E N, F, E \in SUBSET Activity : P(N, F, E)
  <2>1. CASE a = Root
    <3>1. Then(<<>>)
      BY <2>1 DEF Proceed
    <3>2. Dropped
      BY <3>1, <1>0, <1>1, EffectOfNothing
    <3>3. WITNESS {} \in SUBSET Activity, {} \in SUBSET Activity, {} \in SUBSET Activity
    <3> HIDE DEF a, t, s
    <3>4. /\ Entering' = Entering /\ Finishing' = Finishing /\ Proceeding' = Proceeding \ {a}
          /\ UNCHANGED <<Executing, Skipping, Leaving, Eliminating, Looping>>
      BY <3>2, <1>b DEF Dropped
    <3>5. UNCHANGED <<Ending, Determining>> /\ \A c : c \notin Notices'
      BY <3>2, <1>1, <1>2 DEF Dropped
    <3> QED BY <3>2, <3>4, <3>5 DEF Dropped
  <2>2. CASE /\ a # Root /\ Kind[s] = "sequence"
             /\ \E i \in DOMAIN Children[s] : /\ Children[s][i] = a /\ i + 1 \in DOMAIN Children[s]
                                              /\ Successor(a, t) = Call("enter", Children[s][i + 1], t)
    <3>1. PICK i \in DOMAIN Children[s] : /\ Children[s][i] = a /\ i + 1 \in DOMAIN Children[s]
                                          /\ Successor(a, t) = Call("enter", Children[s][i + 1], t)
      BY <2>2
    <3> DEFINE x == Children[s][i + 1]
               c == Call("enter", x, t)
    <3>2. Following(x, a)
      BY <3>1, <2>2, <1>2, <1>a, FollowingActivity
    <3>3. x \in Activity /\ x \notin Entering
      BY <3>2 DEF Following, Touched
    <3>4. Then(<<c>>)
      BY <2>2, <3>1 DEF Proceed
    <3> HIDE DEF x, a, t, s
    <3>5. c \in ActivityCall /\ c.op = "enter" /\ c.activity = x /\ c.token = t
      BY <3>3, <1>2 DEF Call, ActivityCall
    <3> HIDE DEF c
    <3>6. c \notin pending
      BY <3>3, <3>5 DEF Entering, Doing
    <3>7. ReplacedBy(c)
      BY <3>4, <3>5, <3>6, <1>0, <1>1, EffectOfCall
    <3>9. /\ Entering' = Entering \cup {x} /\ Finishing' = Finishing /\ Proceeding' = Proceeding \ {a}
          /\ UNCHANGED <<Executing, Skipping, Leaving, Eliminating, Looping>>
      BY <3>5, <3>7, <1>b DEF ReplacedBy, When
    <3>10. UNCHANGED <<Ending, Determining>> /\ \A d : d \notin Notices'
      BY <3>5, <3>7, <1>1, <1>2 DEF ReplacedBy, When
    <3>11. \A d \in pending' : d \in pending \/ (d.op = "enter" /\ d.activity \in {x} /\ d.token = t)
      BY <3>5, <3>7 DEF ReplacedBy
    <3>12. calls' \in Seq(CallRecord) /\ StackInv'
      BY <3>7 DEF ReplacedBy
    <3>13. P({x}, {}, {})
      BY <3>2, <3>3, <3>9, <3>10, <3>11, <3>12
    <3> HIDE DEF P
    <3> QED BY <3>3, <3>13
  <2>3. CASE /\ a # Root /\ Successor(a, t) = Call("end", s, t)
             /\ Kind[s] = "sequence" => \A i, j \in DOMAIN Children[s] : Children[s][i] = a => j <= i
    <3> DEFINE c == Call("end", s, t)
    <3>1. Then(<<c>>)
      BY <2>3 DEF Proceed
    <3> HIDE DEF a, t
    <3>2. c \in ActivityCall /\ c.op = "end" /\ c.activity = s /\ c.token = t
      BY <2>3, <1>2, <1>a DEF Call, ActivityCall
    <3>3. s \notin Flows => Completed(s, a)
      BY <2>3, <1>2, CompletedStructure
    <3>4. s \in Flows => t = <<"branch", a>>
      BY <2>3, <1>2, <1>a, BranchOfChild
    <3> HIDE DEF c, s
    <3>5. c \notin pending
      <4>1. CASE s \in Flows
        BY <4>1, <3>2, <3>4, <1>2 DEF Ending
      <4>2. CASE s \notin Flows
        BY <4>2, <3>2, <2>3, <1>a DEF Finishing, Doing
      <4> QED BY <4>1, <4>2
    <3>6. ReplacedBy(c)
      BY <3>1, <3>2, <3>5, <1>0, <1>1, EffectOfCall
    <3>7. Entering' = Entering /\ Proceeding' = Proceeding \ {a} /\ UNCHANGED <<Executing, Skipping, Leaving, Eliminating, Looping>>
      BY <3>2, <3>6, <1>b DEF ReplacedBy, When
    <3>8. UNCHANGED Determining /\ \A d : d \notin Notices'
      BY <3>2, <3>6, <1>1, <1>2 DEF ReplacedBy, When
    <3>9. \A d \in pending' : d \in pending \/ (d.op = "end" /\ d.activity = s /\ d.token = t)
      BY <3>2, <3>6 DEF ReplacedBy
    <3>10. calls' \in Seq(CallRecord) /\ StackInv'
      BY <3>6 DEF ReplacedBy
    <3>11. CASE s \in Flows
      <4>1. Finishing' = Finishing
        BY <3>2, <3>6, <3>11, <1>b DEF ReplacedBy, When
      <4>2. Ending' = Ending \cup {a}
        <5>1. \A x : x \in Ending' <=> x \in Ending \/ (x \in Activity /\ t = <<"branch", x>>)
          BY <3>2, <3>6, <3>11, <1>1 DEF ReplacedBy
        <5> QED BY <5>1, <3>4, <3>11, <1>2
      <4> {a} \in SUBSET Activity
        BY <1>2
      <4>3. WITNESS {} \in SUBSET Activity, {} \in SUBSET Activity, {a} \in SUBSET Activity
      <4> QED BY <3>7, <3>8, <3>9, <3>10, <3>11, <4>1, <4>2, <2>3
    <3>12. CASE s \notin Flows
      <4>1. Finishing' = Finishing \cup {s}
        BY <3>2, <3>6, <3>12, <1>b DEF ReplacedBy, When
      <4>2. Ending' = Ending
        BY <3>2, <3>6, <3>12, <1>1 DEF ReplacedBy
      <4>3. s \in Activity
        BY <2>3, <1>a
      <4> {s} \in SUBSET Activity
        BY <4>3
      <4>4. WITNESS {} \in SUBSET Activity, {s} \in SUBSET Activity, {} \in SUBSET Activity
      <4> QED BY <3>3, <3>7, <3>8, <3>9, <3>10, <3>12, <4>1, <4>2, <2>3
    <3> QED BY <3>11, <3>12
  <2> QED BY <2>1, <2>2, <2>3, <1>2, Succession
<1>d. PICK N, F, E \in SUBSET Activity : P(N, F, E)
  BY <1>4
<1>5. /\ N \in SUBSET Activity /\ F \in SUBSET Activity /\ E \in SUBSET Activity
      /\ calls' \in Seq(CallRecord) /\ StackInv'
      /\ \A c \in pending' : \/ c \in pending
                             \/ c.op = "enter" /\ c.activity \in N /\ c.token = t
                             \/ c.op = "end" /\ c.activity \in F /\ c.token = t
                             \/ c.op = "end" /\ a \in E /\ c.activity = s /\ c.token = t
      /\ Entering' = Entering \cup N /\ Finishing' = Finishing \cup F /\ Ending' = Ending \cup E
      /\ Proceeding' = Proceeding \ {a}
      /\ UNCHANGED <<Executing, Skipping, Leaving, Eliminating, Determining, Looping>>
      /\ \A c : c \notin Notices'
      /\ \A x, y : x \in N \cup F \cup E /\ y \in N \cup F \cup E => x = y
      /\ N = {} \/ F = {}
      /\ N = {} \/ E = {}
      /\ E = {} \/ F = {}
      /\ \A x \in N : Following(x, a)
      /\ \A x \in F : Completed(x, a)
      /\ a \in E => a # Root /\ s \in Flows
      /\ E \subseteq {a}
  BY <1>d
<1> HIDE DEF P
<1> HIDE DEF a, t, s
<1>6. Waiting' = Waiting /\ Performed' = Performed
  BY <1>3, PerformedStays DEF Waiting, definition
<1>c. /\ \A x \in N : /\ a # Root /\ x \in Activity /\ x # Root /\ x # a /\ x \notin Touched /\ Structure(x) = s
                      /\ s \in Activity /\ Kind[s] = "sequence" /\ BranchOf[x] = BranchOf[a] /\ s \notin Flows
                      /\ s \notin Choice /\ TokenOf(x) = t /\ phase[x] = "idle" /\ x \notin Eliminating
                      /\ \A i, j \in DOMAIN Children[s] :
                           Children[s][i] = x /\ j < i => Children[s][j] = a \/ Children[s][j] \in Settled
      /\ \A x \in F : /\ a # Root /\ x = s /\ x \in Activity /\ x \notin Flows /\ x \notin Basic
                      /\ BranchOf[x] = BranchOf[a] /\ TokenOf(x) = t
                      /\ \A y \in Active : y # a /\ y # Root => Structure(y) # x
      /\ \A x \in E : x = a /\ a # Root /\ s \in Flows /\ TokenOf(a) = <<"branch", a>>
  <2>1. \A x \in N : /\ a # Root /\ x \in Activity /\ x # Root /\ x # a /\ x \notin Touched /\ Structure(x) = s
                     /\ s \in Activity /\ Kind[s] = "sequence" /\ BranchOf[x] = BranchOf[a]
                     /\ \A i, j \in DOMAIN Children[s] :
                          Children[s][i] = x /\ j < i => Children[s][j] = a \/ Children[s][j] \in Settled
    BY <1>5 DEF Following, s
  <2>2. Kind[s] = "sequence" => s \notin Flows /\ s \notin Choice
    BY DEF Flows, Choice
  <2>3. \A x : BranchOf[x] = BranchOf[a] => TokenOf(x) = t
    BY <1>2 DEF TokenOf
  <2>4. \A x \in Activity : x \notin Touched => phase[x] = "idle" /\ x \notin Eliminating
    BY DEF Touched
  <2>5. \A x \in F : /\ a # Root /\ x = s /\ x \in Activity /\ x \notin Flows /\ x \notin Basic
                     /\ BranchOf[x] = BranchOf[a]
                     /\ \A y \in Active : y # a /\ y # Root => Structure(y) # x
    BY <1>5 DEF Completed, s
  <2>6. \A x \in E : x = a /\ a # Root /\ s \in Flows /\ TokenOf(a) = <<"branch", a>>
    BY <1>2, <1>5, <1>a, BranchOfChild
  <2> QED BY <2>1, <2>2, <2>3, <2>4, <2>5, <2>6
<1>7. /\ Touched' = Touched \cup N /\ Opened' = Opened /\ Awaiting' = Awaiting
      /\ \A x : x \in Settled' <=> x \in Settled \/ (x = a /\ a \notin E)
      /\ \A x : x \in Active' <=> (x \in Active /\ x # a) \/ x \in N \/ x \in E
      /\ \A x : x \in Holders' <=> (x \in Holders /\ x # a) \/ x \in N \/ x \in F \/ x \in E
  <2>1. Touched' = Touched \cup N
    BY <1>3, <1>5 DEF Touched
  <2>2. Opened' = Opened
    BY <1>3 DEF Opened
  <2>3. \A x : x \in Settled' <=> x \in Settled \/ (x = a /\ a \notin E)
    BY <1>2, <1>3, <1>5 DEF Settled
  <2>4. \A x : x \in Active' <=> (x \in Active /\ x # a) \/ x \in N \/ x \in E
    BY <1>2, <1>3, <1>5, <1>c DEF Active
  <2>5. \A x : x \in Holders' <=> (x \in Holders /\ x # a) \/ x \in N \/ x \in F \/ x \in E
    <3>2. a \notin Flows \/ phase[a] # "started"
      BY <1>2
    <3>3. a \notin N /\ a \notin F
      BY <1>2, <1>a, <1>c
    <3> QED BY <3>2, <3>3, <1>2, <1>3, <1>5, <1>6, <1>c DEF Holders
  <2>6. Awaiting' = Awaiting
    BY <1>2, <1>3, <1>5 DEF Awaiting, links
  <2> QED BY <2>1, <2>2, <2>3, <2>4, <2>5, <2>6
<1>8. \A x \in Activity : phase[x] = "entered" => TokenOf(x) # t
  <2> SUFFICES ASSUME NEW x \in Activity, phase[x] = "entered", TokenOf(x) = t PROVE FALSE
    OBVIOUS
  <2>1. BranchOf[x] = BranchOf[a] /\ x # a
    BY <1>2 DEF TokenOf
  <2>2. x \in Holders /\ a \in Holders
    BY <1>2 DEF Holders
  <2> QED BY <2>1, <2>2, <1>0 DEF HoldInv
<1>9. a # Root => a \in ChildSet(s) /\ s = Structure(a)
  BY <1>a DEF s
<1>10. TypeOK'
  BY <1>0, <1>2, <1>3, <1>5 DEF TypeOK, CallRecord, definition, links
<1>11. CallsInv'
  BY <1>0, <1>2, <1>3, <1>5, <1>9, <1>a, <1>c DEF CallsInv, ThreadOps
<1>12. WaitsInv'
  BY <1>0, <1>3 DEF WaitsInv
<1>13. TokensInv'
  BY Domains, <1>0, <1>3, <1>7 DEF TokensInv
<1>14. UniqueInv'
  BY <1>0, <1>2, <1>5, <1>a, <1>c DEF UniqueInv
<1>15. PhaseInv'
  BY Domains, <1>0, <1>2, <1>3, <1>5, <1>6, <1>a, <1>c DEF PhaseInv
<1>16. TouchInv'
  BY Domains, <1>0, <1>2, <1>6, <1>7, <1>a, <1>c DEF TouchInv
<1>17. ActiveInv'
  <2>1. ASSUME NEW x \in Active, x # a, x # Root
        PROVE  /\ phase'[Structure(x)] = "started"
               /\ Structure(x) \notin Leaving' /\ Structure(x) \notin Finishing'
               /\ Structure(x) \in Choice => choice'[Structure(x)] = x
    BY <2>1, <1>0, <1>3, <1>5, <1>c DEF ActiveInv, definition
  <2>2. ASSUME NEW x \in N
        PROVE  /\ phase'[Structure(x)] = "started"
               /\ Structure(x) \notin Leaving' /\ Structure(x) \notin Finishing'
               /\ Structure(x) \notin Choice
    BY <2>2, <1>3, <1>5, <1>a, <1>c
  <2>3. ASSUME a \in E
        PROVE  /\ a # Root /\ phase'[s] = "started" /\ s = Structure(a)
               /\ s \notin Leaving' /\ s \notin Finishing'
               /\ s \in Choice => choice'[s] = a
    BY <2>3, <1>0, <1>2, <1>3, <1>5, <1>9, <1>a, <1>c DEF ActiveInv, definition
  <2> QED BY <2>1, <2>2, <2>3, <1>5, <1>7 DEF ActiveInv
<1>18. EndedInv'
  BY Domains, <1>0, <1>3, <1>7 DEF EndedInv
<1>19. LeftInv'
  BY Domains, <1>0, <1>2, <1>3, <1>5, <1>7 DEF LeftInv
<1>20. SequenceInv'
  <2> SUFFICES ASSUME NEW r \in Activity, Kind[r] = "sequence", phase'[r] \in {"started", "left"},
                      NEW i \in DOMAIN Children[r], NEW j \in DOMAIN Children[r], i < j,
                      Children[r][j] \in Touched'
               PROVE  Children[r][i] \in Settled'
    BY DEF SequenceInv
  <2>1. CASE Children[r][j] \in Touched
    BY <2>1, <1>0, <1>3, <1>7 DEF SequenceInv
  <2>2. CASE Children[r][j] \in N
    <3>1. r = s
      BY <2>2, <1>c, ChildAt
    <3>2. a \notin E
      BY <2>2, <1>5
    <3> QED BY <2>2, <3>1, <3>2, <1>7, <1>c
  <2> QED BY <2>1, <2>2, <1>7
<1>21. BranchInv'
  BY CallTypes, Domains, ChildAt, <1>0, <1>2, <1>3, <1>5, <1>7, <1>c DEF BranchInv
<1>22. HoldInv'
  BY <1>0, <1>2, <1>5, <1>7, <1>c DEF HoldInv
<1>23. NodeInv'
  <2>1. \A x \in Activity : phase'[x] = "entered" => TokenOf(x) \in DOMAIN parent' /\ node'[TokenOf(x)] = x
    BY <1>0, <1>2, <1>3, <1>8 DEF NodeInv
  <2>2. ASSUME NEW u \in DOMAIN parent, node[u] # None
        PROVE  /\ phase'[node[u]] # "idle"
               /\ node[u] \in Basic /\ phase'[node[u]] = "dead" => node[u] \notin Awaiting'
    <3>1. node[u] \in Activity
      BY <2>2, <1>0 DEF TypeOK
    <3> QED BY <2>2, <3>1, <1>0, <1>2, <1>3, <1>7 DEF NodeInv
  <2>3. \A u \in DOMAIN parent : node[u] \in Basic => node[u] # None
    BY Shapes DEF Basic
  <2>4. None \notin Basic
    BY Shapes DEF Basic
  <2> QED BY <2>1, <2>2, <2>3, <2>4, <1>3 DEF NodeInv
<1>24. TargetInv'
  BY Domains, <1>0, <1>1, <1>2, <1>3, <1>5 DEF TargetInv, links
<1>25. NoticeInv'
  BY <1>5 DEF NoticeInv
<1>26. LinkInv'
  BY Domains, <1>0, <1>1, <1>2, <1>3, <1>5, <1>7, SourceOf DEF LinkInv, links
<1>27. MeaningInv'
  <2>1. \A x \in N : Eligible(x)
    BY <1>a, <1>c DEF Eligible
  <2>2. \A x \in Activity : Eligible(x)' = Eligible(x)
    BY <1>3, <1>6 DEF Eligible, definition
  <2>3. \A x \in Activity : phase'[x] = "entered" \/ x \in Entering' => Eligible(x)
    BY <2>1, <1>0, <1>3, <1>5 DEF MeaningInv
  <2>4. \A c \in pending' : c.op = "determine" => c \in pending
    BY <1>5
  <2> QED BY <2>2, <2>3, <2>4, <1>0, <1>3, <1>5, <1>6 DEF MeaningInv, definition, links
<1>28. ChoiceInv'
  BY <1>0, <1>3 DEF ChoiceInv, definition
<1>z. DeadInv /\ TakenInv /\ DoneInv /\ FiredInv
  BY FurtherParts
<1>29. DeadInv'
  BY Domains, <1>0, <1>z, <1>2, <1>3, <1>5 DEF DeadInv, PhaseInv
<1>30. TakenInv'
  BY Domains, <1>0, <1>z, <1>2, <1>3, <1>5, <1>6 DEF TakenInv, PhaseInv, definition
<1>31. DoneInv'
  <2> SUFFICES ASSUME NEW y \in Activity \ {Root},
                      phase'[Structure(y)] = "left" \/ Structure(y) \in Leaving' \/ Structure(y) \in Finishing',
                      Kind[Structure(y)] = "sequence" \/ (Structure(y) \in Choice /\ choice'[Structure(y)] = y)
               PROVE  y \in Settled'
    BY DEF DoneInv
  <2>1. CASE Structure(y) \notin F
    BY <2>1, <1>z, <1>3, <1>5, <1>7 DEF DoneInv, definition
  <2>2. CASE Structure(y) \in F
    <3>1. a # Root /\ Structure(y) = s /\ s = Structure(a) /\ a \notin E
      BY <2>2, <1>5, <1>9, <1>c
    <3>2. y = a => y \in Settled'
      BY <3>1, <1>7
    <3>3. s \in Choice => y = a
      BY <3>1, <1>0, <1>2, <1>3 DEF ActiveInv, definition, Choice
    <3>4. Kind[s] = "sequence" /\ y # a => y \in Settled
      BY <2>2, <3>1, <1>5 DEF Completed
    <3> QED BY <3>1, <3>2, <3>3, <3>4, <1>7
  <2> QED BY <2>1, <2>2
<1>32. FiredInv'
  BY Domains, <1>0, <1>z, <1>2, <1>3, <1>5, <1>7 DEF FiredInv, links
<1> QED BY <1>5, <1>10, <1>11, <1>12, <1>13, <1>14, <1>15, <1>16, <1>17, <1>18, <1>19, <1>20, <1>21, <1>22,
           <1>23, <1>24, <1>25, <1>26, <1>27, <1>28, <1>29, <1>30, <1>31, <1>32 DEF FlowInv

(* Token.end ends the token itself and, of the tokens below it, those      *)
(* whose parent it ends.                                                   *)
LEMMA EndedTogether ==
  ASSUME NEW t
  PROVE  /\ EndedWith(t) \subseteq DOMAIN parent \ ended
         /\ t \in DOMAIN parent \ ended => t \in EndedWith(t)
         /\ \A c \in DOMAIN parent \ ended : parent[c] \in EndedWith(t) => c \in EndedWith(t)
         /\ \A c \in EndedWith(t) : c # t => parent[c] \in EndedWith(t)
<1> DEFINE running == DOMAIN parent \ ended
           Closed(S) == {t} \cap running \subseteq S /\ \A c \in S : ChildrenOf(c) \cap running \subseteq S
           E == EndedWith(t)
<1>1. E = {c \in running : \A S \in SUBSET running : Closed(S) => c \in S}
  BY DEF EndedWith
<1> HIDE DEF E, Closed
<1>2. E \subseteq running
  BY <1>1
<1>3. t \in running => t \in E
  BY <1>1 DEF Closed
<1>4. ASSUME NEW c \in running, parent[c] \in E PROVE c \in E
  <2> SUFFICES ASSUME NEW S \in SUBSET running, Closed(S) PROVE c \in S
    BY <1>1
  <2>1. parent[c] \in S /\ c \in ChildrenOf(parent[c])
    BY <1>1, <1>4 DEF ChildrenOf
  <2> QED BY <2>1 DEF Closed
<1>5. ASSUME NEW c \in E, c # t, parent[c] \notin E PROVE FALSE
  <2> DEFINE S == E \ {c}
  <2>1. S \in SUBSET running
    BY <1>2
  <2>2. {t} \cap running \subseteq S
    BY <1>3, <1>5
  <2>3. ASSUME NEW d \in S, NEW e \in ChildrenOf(d) \cap running PROVE e \in S
    <3>1. parent[e] = d
      BY DEF ChildrenOf
    <3>2. e \in E
      BY <3>1, <2>3, <1>4
    <3>3. e # c
      BY <3>1, <2>3, <1>5
    <3> QED BY <3>2, <3>3
  <2>4. Closed(S)
    BY <2>2, <2>3 DEF Closed
  <2> HIDE DEF S
  <2>5. c \in S
    BY <2>1, <2>4, <1>1, <1>5
  <2> QED BY <2>5 DEF S
<1> QED BY <1>2, <1>3, <1>4, <1>5 DEF E

LEMMA BranchTokens ==
  ASSUME TokensInv, NEW g \in Flows, phase[g] \in {"started", "left"}
  PROVE  \A e \in ChildSet(g) : /\ <<"branch", e>> \in DOMAIN parent
                                /\ parent[<<"branch", e>>] = LinksToken(g, TokenOf(g))
<1>1. g \in Activity
  BY DEF Flows
<1>2. \A e \in ChildSet(g) : e \in Activity /\ e # Root /\ Structure(e) = g
  BY <1>1, StructureOfChild
<1>3. \A e \in ChildSet(g) : <<"branch", e>> \in DOMAIN parent
  BY DEF TokensInv
<1> QED BY <1>2, <1>3 DEF TokensInv

(* The tokens of the branches of a flow end together, unless the token     *)
(* ended with is one of them.                                              *)
LEMMA BranchesEndTogether ==
  ASSUME TokensInv, NEW x, NEW f \in Flows, phase[f] \in {"started", "left"},
         NEW b \in ChildSet(f), NEW d \in ChildSet(f),
         <<"branch", b>> \in EndedWith(x), <<"branch", b>> # x
  PROVE  <<"branch", d>> \in ended \cup EndedWith(x)
<1>1. parent[<<"branch", b>>] = parent[<<"branch", d>>] /\ <<"branch", d>> \in DOMAIN parent
  BY BranchTokens
<1> DEFINE u == <<"branch", b>>
           w == <<"branch", d>>
<1>2. u \in EndedWith(x) /\ u # x /\ parent[u] = parent[w] /\ w \in DOMAIN parent
  BY <1>1
<1> HIDE DEF u, w
<1>3. parent[u] \in EndedWith(x)
  BY <1>2, EndedTogether
<1>4. w \in ended \cup EndedWith(x)
  BY <1>2, <1>3, EndedTogether
<1> QED BY <1>4 DEF w

(* Flow.leave: the last branch to end leaves the flow. *)
LEMMA EndBranchKeeps ==
  ASSUME FlowInv, EndBranch
  PROVE  FlowInv'
<1> DEFINE f == call.activity
           t == call.token
           up == parent[t]
           last == ChildrenOf(up) \ {t} \subseteq ended
           hasLinks == Links[f] # {}
           v == IF hasLinks THEN parent[up] ELSE up
           L == IF last THEN {f} ELSE {}
<1>0. /\ TypeOK /\ StackInv /\ CallsInv /\ WaitsInv /\ TokensInv /\ UniqueInv /\ PhaseInv
      /\ TouchInv /\ ActiveInv /\ EndedInv /\ LeftInv /\ SequenceInv /\ BranchInv /\ HoldInv
      /\ NodeInv /\ TargetInv /\ NoticeInv /\ LinkInv /\ MeaningInv /\ ChoiceInv
  BY Parts
<1>1. calls # <<>> /\ call.op = "end" /\ t \notin ended /\ f \in Flows /\ f \in Activity
  BY <1>0, CallOnTop DEF EndBranch, Calling, Flows
<1>a. /\ call \in pending /\ t \in DOMAIN parent /\ t \in Token /\ \A c : c \notin Notices
      /\ \E b \in ChildSet(f) : t = <<"branch", b>>
  <2>1. call \in pending /\ t \in DOMAIN parent /\ t \in Token
    BY <1>0, <1>1, CallOnTop
  <2>2. \E b \in ChildSet(f) : t = <<"branch", b>>
    BY <2>1, <1>0, <1>1 DEF CallsInv
  <2>3. \A c : c \notin Notices
    BY <1>0, <1>1, OnlyNotice DEF Notices
  <2> QED BY <2>1, <2>2, <2>3
<1>b. PICK a \in ChildSet(f) : t = <<"branch", a>>
  BY <1>a
<1>2. /\ a \in Activity /\ a # Root /\ Structure(a) = f /\ t = TokenOf(a) /\ BranchOf[a] = a /\ a # f
      /\ a \in Ending /\ a \in Active /\ phase[a] \in {"left", "dead"} /\ a \notin Proceeding /\ a \in Touched
      /\ a \notin Waiting /\ a \notin Leaving /\ a \notin Finishing /\ a \notin Entering
      /\ phase[f] = "started" /\ f \notin Leaving /\ f \notin Finishing /\ f \notin Waiting
  <2> HIDE DEF f, t
  <2>1. a \in Activity /\ a # Root /\ Structure(a) = f /\ t = TokenOf(a) /\ BranchOf[a] = a
    BY <1>1, <1>b, StructureOfChild, BranchOfChild
  <2>2. a \in Ending
    BY <1>1, <1>a, <1>b, <2>1 DEF Ending, f, t
  <2>3. phase[a] \in {"left", "dead"} /\ a \notin Proceeding
    BY <2>2, <1>0 DEF PhaseInv
  <2>4. a \notin Waiting /\ a \notin Leaving /\ a \notin Finishing /\ a \notin Entering
    BY <2>3, <1>0 DEF PhaseInv
  <2>5. a \in Active /\ a \in Touched
    BY <2>1, <2>2, <2>3 DEF Active, Touched
  <2>6. phase[f] = "started" /\ f \notin Leaving /\ f \notin Finishing
    BY <2>1, <2>5, <1>0 DEF ActiveInv
  <2>7. f \notin Waiting
    BY <2>1, <2>5, <1>0 DEF TouchInv
  <2> QED BY <2>1, <2>2, <2>3, <2>4, <2>5, <2>6, <2>7
<1>c. /\ up \in DOMAIN parent /\ (hasLinks => up = <<"links", f>>)
      /\ v = TokenOf(f) /\ v \in DOMAIN parent /\ v \in Token
  <2> HIDE DEF f, t
  <2>1. up = LinksToken(f, TokenOf(f)) /\ (Links[f] # {} => parent[<<"links", f>>] = TokenOf(f))
    BY <1>0, <1>a, <1>b, <1>2 DEF TokensInv
  <2>2. up \in DOMAIN parent
    BY <1>0, <1>a, <1>b, <1>2 DEF TypeOK, Main
  <2>3. CASE Links[f] # {}
    <3>1. up = <<"links", f>> /\ v = TokenOf(f)
      BY <2>1, <2>3 DEF LinksToken
    <3>2. v \in DOMAIN parent
      BY <3>1, <2>2, <2>3, <1>0 DEF TypeOK, Main
    <3> QED BY <3>1, <3>2, <2>2, <1>0 DEF TypeOK
  <2>4. CASE Links[f] = {}
    BY <2>1, <2>2, <2>4, <1>0 DEF LinksToken, TypeOK
  <2> QED BY <2>3, <2>4
<1>3. /\ DOMAIN node' = DOMAIN parent
      /\ \A u \in DOMAIN parent : node'[u] = IF u = t THEN None ELSE node[u]
      /\ ended' = ended \cup EndedWith(t) \cup IF last /\ hasLinks THEN EndedWith(up) ELSE {}
      /\ UNCHANGED <<definition, parent, links, waiting, phase, outcome>>
  BY <1>0, <1>a DEF EndBranch, TypeOK
<1>d. ended \subseteq ended' /\ ended' \subseteq DOMAIN parent
  BY <1>0, <1>3, EndedTogether DEF TypeOK
<1>5. /\ calls' \in Seq(CallRecord) /\ StackInv'
      /\ \A c \in pending' : c \in pending \/ (c.op = "leave" /\ c.activity = f /\ c.token = v)
      /\ Leaving' = Leaving \cup L
      /\ \A x : x \in Ending' <=> x \in Ending /\ x # a
      /\ UNCHANGED <<Entering, Executing, Skipping, Proceeding, Eliminating, Finishing, Determining, Looping>>
      /\ \A c : c \notin Notices'
  <2>1. /\ Top("enter") = {} /\ Top("execute") = {} /\ Top("skip") = {} /\ Top("leave") = {} /\ Top("proceed") = {}
        /\ Top("eliminate") = {} /\ Top("end") = {f} /\ call \notin Looping
    BY <1>1 DEF Top, Looping
  <2>2. Finishing \ {f} = Finishing
    BY <1>2
  <2>3. \A x : (call.op = "end" /\ call.activity \in Flows /\ call.token = <<"branch", x>>) <=> x = a
    BY <1>1, <1>b
  <2>4. CASE last
    <3> DEFINE c == Call("leave", f, v)
    <3>1. c \in ActivityCall /\ c.op = "leave" /\ c.activity = f /\ c.token = v
      BY <1>1, <1>c DEF Call, ActivityCall
    <3>2. c \notin pending
      BY <1>1, <1>2, <3>1 DEF Leaving, Doing
    <3>3. Then(<<c>>) /\ L = {f}
      BY <2>4 DEF EndBranch
    <3> HIDE DEF c, f, t, v, L, last, hasLinks, up
    <3>4. ReplacedBy(c)
      BY <1>0, <1>1, <3>1, <3>2, <3>3, EffectOfCall
    <3>5. \A x : x \in Ending' <=> x \in Ending /\ x # a
      BY <3>1, <3>4, <2>3 DEF ReplacedBy
    <3>6. /\ Leaving' = Leaving \cup L
          /\ UNCHANGED <<Entering, Executing, Skipping, Proceeding, Eliminating, Finishing, Looping>>
      BY <3>1, <3>3, <3>4, <2>1, <2>2 DEF ReplacedBy, When
    <3>7. UNCHANGED Determining /\ \A d : d \notin Notices'
      BY <3>1, <3>4, <1>1, <1>a DEF ReplacedBy, When
    <3> QED BY <3>1, <3>4, <3>5, <3>6, <3>7 DEF ReplacedBy
  <2>5. CASE ~ last
    <3>1. Then(<<>>) /\ L = {}
      BY <2>5 DEF EndBranch
    <3> HIDE DEF f, t, v, L, last, hasLinks, up
    <3>2. Dropped
      BY <1>0, <1>1, <3>1, EffectOfNothing
    <3>3. \A x : x \in Ending' <=> x \in Ending /\ x # a
      BY <3>2, <2>3 DEF Dropped
    <3>4. /\ Leaving' = Leaving \cup L
          /\ UNCHANGED <<Entering, Executing, Skipping, Proceeding, Eliminating, Finishing, Looping>>
      BY <3>1, <3>2, <2>1, <2>2 DEF Dropped
    <3>5. UNCHANGED Determining /\ \A d : d \notin Notices'
      BY <3>2, <1>1, <1>a DEF Dropped
    <3> QED BY <3>2, <3>3, <3>4, <3>5 DEF Dropped
  <2> QED BY <2>4, <2>5
<1> HIDE DEF f, t, v
<1>6. Waiting' = Waiting /\ Performed' = Performed
  BY <1>3, PerformedStays DEF Waiting, definition
<1>7. /\ UNCHANGED <<Touched, Opened, Awaiting>>
      /\ \A x : x \in Settled' <=> x \in Settled \/ x = a
      /\ \A x : x \in Active' => x \in Active /\ x # a
      /\ \A x : x \in Holders' => x \in Holders
  <2>1. Touched' = Touched
    BY <1>3, <1>5 DEF Touched
  <2>2. Opened' = Opened
    BY <1>3 DEF Opened
  <2>3. \A x : x \in Settled' <=> x \in Settled \/ x = a
    BY <1>2, <1>3, <1>5 DEF Settled
  <2>4. \A x : x \in Active' => x \in Active /\ x # a
    BY <1>2, <1>3, <1>5 DEF Active
  <2>5. \A x : x \in Holders' => x \in Holders
    BY <1>1, <1>2, <1>3, <1>5, <1>6 DEF Holders, L
  <2>6. Awaiting' = Awaiting
    BY <1>3, <1>5, <1>a DEF Awaiting, links
  <2> QED BY <2>1, <2>2, <2>3, <2>4, <2>5, <2>6
<1>8. \A x \in Activity : phase[x] = "entered" => TokenOf(x) # t
  <2> SUFFICES ASSUME NEW x \in Activity, phase[x] = "entered", TokenOf(x) = t PROVE FALSE
    OBVIOUS
  <2>1. BranchOf[x] = BranchOf[a] /\ x # a
    BY <1>2 DEF TokenOf
  <2>2. x \in Holders /\ a \in Holders
    BY <1>2 DEF Holders
  <2> QED BY <2>1, <2>2, <1>0 DEF HoldInv
<1>9. f \in L => \A b \in ChildSet(f) : b \in Settled'
  <2> SUFFICES ASSUME last, NEW b \in ChildSet(f), b # a PROVE b \in Settled
    BY <1>7 DEF L
  <2>1. b \in Activity /\ b # Root /\ Structure(b) = f
    BY <1>1, StructureOfChild
  <2>2. <<"branch", b>> \in DOMAIN parent
    BY <1>0, <1>1, <1>2 DEF TokensInv
  <2>3. parent[<<"branch", b>>] = LinksToken(f, TokenOf(f)) /\ parent[<<"branch", a>>] = LinksToken(f, TokenOf(f))
    BY <2>1, <2>2, <1>0, <1>2, <1>a, <1>b DEF TokensInv
  <2>4. <<"branch", b>> \in ended
    BY <2>2, <2>3, <1>b DEF ChildrenOf
  <2> QED BY <2>4, <1>0, <1>1, <1>2, <1>b DEF EndedInv
<1> HIDE DEF last, hasLinks, up, L
<1>e. L \subseteq {f}
  BY DEF L
<1>10. TypeOK'
  BY <1>0, <1>a, <1>3, <1>5, <1>d DEF TypeOK, CallRecord, definition, links
<1>11. CallsInv'
  BY <1>0, <1>1, <1>3, <1>5, <1>c DEF CallsInv, ThreadOps
<1>12. WaitsInv'
  BY <1>0, <1>3 DEF WaitsInv
<1>13. TokensInv'
  BY Domains, <1>0, <1>3, <1>7 DEF TokensInv
<1>14. UniqueInv'
  BY <1>0, <1>1, <1>2, <1>5, <1>e DEF UniqueInv
<1>15. PhaseInv'
  BY Domains, <1>0, <1>2, <1>3, <1>5, <1>6, <1>e DEF PhaseInv
<1>16. TouchInv'
  BY Domains, <1>0, <1>2, <1>6, <1>7 DEF TouchInv
<1>17. ActiveInv'
  <2> SUFFICES ASSUME NEW x \in Active', x # Root
               PROVE  /\ phase'[Structure(x)] = "started"
                      /\ Structure(x) \notin Leaving' /\ Structure(x) \notin Finishing'
                      /\ Structure(x) \in Choice => choice'[Structure(x)] = x
    BY DEF ActiveInv
  <2>1. /\ phase[Structure(x)] = "started" /\ Structure(x) \notin Leaving /\ Structure(x) \notin Finishing
        /\ Structure(x) \in Choice => choice[Structure(x)] = x
    BY <1>0, <1>7 DEF ActiveInv
  <2>2. x \notin Settled'
    <3>1. x \in Activity /\ phase[x] \in {"left", "dead"} => x \notin Entering'
      BY <1>0, <1>5 DEF Active, PhaseInv
    <3> QED BY <3>1, <1>3 DEF Active, Settled
  <2>3. x \in Activity /\ x \in ChildSet(Structure(x))
    BY StructureOf DEF Active
  <2>4. Structure(x) \notin L
    BY <2>2, <2>3, <1>9, <1>e
  <2> QED BY <2>1, <2>4, <1>3, <1>5 DEF definition
<1>18. EndedInv'
  <2> SUFFICES ASSUME NEW g \in Flows, phase'[g] \in {"started", "left"}, NEW b \in ChildSet(g), NEW d \in ChildSet(g),
                      b \notin Settled', <<"branch", b>> \in ended'
               PROVE  <<"branch", d>> \in ended'
    BY DEF EndedInv
  <2>1. phase[g] \in {"started", "left"} /\ b \notin Settled /\ b # a
    BY <1>3, <1>7
  <2>2. CASE <<"branch", b>> \in ended
    BY <2>1, <2>2, <1>0, <1>d DEF EndedInv
  <2>3. CASE <<"branch", b>> \in EndedWith(t)
    <3>1. <<"branch", b>> # t
      BY <2>1, <1>b
    <3>2. <<"branch", d>> \in ended \cup EndedWith(t)
      BY <3>1, <2>1, <2>3, <1>0, BranchesEndTogether
    <3> QED BY <3>2, <1>3
  <2>4. CASE last /\ hasLinks /\ <<"branch", b>> \in EndedWith(up)
    <3>1. <<"branch", b>> # up
      BY <2>4, <1>c
    <3>2. <<"branch", d>> \in ended \cup EndedWith(up)
      BY <3>1, <2>1, <2>4, <1>0, BranchesEndTogether
    <3> QED BY <3>2, <2>4, <1>3
  <2> QED BY <2>2, <2>3, <2>4, <1>3
<1>19. LeftInv'
  BY Domains, <1>0, <1>1, <1>3, <1>5, <1>7, <1>9, <1>e DEF LeftInv
<1>20. SequenceInv'
  BY Domains, <1>0, <1>2, <1>3, <1>7 DEF SequenceInv
<1>21. BranchInv'
  BY CallTypes, Domains, <1>0, <1>2, <1>3, <1>5, <1>7 DEF BranchInv
<1>22. HoldInv'
  BY <1>0, <1>2, <1>7 DEF HoldInv
<1>23. NodeInv'
  <2>1. \A x \in Activity : phase'[x] = "entered" => TokenOf(x) \in DOMAIN parent' /\ node'[TokenOf(x)] = x
    BY <1>0, <1>a, <1>3, <1>8 DEF NodeInv
  <2>2. ASSUME NEW u \in DOMAIN parent, node[u] # None
        PROVE  /\ phase'[node[u]] # "idle"
               /\ node[u] \in Basic /\ phase'[node[u]] = "dead" => node[u] \notin Awaiting'
    <3>1. node[u] \in Activity
      BY <2>2, <1>0 DEF TypeOK
    <3> QED BY <2>2, <3>1, <1>0, <1>2, <1>3, <1>7 DEF NodeInv
  <2>3. \A u \in DOMAIN parent : node[u] \in Basic => node[u] # None
    BY Shapes DEF Basic
  <2>4. None \notin Basic
    BY Shapes DEF Basic
  <2> QED BY <2>1, <2>2, <2>3, <2>4, <1>3 DEF NodeInv
<1>24. TargetInv'
  BY Domains, <1>0, <1>1, <1>2, <1>3, <1>5 DEF TargetInv, links
<1>25. NoticeInv'
  BY <1>5 DEF NoticeInv
<1>26. LinkInv'
  BY Domains, <1>0, <1>1, <1>2, <1>3, <1>5, <1>7, SourceOf DEF LinkInv, links
<1>27. MeaningInv'
  BY Domains, <1>0, <1>1, <1>2, <1>3, <1>5, <1>6 DEF MeaningInv, Eligible, definition, links
<1>28. ChoiceInv'
  BY <1>0, <1>3 DEF ChoiceInv, definition
<1>z. DeadInv /\ TakenInv /\ DoneInv /\ FiredInv
  BY FurtherParts
<1>29. DeadInv'
  BY Domains, <1>0, <1>z, <1>2, <1>3, <1>5 DEF DeadInv, PhaseInv
<1>30. TakenInv'
  BY Domains, <1>0, <1>z, <1>2, <1>3, <1>5, <1>6 DEF TakenInv, PhaseInv, definition
<1>31. DoneInv'
  <2> SUFFICES ASSUME NEW y \in Activity \ {Root},
                      phase'[Structure(y)] = "left" \/ Structure(y) \in Leaving' \/ Structure(y) \in Finishing',
                      Kind[Structure(y)] = "sequence" \/ (Structure(y) \in Choice /\ choice'[Structure(y)] = y)
               PROVE  y \in Settled'
    BY DEF DoneInv
  <2>1. Structure(y) \notin L
    BY <1>1, <1>e DEF Flows, Choice
  <2> QED BY <2>1, <1>z, <1>3, <1>5, <1>7 DEF DoneInv, definition
<1>32. FiredInv'
  BY Domains, <1>0, <1>z, <1>2, <1>3, <1>5, <1>7 DEF FiredInv, links
<1> QED BY <1>5, <1>10, <1>11, <1>12, <1>13, <1>14, <1>15, <1>16, <1>17, <1>18, <1>19, <1>20, <1>21, <1>22,
           <1>23, <1>24, <1>25, <1>26, <1>27, <1>28, <1>29, <1>30, <1>31, <1>32 DEF FlowInv

-----------------------------------------------------------------------------
(* Dead path elimination. *)

(* An activity that is about to be eliminated has not been reached, or is  *)
(* skipped, and none of the links that leave it is determined.             *)
LEMMA EliminateTop ==
  ASSUME FlowInv, calls # <<>>, call.op = "eliminate", NEW a, a = call.activity
  PROVE  /\ call \in pending /\ a \in Activity /\ call.token \in DOMAIN parent /\ call.token \in Token
         /\ a \in Eliminating /\ phase[a] \in {"idle", "skipped"} /\ ~ Performed[a] /\ a \in Touched
         /\ a \notin Entering /\ a \notin Executing /\ a \notin Leaving /\ a \notin Skipping
         /\ a \notin Finishing /\ a \notin Ending /\ a \notin Waiting
         /\ phase[a] = "idle" => a \notin Proceeding
         /\ phase[a] = "skipped" => a \in Proceeding
         /\ phase[a] = "skipped" => \A l \in Link : Target[l] = a => status[l] # "unset"
         /\ \A c : c \notin Notices
         /\ \A l \in ToSet(Sources[a]) : l \in Link /\ Source(l) = a /\ l \notin Determining /\ status[l] = "unset"
         /\ \A l \in Link : Source(l) = a => l \notin Determining /\ status[l] = "unset"
         /\ \A l \in Link : Source(l) = a <=> l \in ToSet(Sources[a])
<1>0. /\ TypeOK /\ StackInv /\ CallsInv /\ UniqueInv /\ PhaseInv /\ TouchInv /\ TargetInv /\ MeaningInv /\ LinkInv
  BY Parts
<1>1. /\ call \in pending /\ a \in Activity /\ call.token \in DOMAIN parent /\ call.token \in Token
      /\ a \in Eliminating
  BY <1>0, CallOnTop, DoingTop
<1>2. phase[a] \in {"idle", "skipped"} /\ ~ Performed[a] /\ a \in Touched
  BY <1>0, <1>1 DEF PhaseInv, MeaningInv, Touched
<1>3. /\ a \notin Entering /\ a \notin Executing /\ a \notin Leaving /\ a \notin Skipping
      /\ a \notin Finishing /\ a \notin Ending /\ a \notin Waiting
      /\ phase[a] = "idle" => a \notin Proceeding
      /\ phase[a] = "skipped" => a \in Proceeding
  BY <1>0, <1>1, <1>2 DEF PhaseInv, UniqueInv
<1>4. phase[a] = "skipped" => \A l \in Link : Target[l] = a => status[l] # "unset"
  BY <1>0 DEF TargetInv
<1>5. \A c : c \notin Notices
  BY <1>0, OnlyNotice DEF Notices
<1>6. \A l \in ToSet(Sources[a]) : l \in Link /\ Source(l) = a
  BY <1>1, SourceOf
<1>7. \A l \in ToSet(Sources[a]) : status[l] # "absent"
  BY <1>0, <1>2, LinksPresent
<1>8. \A l \in Link : Source(l) = a => l \notin Determining /\ status[l] \notin {"true", "false"}
  BY <1>0, <1>2 DEF LinkInv
<1>9. \A l \in Link : Source(l) = a => l \in ToSet(Sources[a])
  BY SourceOf
<1>10. \A l \in Link : status[l] \in {"absent", "unset", "true", "false"}
  BY <1>0 DEF TypeOK
<1> QED BY <1>1, <1>2, <1>3, <1>4, <1>5, <1>6, <1>7, <1>8, <1>9, <1>10

(* Activity.skip eliminates the activity and goes on after it. *)
LEMMA SkipKeeps ==
  ASSUME FlowInv, Skip
  PROVE  FlowInv'
<1> DEFINE a == call.activity
           t == call.token
<1>0. /\ TypeOK /\ StackInv /\ CallsInv /\ WaitsInv /\ TokensInv /\ UniqueInv /\ PhaseInv
      /\ TouchInv /\ ActiveInv /\ EndedInv /\ LeftInv /\ SequenceInv /\ BranchInv /\ HoldInv
      /\ NodeInv /\ TargetInv /\ NoticeInv /\ LinkInv /\ MeaningInv /\ ChoiceInv
  BY Parts
<1>1. calls # <<>> /\ call.op = "skip"
  BY DEF Skip, Calling
<1>2. /\ call \in pending /\ a \in Activity /\ t = TokenOf(a) /\ t \in DOMAIN parent /\ t \in Token
      /\ a \in Skipping /\ phase[a] = "entered" /\ ~ Performed[a] /\ a \in Touched
      /\ a \notin Entering /\ a \notin Executing /\ a \notin Leaving /\ a \notin Proceeding
      /\ a \notin Eliminating /\ a \notin Finishing /\ a \notin Ending /\ a \notin Waiting
      /\ \A l \in Link : Target[l] = a => status[l] # "unset"
      /\ \A c : c \notin Notices
  <2>1. /\ call \in pending /\ a \in Activity /\ t = TokenOf(a) /\ t \in DOMAIN parent /\ t \in Token
        /\ a \in Skipping
    BY <1>0, <1>1, CallOnTop, DoingTop DEF ThreadOps
  <2>2. phase[a] = "entered" /\ a \in Touched
    BY <2>1, <1>0 DEF PhaseInv, Touched
  <2>3. ~ Performed[a]
    BY <2>1, <1>0 DEF MeaningInv
  <2>4. /\ a \notin Entering /\ a \notin Executing /\ a \notin Leaving /\ a \notin Proceeding
        /\ a \notin Eliminating /\ a \notin Finishing /\ a \notin Ending /\ a \notin Waiting
    BY <2>1, <2>2, <1>0 DEF PhaseInv, UniqueInv
  <2>5. \A l \in Link : Target[l] = a => status[l] # "unset"
    BY <2>1, <2>2, <1>0 DEF TargetInv
  <2>6. \A c : c \notin Notices
    BY <1>0, <1>1, OnlyNotice DEF Notices
  <2> QED BY <2>1, <2>2, <2>3, <2>4, <2>5, <2>6
<1>3. /\ \A x \in Activity : phase'[x] = IF x = a THEN "skipped" ELSE phase[x]
      /\ UNCHANGED <<definition, tokens, links, waiting, outcome>>
  BY <1>0, <1>1, <1>2 DEF Skip, Reach, TypeOK
<1>5. /\ calls' \in Seq(CallRecord) /\ StackInv'
      /\ \A c \in pending' : \/ c \in pending
                             \/ c \in ActivityCall /\ c.op \in {"eliminate", "proceed"} /\ c.activity = a /\ c.token = t
      /\ Skipping' = Skipping \ {a} /\ Eliminating' = Eliminating \cup {a} /\ Proceeding' = Proceeding \cup {a}
      /\ UNCHANGED <<Entering, Executing, Leaving, Finishing, Ending, Determining, Looping>>
      /\ \A c : c \notin Notices'
  <2> DEFINE c == Call("eliminate", a, t)
             d == Call("proceed", a, t)
             made == <<c, d>>
             M == ToSet(made)
  <2>1. /\ c \in ActivityCall /\ c.op = "eliminate" /\ c.activity = a /\ c.token = t /\ c \in CallRecord
        /\ d \in ActivityCall /\ d.op = "proceed" /\ d.activity = a /\ d.token = t /\ d \in CallRecord
        /\ c # d /\ d.op # "targetDetermined" /\ c.op # "proceed"
        /\ d.activity \notin Eliminating /\ d.activity \in Activity
    BY <1>2 DEF Call, ActivityCall, CallRecord
  <2>2. Then(made)
    BY DEF Skip
  <2> HIDE DEF c, d, a, t
  <2>3. c \notin pending /\ d \notin pending
    BY <1>2, <2>1 DEF Eliminating, Proceeding, Doing
  <2>4. made = <<c, d>>
    OBVIOUS
  <2> HIDE DEF made
  <2>5. Replaced(M) /\ \A e : e \in M <=> e = c \/ e = d
    BY <1>0, <1>1, <2>1, <2>2, <2>3, <2>4, EffectOfPair
  <2> HIDE DEF M
  <2>6. /\ \A x : x \in Made(M, "eliminate") <=> x = a
        /\ \A x : x \in Made(M, "proceed") <=> x = a
        /\ \A x : /\ x \notin Made(M, "enter") /\ x \notin Made(M, "execute") /\ x \notin Made(M, "skip")
                  /\ x \notin Made(M, "leave") /\ x \notin Made(M, "end")
                  /\ x \notin MadeEnding(M) /\ x \notin MadeDetermining(M)
        /\ \A m \in M : m.op # "targetDetermined" /\ m.op # "branch"
    BY <2>5, <2>1, <1>2 DEF Made, MadeEnding, MadeDetermining
  <2>7. /\ Top("enter") = {} /\ Top("execute") = {} /\ Top("skip") = {a} /\ Top("leave") = {} /\ Top("proceed") = {}
        /\ Top("eliminate") = {} /\ Top("end") = {}
    BY <1>1 DEF Top, a
  <2>8. Skipping' = Skipping \ {a} /\ Eliminating' = Eliminating \cup {a} /\ Proceeding' = Proceeding \cup {a}
    BY <2>5, <2>6, <2>7 DEF Replaced
  <2>9. UNCHANGED <<Entering, Executing, Leaving, Finishing>>
    BY <2>5, <2>6, <2>7 DEF Replaced
  <2>10. UNCHANGED <<Ending, Determining, Looping>> /\ \A e : e \notin Notices'
    <3>1. call \notin Looping
      BY <1>1 DEF Looping
    <3> QED BY <3>1, <2>5, <2>6, <1>1, <1>2 DEF Replaced
  <2> QED BY <2>1, <2>5, <2>8, <2>9, <2>10 DEF Replaced
<1> HIDE DEF a, t
<1>6. Waiting' = Waiting /\ Performed' = Performed
  BY <1>3, PerformedStays DEF Waiting, definition
<1>7. UNCHANGED <<Touched, Opened, Settled, Active, Holders, Awaiting>>
  <2>1. Touched' = Touched
    BY <1>2, <1>3, <1>5 DEF Touched
  <2>2. Opened' = Opened
    BY <1>2, <1>3 DEF Opened
  <2>3. Settled' = Settled
    BY <1>2, <1>3, <1>5 DEF Settled
  <2>4. Active' = Active
    BY <1>2, <1>3, <1>5 DEF Active
  <2>5. Holders' = Holders
    BY <1>2, <1>3, <1>5, <1>6 DEF Holders
  <2>6. Awaiting' = Awaiting
    BY <1>2, <1>3, <1>5 DEF Awaiting, links
  <2> QED BY <2>1, <2>2, <2>3, <2>4, <2>5, <2>6
<1>10. TypeOK'
  <2>1. phase' \in [Activity -> {"idle", "entered", "started", "left", "skipped", "dead"}]
    BY <1>0, <1>2 DEF TypeOK, Skip, Reach, a
  <2> QED BY <2>1, <1>0, <1>3, <1>5 DEF TypeOK, CallRecord, definition, tokens, links
<1>11. CallsInv'
  BY <1>0, <1>2, <1>3, <1>5 DEF CallsInv, ThreadOps, tokens
<1>12. WaitsInv'
  BY <1>0, <1>3 DEF WaitsInv, tokens
<1>13. TokensInv'
  BY Domains, <1>0, <1>2, <1>3, <1>7 DEF TokensInv, tokens
<1>14. UniqueInv'
  <2>1. ASSUME NEW c \in pending', NEW d \in pending', c.op = "eliminate", d.op = "eliminate", c.activity = d.activity
        PROVE  c = d
    <3>1. \A e \in pending : e.op = "eliminate" => e.activity \in Eliminating
      BY <1>0, CallTypes DEF Eliminating, Doing
    <3>2. CASE c \in pending /\ d \in pending
      BY <2>1, <3>2, <1>0 DEF UniqueInv
    <3>3. CASE c.activity = a
      <4>1. c \in ActivityCall /\ d \in ActivityCall /\ c.token = t /\ d.token = t
        BY <2>1, <3>1, <3>3, <1>2, <1>5
      <4> QED BY <4>1, <2>1 DEF ActivityCall
    <3> QED BY <2>1, <3>2, <3>3, <1>5
  <2>2. \A c \in pending' : c.op = "determine" => c \in pending
    BY <1>5
  <2> QED BY <2>1, <2>2, <1>0, <1>2, <1>5 DEF UniqueInv
<1>15. PhaseInv'
  BY Domains, <1>0, <1>1, <1>2, <1>3, <1>5, <1>6 DEF PhaseInv
<1>16. TouchInv'
  BY Domains, <1>0, <1>2, <1>6, <1>7 DEF TouchInv
<1>17. ActiveInv'
  BY Domains, <1>0, <1>2, <1>3, <1>5, <1>7 DEF ActiveInv, definition
<1>18. EndedInv'
  BY Domains, <1>0, <1>2, <1>3, <1>5, <1>7 DEF EndedInv, tokens
<1>19. LeftInv'
  BY Domains, <1>0, <1>2, <1>3, <1>5, <1>7 DEF LeftInv
<1>20. SequenceInv'
  BY Domains, <1>0, <1>2, <1>3, <1>7 DEF SequenceInv
<1>21. BranchInv'
  BY CallTypes, Domains, <1>0, <1>2, <1>3, <1>5, <1>7 DEF BranchInv
<1>22. HoldInv'
  BY <1>0, <1>2, <1>7 DEF HoldInv
<1>23. NodeInv'
  <2>1. \A y \in Activity : phase'[y] = "entered" => TokenOf(y) \in DOMAIN parent /\ node[TokenOf(y)] = y
    BY <1>0, <1>2, <1>3 DEF NodeInv
  <2>2. ASSUME NEW tk \in DOMAIN parent, node[tk] # None
        PROVE  /\ phase'[node[tk]] # "idle"
               /\ node[tk] \in Basic /\ phase'[node[tk]] = "dead" => node[tk] \notin Awaiting'
    <3>1. node[tk] \in Activity
      BY <2>2, <1>0 DEF TypeOK
    <3> QED BY <2>2, <3>1, <1>0, <1>2, <1>3, <1>7 DEF NodeInv
  <2>3. \A tk \in DOMAIN parent : node[tk] \in Basic => node[tk] # None
    BY Shapes DEF Basic
  <2> QED BY <2>1, <2>2, <2>3, <1>3 DEF NodeInv, tokens
<1>24. TargetInv'
  BY Domains, <1>0, <1>1, <1>2, <1>3, <1>5 DEF TargetInv, links
<1>25. NoticeInv'
  BY <1>5 DEF NoticeInv
<1>26. LinkInv'
  BY Domains, <1>0, <1>2, <1>3, <1>5, <1>7 DEF LinkInv, links
<1>27. MeaningInv'
  BY Domains, <1>0, <1>1, <1>2, <1>3, <1>5, <1>6 DEF MeaningInv, Eligible, definition, links
<1>28. ChoiceInv'
  BY <1>0, <1>3 DEF ChoiceInv, definition
<1>z. DeadInv /\ TakenInv /\ DoneInv /\ FiredInv
  BY FurtherParts
<1>29. DeadInv'
  BY Domains, <1>0, <1>z, <1>2, <1>3, <1>5 DEF DeadInv, PhaseInv
<1>30. TakenInv'
  BY Domains, <1>0, <1>z, <1>2, <1>3, <1>5, <1>6 DEF TakenInv, PhaseInv, definition
<1>31. DoneInv'
  BY Domains, <1>0, <1>z, <1>2, <1>3, <1>5, <1>7 DEF DoneInv, definition
<1>32. FiredInv'
  BY Domains, <1>0, <1>z, <1>2, <1>3, <1>5, <1>7 DEF FiredInv, links
<1> QED BY <1>5, <1>10, <1>11, <1>12, <1>13, <1>14, <1>15, <1>16, <1>17, <1>18, <1>19, <1>20, <1>21, <1>22,
           <1>23, <1>24, <1>25, <1>26, <1>27, <1>28, <1>29, <1>30, <1>31, <1>32 DEF FlowInv

(* Activity.eliminatePath keeps the invariant. *)
LEMMA EliminateBasicKeeps ==
  ASSUME FlowInv, EliminateBasic
  PROVE  FlowInv'
<1> DEFINE a == call.activity
           t == call.token
<1>0. /\ TypeOK /\ StackInv /\ CallsInv /\ WaitsInv /\ TokensInv /\ UniqueInv /\ PhaseInv
      /\ TouchInv /\ ActiveInv /\ EndedInv /\ LeftInv /\ SequenceInv /\ BranchInv /\ HoldInv
      /\ NodeInv /\ TargetInv /\ NoticeInv /\ LinkInv /\ MeaningInv /\ ChoiceInv
  BY Parts
<1>1. calls # <<>> /\ call.op = "eliminate" /\ a \in Basic /\ a \notin Flows
  BY <1>0, CallOnTop DEF EliminateBasic, Calling, Basic, Flows
<1>2. /\ call \in pending /\ a \in Activity /\ t \in DOMAIN parent /\ t \in Token
      /\ a \in Eliminating /\ phase[a] \in {"idle", "skipped"} /\ ~ Performed[a] /\ a \in Touched
      /\ a \notin Entering /\ a \notin Executing /\ a \notin Leaving /\ a \notin Skipping
      /\ a \notin Finishing /\ a \notin Ending /\ a \notin Waiting
      /\ phase[a] = "idle" => a \notin Proceeding
      /\ phase[a] = "skipped" => a \in Proceeding
      /\ phase[a] = "skipped" => \A l \in Link : Target[l] = a => status[l] # "unset"
      /\ \A c : c \notin Notices
      /\ \A l \in ToSet(Sources[a]) : l \in Link /\ Source(l) = a /\ l \notin Determining /\ status[l] = "unset"
      /\ \A l \in Link : Source(l) = a => l \notin Determining /\ status[l] = "unset"
      /\ \A l \in Link : Source(l) = a <=> l \in ToSet(Sources[a])
  BY <1>1, EliminateTop
<1> DEFINE D == IF AreTargetsDetermined(a) THEN ToSet(Sources[a]) ELSE {}
<1>a. /\ D \subseteq Link /\ \A l \in D : Source(l) = a /\ l \notin Determining /\ status[l] = "unset"
      /\ \A l \in Link : Source(l) = a /\ l \in D => \A k \in Targets(a) : status[k] # "unset"
  BY <1>2 DEF AreTargetsDetermined
<1>b. a \notin Awaiting => \A l \in Link : Source(l) = a => l \in D
  BY <1>2 DEF AreTargetsDetermined, Awaiting
<1>3. /\ \A x \in Activity : phase'[x] = IF x = a THEN "dead" ELSE phase[x]
      /\ \A l \in Link : targetToken'[l] = IF Target[l] = a THEN t ELSE targetToken[l]
      /\ UNCHANGED <<definition, tokens, status, waiting, outcome>>
  BY <1>0, <1>1, <1>2 DEF EliminateBasic, Reach, TypeOK, SetTargetsToken, Targets
<1>5. /\ calls' \in Seq(CallRecord) /\ StackInv'
      /\ \A c \in pending' : c \in pending \/ (c.op = "determine" /\ c.link \in D /\ c.value = FALSE)
      /\ \A c, d \in pending' : c.op = "determine" /\ d.op = "determine" /\ c.link = d.link => c = d
      /\ Eliminating' = Eliminating \ {a} /\ Determining' = Determining \cup D
      /\ UNCHANGED <<Entering, Executing, Skipping, Leaving, Proceeding, Finishing, Ending, Looping>>
      /\ \A c : c \notin Notices'
  <2>1. /\ Top("enter") = {} /\ Top("execute") = {} /\ Top("skip") = {} /\ Top("leave") = {} /\ Top("proceed") = {}
        /\ Top("eliminate") = {a} /\ Top("end") = {} /\ call \notin Looping
    BY <1>1 DEF Top, Looping
  <2>2. CASE AreTargetsDetermined(a)
    <3>1. Then(SetSourcesNegativeStatus(a)) /\ D = ToSet(Sources[a])
      BY <2>2 DEF EliminateBasic
    <3> HIDE DEF D, a
    <3>2. /\ calls' \in Seq(CallRecord) /\ StackInv'
          /\ \A c \in pending' : c \in pending \/ (c.op = "determine" /\ c.link \in D /\ c.value = FALSE)
          /\ \A c, d \in pending' : c.op = "determine" /\ d.op = "determine" /\ c.link = d.link => c = d
          /\ UNCHANGED <<Entering, Executing, Skipping, Leaving, Proceeding, Finishing, Ending, Looping>>
          /\ Eliminating' = Eliminating \ Top("eliminate")
          /\ Determining' = Determining \cup D
          /\ Notices' = Notices \ {call}
      BY <1>0, <1>1, <1>2, <3>1, EffectOfNegatives
    <3> QED BY <3>2, <2>1, <1>2
  <2>3. CASE ~ AreTargetsDetermined(a)
    <3>1. Then(<<>>) /\ D = {}
      BY <2>3 DEF EliminateBasic
    <3> HIDE DEF D, a
    <3>2. Dropped
      BY <1>0, <1>1, <3>1, EffectOfNothing
    <3>3. \A c \in pending' : c \in pending
      BY <3>2 DEF Dropped
    <3> QED BY <3>1, <3>2, <3>3, <2>1, <1>0, <1>1, <1>2 DEF Dropped, UniqueInv
  <2> QED BY <2>2, <2>3
<1> HIDE DEF a, t, D
<1>6. Waiting' = Waiting /\ Performed' = Performed
  BY <1>3, PerformedStays DEF Waiting, definition
<1>7. /\ Touched' = Touched /\ Opened' = Opened \cup {a}
      /\ \A x : x \in Settled' <=> x \in Settled \/ (x = a /\ a \notin Proceeding)
      /\ Active' = Active /\ Holders' = Holders /\ Awaiting' = Awaiting
  <2>1. Touched' = Touched
    BY <1>2, <1>3, <1>5 DEF Touched
  <2>2. Opened' = Opened \cup {a}
    BY <1>2, <1>3 DEF Opened
  <2>3. \A x : x \in Settled' <=> x \in Settled \/ (x = a /\ a \notin Proceeding)
    BY <1>2, <1>3, <1>5 DEF Settled
  <2>4. Active' = Active
    BY <1>2, <1>3, <1>5 DEF Active
  <2>5. Holders' = Holders
    BY <1>1, <1>2, <1>3, <1>5, <1>6 DEF Holders
  <2>6. Awaiting' = Awaiting
    BY <1>2, <1>3, <1>5 DEF Awaiting
  <2> QED BY <2>1, <2>2, <2>3, <2>4, <2>5, <2>6
<1>8. Links[a] = {} /\ t # None
  BY <1>1, <1>2, Shapes DEF Flows
<1>10. TypeOK'
  <2>1. phase' \in [Activity -> {"idle", "entered", "started", "left", "skipped", "dead"}]
    BY <1>0, <1>2 DEF TypeOK, EliminateBasic, Reach, a
  <2>2. targetToken' \in [Link -> DOMAIN parent \cup {None}]
    BY <1>0, <1>2 DEF TypeOK, EliminateBasic, SetTargetsToken, t
  <2> QED BY <2>1, <2>2, <1>0, <1>3, <1>5 DEF TypeOK, CallRecord, definition, tokens
<1>11. CallsInv'
  BY <1>0, <1>2, <1>3, <1>5 DEF CallsInv, ThreadOps, tokens
<1>12. WaitsInv'
  BY <1>0, <1>3 DEF WaitsInv, tokens
<1>13. TokensInv'
  BY Domains, <1>0, <1>1, <1>2, <1>3, <1>7 DEF TokensInv, tokens
<1>14. UniqueInv'
  BY <1>0, <1>1, <1>2, <1>5 DEF UniqueInv
<1>15. PhaseInv'
  BY Domains, <1>0, <1>1, <1>2, <1>3, <1>5, <1>6 DEF PhaseInv
<1>16. TouchInv'
  BY Domains, <1>0, <1>2, <1>6, <1>7 DEF TouchInv
<1>17. ActiveInv'
  BY Domains, <1>0, <1>2, <1>3, <1>5, <1>7 DEF ActiveInv, definition
<1>18. EndedInv'
  BY Domains, <1>0, <1>1, <1>2, <1>3, <1>5, <1>7 DEF EndedInv, tokens
<1>19. LeftInv'
  BY Domains, <1>0, <1>2, <1>3, <1>5, <1>7 DEF LeftInv
<1>20. SequenceInv'
  BY Domains, <1>0, <1>2, <1>3, <1>7 DEF SequenceInv
<1>21. BranchInv'
  BY CallTypes, Domains, <1>0, <1>2, <1>3, <1>5, <1>7 DEF BranchInv
<1>22. HoldInv'
  BY <1>0, <1>2, <1>7 DEF HoldInv
<1>23. NodeInv'
  <2>1. \A x \in Activity : phase'[x] = "entered" => TokenOf(x) \in DOMAIN parent /\ node[TokenOf(x)] = x
    BY <1>0, <1>2, <1>3 DEF NodeInv
  <2>2. ASSUME NEW u \in DOMAIN parent, node[u] # None
        PROVE  /\ phase'[node[u]] # "idle"
               /\ node[u] \in Basic /\ phase'[node[u]] = "dead" => node[u] \notin Awaiting'
    <3>1. node[u] \in Activity /\ phase[node[u]] # "idle"
      BY <2>2, <1>0 DEF TypeOK, NodeInv
    <3>2. CASE node[u] = a
      <4>1. a \notin Awaiting
        BY <3>1, <3>2, <1>2 DEF Awaiting, Targets
      <4> QED BY <3>2, <4>1, <1>2, <1>3, <1>7
    <3>3. CASE node[u] # a
      BY <2>2, <3>1, <3>3, <1>0, <1>2, <1>3, <1>7 DEF NodeInv
    <3> QED BY <3>2, <3>3
  <2>3. \A u \in DOMAIN parent : node[u] \in Basic => node[u] # None
    BY Shapes DEF Basic
  <2> QED BY <2>1, <2>2, <2>3, <1>3 DEF NodeInv, tokens
<1>24. TargetInv'
  BY Domains, <1>0, <1>1, <1>2, <1>3, <1>5, <1>8 DEF TargetInv
<1>25. NoticeInv'
  BY <1>5 DEF NoticeInv
<1>26. LinkInv'
  <2>1. ASSUME NEW l \in Link, status'[l] \in {"true", "false"} \/ l \in Determining'
        PROVE  /\ phase'[Source(l)] \in {"left", "dead"}
               /\ Source(l) \in Basic \/ phase'[Source(l)] = "left" => Source(l) \notin Awaiting'
    <3>1. CASE l \in D
      <4>1. Source(l) = a /\ a \notin Awaiting
        BY <3>1, <1>2, <1>a DEF Awaiting
      <4> QED BY <4>1, <1>2, <1>3, <1>7
    <3>2. CASE l \notin D
      <4>1. status[l] \in {"true", "false"} \/ l \in Determining
        BY <2>1, <3>2, <1>3, <1>5
      <4>2. /\ phase[Source(l)] \in {"left", "dead"} /\ Source(l) \in Activity
            /\ Source(l) \in Basic \/ phase[Source(l)] = "left" => Source(l) \notin Awaiting
        BY <4>1, <1>0, Domains DEF LinkInv
      <4>3. Source(l) # a
        BY <4>1, <1>2
      <4> QED BY <4>2, <4>3, <1>3, <1>7
    <3> QED BY <3>1, <3>2
  <2>2. \A l \in Link : l \in Determining' => status'[l] = "unset"
    BY <1>0, <1>3, <1>5, <1>a DEF LinkInv
  <2>3. \A l \in Link, f \in Activity : l \in Links[f] => (status'[l] = "absent" <=> f \notin Opened')
    BY <1>0, <1>3, <1>7, <1>8 DEF LinkInv
  <2> QED BY <2>1, <2>2, <2>3 DEF LinkInv
<1>27. MeaningInv'
  <2>1. \A x \in Activity : phase'[x] \in {"skipped", "dead"} \/ x \in Skipping' \/ x \in Eliminating' => ~ Performed[x]
    BY <1>0, <1>2, <1>3, <1>5 DEF MeaningInv
  <2>2. \A x \in Activity : phase'[x] \in {"started", "left"} \/ x \in Executing' => Performed[x]
    BY <1>0, <1>2, <1>3, <1>5 DEF MeaningInv
  <2>3. \A x \in Activity : phase'[x] = "entered" \/ x \in Entering' => Eligible(x)
    BY <1>0, <1>2, <1>3, <1>5 DEF MeaningInv
  <2>4. \A x \in Activity : Eligible(x)' = Eligible(x)
    BY <1>3, <1>6 DEF Eligible, definition
  <2>5. ASSUME NEW c \in pending', c.op = "determine"
        PROVE  c.value = (holds[c.link] /\ Performed[Source(c.link)])
    <3>1. CASE c \in pending
      BY <2>5, <3>1, <1>0 DEF MeaningInv
    <3>2. CASE c.link \in D /\ c.value = FALSE
      <4>1. Source(c.link) = a /\ ~ Performed[a]
        BY <3>2, <1>2, <1>a
      <4> QED BY <3>2, <4>1
    <3> QED BY <2>5, <3>1, <3>2, <1>5
  <2> QED BY <2>1, <2>2, <2>3, <2>4, <2>5, <1>0, <1>3, <1>6 DEF MeaningInv, definition
<1>28. ChoiceInv'
  BY <1>0, <1>3 DEF ChoiceInv, definition
<1>z. DeadInv /\ TakenInv /\ DoneInv /\ FiredInv
  BY FurtherParts
<1>29. DeadInv'
  <2> SUFFICES ASSUME NEW y \in Activity \ {Root}, phase'[Structure(y)] = "dead"
               PROVE  phase'[y] = "dead" \/ y \in Eliminating'
    BY DEF DeadInv
  <2>1. Structure(y) \in Activity /\ Structure(y) # a
    BY <1>1, StructureOf
  <2> QED BY <2>1, <1>z, <1>3, <1>5 DEF DeadInv
<1>30. TakenInv'
  BY Domains, <1>0, <1>z, <1>2, <1>3, <1>5, <1>6 DEF TakenInv, PhaseInv, definition
<1>31. DoneInv'
  BY Domains, <1>0, <1>z, <1>2, <1>3, <1>5, <1>7 DEF DoneInv, definition
<1>32. FiredInv'
  <2> SUFFICES ASSUME NEW l \in Link,
                      \/ phase'[Source(l)] = "left"
                      \/ phase'[Source(l)] = "dead" /\ (Source(l) \notin Basic \/ Source(l) \notin Awaiting')
               PROVE  status'[l] \in {"true", "false"} \/ l \in Determining'
    BY DEF FiredInv
  <2>1. CASE Source(l) = a
    BY <2>1, <1>1, <1>2, <1>3, <1>5, <1>7, <1>b
  <2>2. CASE Source(l) # a
    BY <2>2, Domains, <1>z, <1>3, <1>5, <1>7 DEF FiredInv
  <2> QED BY <2>1, <2>2
<1> QED BY <1>5, <1>10, <1>11, <1>12, <1>13, <1>14, <1>15, <1>16, <1>17, <1>18, <1>19, <1>20, <1>21, <1>22,
           <1>23, <1>24, <1>25, <1>26, <1>27, <1>28, <1>29, <1>30, <1>31, <1>32 DEF FlowInv

LEMMA EffectOfElimination ==
  ASSUME TypeOK, StackInv, CallsInv, UniqueInv, calls # <<>>, call.op = "eliminate", NEW a \in Activity, NEW u \in Token,
         \A l \in ToSet(Sources[a]) : l \notin Determining,
         \A x \in ChildSet(a) : x \in Activity /\ x \notin Eliminating,
         NEW p, p = [i \in DOMAIN Children[a] |-> Call("eliminate", Children[a][i], u)],
         Then(p \o SetSourcesNegativeStatus(a))
  PROVE  /\ calls' \in Seq(CallRecord) /\ StackInv'
         /\ \A c \in pending' : \/ c \in pending
                                \/ c.op = "determine" /\ c.link \in ToSet(Sources[a]) /\ c.value = FALSE
                                \/ c.op = "eliminate" /\ c.activity \in ChildSet(a) /\ c.token = u
         /\ \A c, d \in pending' : c.op = "determine" /\ d.op = "determine" /\ c.link = d.link => c = d
         /\ \A c, d \in pending' : c.op = "eliminate" /\ d.op = "eliminate" /\ c.activity = d.activity => c = d
         /\ UNCHANGED <<Entering, Executing, Skipping, Leaving, Proceeding, Finishing, Ending, Looping>>
         /\ Eliminating' = (Eliminating \ Top("eliminate")) \cup ChildSet(a)
         /\ Determining' = Determining \cup ToSet(Sources[a])
         /\ Notices' = Notices \ {call}
<1> DEFINE q == SetSourcesNegativeStatus(a)
           made == p \o q
           M == ToSet(made)
           D == ToSet(Sources[a])
           C == ChildSet(a)
<1>1. Children[a] \in Seq(Activity) /\ Injective(Children[a]) /\ C = ToSet(Children[a]) /\ D \in SUBSET Link
  BY Shapes, SourceOf, TreeAssumption DEF Injective, ChildSet
<1>2. /\ q \in Seq(CallRecord) /\ Injective(q)
      /\ \A c : c \in ToSet(q) => c.op = "determine" /\ c.link \in D /\ c.value = FALSE
      /\ \A l \in D : \E c \in ToSet(q) : c.op = "determine" /\ c.link = l
      /\ \A c, d \in ToSet(q) : c.link = d.link => c = d
      /\ \A i \in DOMAIN q : q[i].op = "determine"
  BY Negatives
<1>3. /\ p \in Seq(CallRecord) /\ Injective(p)
      /\ \A c : c \in ToSet(p) => c \in ActivityCall /\ c.op = "eliminate" /\ c.token = u /\ c.activity \in C
      /\ \A b \in C : Call("eliminate", b, u) \in ToSet(p)
      /\ \A i \in DOMAIN p : p[i].op = "eliminate"
  BY <1>1, Eliminations
<1> HIDE DEF q, D, C
<1>4. \A i \in DOMAIN p, j \in DOMAIN q : p[i] # q[j]
  BY <1>2, <1>3
<1>5. made \in Seq(CallRecord) /\ Injective(made) /\ Then(made)
      /\ \A c : c \in M <=> c \in ToSet(p) \/ c \in ToSet(q)
  BY <1>2, <1>3, <1>4, Concatenation DEF q
<1> HIDE DEF made, M
<1>6. M = ToSet(made)
  BY DEF M
<1>7. /\ \A c \in M : \/ c.op = "determine" /\ c.link \in D /\ c.value = FALSE /\ c \in ToSet(q)
                      \/ c.op = "eliminate" /\ c.activity \in C /\ c.token = u /\ c \in ActivityCall
      /\ \A l \in D : \E c \in M : c.op = "determine" /\ c.link = l
      /\ \A x \in C : \E c \in M : c.op = "eliminate" /\ c.activity = x
  <2>1. \A x \in C : Call("eliminate", x, u).op = "eliminate" /\ Call("eliminate", x, u).activity = x
    BY DEF Call
  <2>2. \A x \in C : Call("eliminate", x, u) \in M
    BY <1>3, <1>5
  <2>3. \A x \in C : \E c \in M : c.op = "eliminate" /\ c.activity = x
    BY <2>1, <2>2
  <2>4. \A c \in M : \/ c.op = "determine" /\ c.link \in D /\ c.value = FALSE /\ c \in ToSet(q)
                     \/ c.op = "eliminate" /\ c.activity \in C /\ c.token = u /\ c \in ActivityCall
    BY <1>2, <1>3, <1>5
  <2>5. \A l \in D : \E c \in M : c.op = "determine" /\ c.link = l
    BY <1>2, <1>5
  <2> QED BY <2>3, <2>4, <2>5
<1>8. \A m \in M : m \notin pending /\ m.op # "targetDetermined" /\ m.op # "proceed"
  <2>1. \A c \in pending : ~ (c.op = "determine" /\ c.link \in D)
    BY <1>1 DEF Determining, D
  <2>2. \A c \in pending : ~ (c.op = "eliminate" /\ c.activity \in C)
    BY DEF Eliminating, Doing, C
  <2> QED BY <2>1, <2>2, <1>7
<1>9. Replaced(M)
  BY <1>5, <1>6, <1>8, EffectOfCalls
<1>10. /\ \A op, x : op \notin {"eliminate", "determine"} => x \notin Made(M, op)
       /\ \A x : x \in Made(M, "eliminate") <=> x \in C
       /\ \A x : x \notin MadeEnding(M)
       /\ \A l : l \in MadeDetermining(M) <=> l \in D
       /\ \A m \in M : m.op # "targetDetermined" /\ m.op # "branch"
  <2>1. \A x \in C : x \in Activity
    BY DEF C
  <2>2. \A op, x : op \notin {"eliminate", "determine"} => x \notin Made(M, op)
    BY <1>7 DEF Made
  <2>3. \A x : x \in Made(M, "eliminate") <=> x \in C
    BY <2>1, <1>7 DEF Made
  <2>4. \A x : x \notin MadeEnding(M)
    BY <1>7 DEF MadeEnding
  <2>5. \A l : l \in MadeDetermining(M) <=> l \in D
    BY <1>1, <1>7 DEF MadeDetermining
  <2> QED BY <2>2, <2>3, <2>4, <2>5, <1>7
<1>11. Looping \ {call} = Looping
  BY DEF Looping
<1>12. /\ UNCHANGED <<Entering, Executing, Skipping, Leaving, Proceeding, Finishing>>
       /\ Eliminating' = (Eliminating \ Top("eliminate")) \cup C
  BY <1>9, <1>10 DEF Top, Replaced
<1>13. Determining' = Determining \cup D
  BY <1>9, <1>10 DEF Replaced
<1>14. Notices' = Notices \ {call} /\ Looping' = Looping /\ Ending' = Ending
  BY <1>9, <1>10, <1>11 DEF Replaced
<1>15. \A c, d \in pending' : c.op = "determine" /\ d.op = "determine" /\ c.link = d.link => c = d
  <2>1. \A c \in M, d \in pending : c.op = "determine" /\ d.op = "determine" => c.link # d.link
    BY <1>1, <1>7 DEF Determining, D
  <2>2. \A c, d \in M : c.op = "determine" /\ d.op = "determine" /\ c.link = d.link => c = d
    BY <1>2, <1>7
  <2> QED BY <2>1, <2>2, <1>9 DEF UniqueInv, Replaced
<1>16. \A c, d \in pending' : c.op = "eliminate" /\ d.op = "eliminate" /\ c.activity = d.activity => c = d
  <2>1. \A c \in M, d \in pending : c.op = "eliminate" /\ d.op = "eliminate" => c.activity # d.activity
    <3>1. \A d \in pending : d.op = "eliminate" => d.activity \notin C
      BY DEF Eliminating, Doing, C
    <3> QED BY <3>1, <1>7
  <2>2. \A c, d \in M : c.op = "eliminate" /\ d.op = "eliminate" /\ c.activity = d.activity => c = d
    BY <1>7 DEF ActivityCall
  <2> QED BY <2>1, <2>2, <1>9 DEF UniqueInv, Replaced
<1>17. \A c \in pending' : \/ c \in pending
                           \/ c.op = "determine" /\ c.link \in D /\ c.value = FALSE
                           \/ c.op = "eliminate" /\ c.activity \in C /\ c.token = u
  BY <1>7, <1>9 DEF Replaced
<1> QED BY <1>9, <1>12, <1>13, <1>14, <1>15, <1>16, <1>17 DEF C, D, Replaced

(* StructuredActivity.eliminatePath and Flow.eliminatePath keep the invariant. *)
LEMMA EliminateStructureKeeps ==
  ASSUME FlowInv, EliminateStructure
  PROVE  FlowInv'
<1> DEFINE a == call.activity
           t == call.token
<1>0. /\ TypeOK /\ StackInv /\ CallsInv /\ WaitsInv /\ TokensInv /\ UniqueInv /\ PhaseInv
      /\ TouchInv /\ ActiveInv /\ EndedInv /\ LeftInv /\ SequenceInv /\ BranchInv /\ HoldInv
      /\ NodeInv /\ TargetInv /\ NoticeInv /\ LinkInv /\ MeaningInv /\ ChoiceInv
  BY Parts
<1>1. calls # <<>> /\ call.op = "eliminate" /\ a \notin Basic
  BY <1>0, CallOnTop DEF EliminateStructure, Calling
<1>2. /\ call \in pending /\ a \in Activity /\ t \in DOMAIN parent /\ t \in Token
      /\ a \in Eliminating /\ phase[a] \in {"idle", "skipped"} /\ ~ Performed[a] /\ a \in Touched
      /\ a \notin Entering /\ a \notin Executing /\ a \notin Leaving /\ a \notin Skipping
      /\ a \notin Finishing /\ a \notin Ending /\ a \notin Waiting
      /\ phase[a] = "idle" => a \notin Proceeding
      /\ phase[a] = "skipped" => a \in Proceeding
      /\ phase[a] = "skipped" => \A l \in Link : Target[l] = a => status[l] # "unset"
      /\ \A c : c \notin Notices
      /\ \A l \in ToSet(Sources[a]) : l \in Link /\ Source(l) = a /\ l \notin Determining /\ status[l] = "unset"
      /\ \A l \in Link : Source(l) = a => l \notin Determining /\ status[l] = "unset"
      /\ \A l \in Link : Source(l) = a <=> l \in ToSet(Sources[a])
  BY <1>1, EliminateTop
<1> DEFINE up == LinksToken(a, t)
           all == DOMAIN parent \cup {up}
           D == ToSet(Sources[a])
           C == ChildSet(a)
<1>a. /\ \A x \in C : /\ x \in Activity /\ x # Root /\ x # a /\ Structure(x) = a /\ x \notin Touched
                      /\ phase[x] = "idle" /\ x \notin Eliminating /\ x \notin Entering /\ ~ Performed[x]
                      /\ x \notin Proceeding /\ x \notin Ending
      /\ a \notin Opened
      /\ <<"links", a>> \notin DOMAIN parent /\ <<"links", a>> \in Token
      /\ up = t \/ up = <<"links", a>>
      /\ \A s \in Activity : \A i \in DOMAIN Children[s] : Children[s][i] \in C => s = a
  <2>1. a \notin Opened
    BY <1>2 DEF Opened
  <2>2. ASSUME NEW x \in C
        PROVE  /\ x \in Activity /\ x # Root /\ x # a /\ Structure(x) = a /\ x \notin Touched
               /\ phase[x] = "idle" /\ x \notin Eliminating /\ x \notin Entering /\ ~ Performed[x]
               /\ x \notin Proceeding /\ x \notin Ending
    <3> HIDE DEF a, t
    <3>1. x \in Activity /\ x # Root /\ Structure(x) = a
      BY <1>2, StructureOfChild
    <3>2. x \notin Touched
      BY <3>1, <2>1, <1>0 DEF TouchInv
    <3>3. x # a
      BY <3>2, <1>2
    <3>4. phase[x] = "idle" /\ x \notin Eliminating /\ x \notin Entering /\ x \notin Proceeding /\ x \notin Ending
      BY <3>1, <3>2, <1>0, ActiveTouched DEF Touched
    <3>5. ~ Performed[x]
      BY <3>1, <1>2, PerformedEquation DEF Eligible
    <3> QED BY <3>1, <3>2, <3>3, <3>4, <3>5
  <2>3. <<"links", a>> \notin DOMAIN parent /\ <<"links", a>> \in Token
    BY <1>0, <1>2, <2>1 DEF TokensInv, Token
  <2>4. up = t \/ up = <<"links", a>>
    BY DEF LinksToken
  <2>5. \A s \in Activity : \A i \in DOMAIN Children[s] : Children[s][i] \in C => s = a
    BY <2>2, ChildAt
  <2> QED BY <2>1, <2>2, <2>3, <2>4, <2>5
<1>b. /\ \A l \in Links[a] : /\ l \in Link /\ status[l] = "absent" /\ Target[l] \in Activity /\ Target[l] \notin Touched
                             /\ phase[Target[l]] = "idle" /\ Source(l) \notin Touched /\ Target[l] # a /\ Source(l) # a
      /\ \A x \in Activity : x \notin Touched => phase[x] = "idle"
  <2>1. \A l \in Links[a] : l \in Link /\ status[l] = "absent"
    BY <1>0, <1>2, <1>a, Shapes DEF LinkInv
  <2>2. \A l \in Links[a] : Target[l] \in Activity /\ Target[l] \notin Touched /\ Source(l) \notin Touched
    BY <1>0, <2>1, LinksPresent, SourceOf, TargetOf DEF Targets
  <2>3. \A x \in Activity : x \notin Touched => phase[x] = "idle"
    BY DEF Touched
  <2> QED BY <2>1, <2>2, <2>3, <1>2
<1>3. /\ \A x \in Activity : phase'[x] = IF x = a THEN "dead" ELSE phase[x]
      /\ DOMAIN parent' = all /\ DOMAIN node' = all
      /\ \A u \in all : parent'[u] = IF u \in DOMAIN parent THEN parent[u] ELSE t
      /\ \A u \in all : node'[u] = IF u \in DOMAIN parent THEN node[u] ELSE node[t]
      /\ \A l \in Link : status'[l] = IF l \in Links[a] THEN "unset" ELSE status[l]
      /\ UNCHANGED <<definition, ended, targetToken, waiting, outcome>>
  <2>1. /\ parent' = [c \in DOMAIN parent \cup {up} \cup {} |-> IF c \in {} THEN None
                                  ELSE IF c \in DOMAIN parent THEN parent[c] ELSE t]
        /\ node' = [c \in DOMAIN parent \cup {up} \cup {} |-> IF c \in DOMAIN parent THEN node[c] ELSE node[t]]
        /\ status' = [l \in Link |-> IF l \in Links[a] THEN "unset" ELSE status[l]]
        /\ phase' = [phase EXCEPT ![a] = "dead"]
        /\ UNCHANGED <<definition, ended, targetToken, waiting, outcome>>
    BY DEF EliminateStructure, Reach, Create
  <2> HIDE DEF a, t, up
  <2>2. DOMAIN parent \cup {up} \cup {} = all
    OBVIOUS
  <2>3. \A x \in Activity : phase'[x] = IF x = a THEN "dead" ELSE phase[x]
    BY <2>1, <1>0 DEF TypeOK
  <2> QED BY <2>1, <2>2, <2>3
<1>c. \A u \in DOMAIN parent : u \in DOMAIN parent' /\ parent'[u] = parent[u] /\ node'[u] = node[u]
  BY <1>3
<1>d. up \in Token /\ up \in DOMAIN parent'
  BY <1>2, <1>3, <1>a
<1>5. /\ calls' \in Seq(CallRecord) /\ StackInv'
      /\ \A c \in pending' : \/ c \in pending
                             \/ c.op = "determine" /\ c.link \in D /\ c.value = FALSE
                             \/ c.op = "eliminate" /\ c.activity \in C /\ c.token = up
      /\ \A c, d \in pending' : c.op = "determine" /\ d.op = "determine" /\ c.link = d.link => c = d
      /\ \A c, d \in pending' : c.op = "eliminate" /\ d.op = "eliminate" /\ c.activity = d.activity => c = d
      /\ \A x : x \in Eliminating' <=> (x \in Eliminating /\ x # a) \/ x \in C
      /\ Determining' = Determining \cup D
      /\ UNCHANGED <<Entering, Executing, Skipping, Leaving, Proceeding, Finishing, Ending, Looping>>
      /\ \A c : c \notin Notices'
  <2> DEFINE p == [i \in DOMAIN Children[a] |-> Call("eliminate", Children[a][i], up)]
  <2>1. Then(p \o SetSourcesNegativeStatus(a))
    BY DEF EliminateStructure
  <2>2. Top("eliminate") = {a}
    BY <1>1 DEF Top
  <2> HIDE DEF a, t, up
  <2>3. p = [i \in DOMAIN Children[a] |-> Call("eliminate", Children[a][i], up)]
    OBVIOUS
  <2> HIDE DEF p
  <2>4. /\ calls' \in Seq(CallRecord) /\ StackInv'
        /\ \A c \in pending' : \/ c \in pending
                               \/ c.op = "determine" /\ c.link \in ToSet(Sources[a]) /\ c.value = FALSE
                               \/ c.op = "eliminate" /\ c.activity \in ChildSet(a) /\ c.token = up
        /\ \A c, d \in pending' : c.op = "determine" /\ d.op = "determine" /\ c.link = d.link => c = d
        /\ \A c, d \in pending' : c.op = "eliminate" /\ d.op = "eliminate" /\ c.activity = d.activity => c = d
        /\ UNCHANGED <<Entering, Executing, Skipping, Leaving, Proceeding, Finishing, Ending, Looping>>
        /\ Eliminating' = (Eliminating \ Top("eliminate")) \cup ChildSet(a)
        /\ Determining' = Determining \cup ToSet(Sources[a])
        /\ Notices' = Notices \ {call}
    BY <2>1, <2>3, <1>0, <1>1, <1>2, <1>a, <1>d, EffectOfElimination
  <2> QED BY <2>2, <2>4, <1>2
<1> HIDE DEF a, t, up, all, D, C
<1>6. Waiting' = Waiting /\ Performed' = Performed
  BY <1>3, PerformedStays DEF Waiting, definition
<1>7. /\ \A x : x \in Touched' <=> x \in Touched \/ x \in C
      /\ Opened' = Opened \cup {a}
      /\ \A x : x \in Settled' <=> x \in Settled \/ (x = a /\ a \notin Proceeding)
      /\ Active' = Active /\ Holders' = Holders
      /\ \A x \in Awaiting' : x \in Awaiting \/ x \notin Touched
  <2>1. \A x : x \in Touched' <=> x \in Touched \/ x \in C
    BY <1>2, <1>3, <1>5, <1>a DEF Touched
  <2>2. Opened' = Opened \cup {a}
    BY <1>2, <1>3 DEF Opened
  <2>3. \A x : x \in Settled' <=> x \in Settled \/ (x = a /\ a \notin Proceeding)
    BY <1>2, <1>3, <1>5 DEF Settled
  <2>4. Active' = Active
    BY <1>2, <1>3, <1>5 DEF Active
  <2>5. Holders' = Holders
    BY <1>1, <1>2, <1>3, <1>5, <1>6 DEF Holders
  <2>6. \A x \in Awaiting' : x \in Awaiting \/ x \notin Touched
    BY <1>3, <1>5, <1>b DEF Awaiting, Targets
  <2> QED BY <2>1, <2>2, <2>3, <2>4, <2>5, <2>6
<1>8. \A x \in Activity : x \notin Touched => phase[x] = "idle"
  BY <1>b
<1>9. /\ D \subseteq Link /\ \A l \in D : Source(l) = a /\ l \notin Determining /\ status'[l] = "unset"
      /\ \A l \in Link : Source(l) = a => l \in D
  BY <1>2, <1>3 DEF D
<1>10. TypeOK'
  <2>1. phase' \in [Activity -> {"idle", "entered", "started", "left", "skipped", "dead"}]
    BY <1>0, <1>2 DEF TypeOK, EliminateStructure, Reach, a
  <2>2. t \in all /\ up \in all
    BY <1>2, <1>3, <1>d DEF all
  <2>3. DOMAIN parent' \subseteq Token /\ DOMAIN node' = DOMAIN parent'
    BY <1>0, <1>3, <1>d DEF all, TypeOK
  <2>4. ASSUME NEW u \in DOMAIN parent', u # Main
        PROVE  parent'[u] \in DOMAIN parent'
    BY <2>2, <2>4, <1>0, <1>3 DEF TypeOK, all
  <2>5. \A u \in DOMAIN parent' : node'[u] \in Activity \cup {None}
    BY <1>0, <1>2, <1>3 DEF TypeOK
  <2>6. ended' \subseteq DOMAIN parent' /\ targetToken' \in [Link -> DOMAIN parent' \cup {None}]
    BY <1>0, <1>3 DEF TypeOK, all
  <2>7. status' \in [Link -> {"absent", "unset", "true", "false"}]
    BY <1>0, <1>1 DEF TypeOK, EliminateStructure, Create
  <2> QED BY <2>1, <2>3, <2>4, <2>5, <2>6, <2>7, <1>0, <1>3, <1>5 DEF TypeOK, CallRecord, definition
<1>11. CallsInv'
  BY <1>0, <1>2, <1>5, <1>a, <1>c, <1>d DEF CallsInv, ThreadOps
<1>12. WaitsInv'
  BY <1>0, <1>3, <1>c DEF WaitsInv
<1>13. TokensInv'
  <2>1. Main \in DOMAIN parent'
    BY <1>0, <1>c DEF TokensInv
  <2>2. \A b : <<"branch", b>> \in DOMAIN parent' => <<"branch", b>> \in DOMAIN parent
    BY <1>2, <1>3, <1>a DEF all
  <2>3. \A b \in Activity : <<"branch", b>> \in DOMAIN parent' => IsBranch(b)
    BY <2>2, <1>0 DEF TokensInv
  <2>4. ASSUME NEW b \in Activity \ {Root}, <<"branch", b>> \in DOMAIN parent'
        PROVE  /\ phase'[Structure(b)] \in {"started", "left"}
               /\ parent'[<<"branch", b>>] = LinksToken(Structure(b), TokenOf(Structure(b)))
               /\ Links[Structure(b)] # {} => parent'[<<"links", Structure(b)>>] = TokenOf(Structure(b))
    <3>1. <<"branch", b>> \in DOMAIN parent
      BY <2>2, <2>4
    <3>2. /\ Structure(b) \in Activity /\ phase[Structure(b)] \in {"started", "left"}
          /\ parent[<<"branch", b>>] = LinksToken(Structure(b), TokenOf(Structure(b)))
          /\ Links[Structure(b)] # {} => parent[<<"links", Structure(b)>>] = TokenOf(Structure(b))
      BY <3>1, <1>0, StructureOf DEF TokensInv
    <3>3. parent[<<"branch", b>>] \in DOMAIN parent
      BY <3>1, <1>0 DEF TypeOK, Main
    <3>4. Links[Structure(b)] # {} => <<"links", Structure(b)>> \in DOMAIN parent
      BY <3>2, <3>3 DEF LinksToken
    <3>5. Structure(b) # a
      BY <3>2, <1>2
    <3> QED BY <3>1, <3>2, <3>4, <3>5, <1>3, <1>c
  <2>5. ASSUME NEW f \in Flows, phase'[f] \in {"started", "left"}, NEW b \in ChildSet(f)
        PROVE  <<"branch", b>> \in DOMAIN parent'
    <3>1. f \in Activity /\ f # a /\ phase[f] \in {"started", "left"}
      BY <2>5, <1>3, Domains
    <3>2. <<"branch", b>> \in DOMAIN parent
      BY <3>1, <2>5, <1>0 DEF TokensInv
    <3> QED BY <3>2, <1>c
  <2>6. ASSUME NEW f \in Activity, <<"links", f>> \in DOMAIN parent' PROVE f \in Opened'
    <3>1. CASE <<"links", f>> \in DOMAIN parent
      BY <3>1, <1>0, <1>7 DEF TokensInv
    <3>2. CASE <<"links", f>> \notin DOMAIN parent
      <4>1. <<"links", f>> = up
        BY <3>2, <2>6, <1>3 DEF all
      <4>2. f = a
        BY <3>2, <4>1, <1>2, <1>a
      <4> QED BY <4>2, <1>7
    <3> QED BY <3>1, <3>2
  <2> QED BY <2>1, <2>3, <2>4, <2>5, <2>6 DEF TokensInv
<1>14. UniqueInv'
  BY <1>0, <1>2, <1>5, <1>a DEF UniqueInv
<1>15. PhaseInv'
  BY Domains, <1>0, <1>1, <1>2, <1>3, <1>5, <1>6, <1>a DEF PhaseInv
<1>16. TouchInv'
  BY Domains, <1>0, <1>2, <1>6, <1>7, <1>a DEF TouchInv
<1>17. ActiveInv'
  BY Domains, <1>0, <1>2, <1>3, <1>5, <1>7 DEF ActiveInv, definition
<1>18. EndedInv'
  BY Domains, <1>0, <1>2, <1>3, <1>5, <1>7 DEF EndedInv
<1>19. LeftInv'
  BY Domains, <1>0, <1>2, <1>3, <1>5, <1>7 DEF LeftInv
<1>20. SequenceInv'
  BY Domains, <1>0, <1>1, <1>2, <1>3, <1>7, <1>a DEF SequenceInv
<1>21. BranchInv'
  BY CallTypes, Domains, ChildAt, <1>0, <1>1, <1>2, <1>3, <1>5, <1>7, <1>a DEF BranchInv
<1>22. HoldInv'
  BY <1>0, <1>2, <1>7 DEF HoldInv
<1>23. NodeInv'
  <2>1. \A x \in Activity : phase'[x] = "entered" => TokenOf(x) \in DOMAIN parent' /\ node'[TokenOf(x)] = x
    BY <1>0, <1>2, <1>3, <1>c DEF NodeInv
  <2>3. ASSUME NEW u \in DOMAIN parent, node[u] # None
        PROVE  /\ phase'[node[u]] # "idle"
               /\ node[u] \in Basic /\ phase'[node[u]] = "dead" => node[u] \notin Awaiting'
    <3>1. node[u] \in Activity /\ phase[node[u]] # "idle" /\ node[u] \in Touched
      BY <2>3, <1>0 DEF TypeOK, NodeInv, Touched
    <3> QED BY <2>3, <3>1, <1>0, <1>1, <1>2, <1>3, <1>7 DEF NodeInv
  <2>4. \A u \in DOMAIN parent' : node'[u] = node[t] \/ (u \in DOMAIN parent /\ node'[u] = node[u])
    BY <1>3
  <2>5. \A u \in DOMAIN parent' : node'[u] \in Basic => node'[u] # None
    BY Shapes DEF Basic
  <2> QED BY <2>1, <2>3, <2>4, <2>5, <1>2 DEF NodeInv
<1>24. TargetInv'
  BY Domains, <1>0, <1>1, <1>2, <1>3, <1>5, <1>b DEF TargetInv
<1>25. NoticeInv'
  BY <1>5 DEF NoticeInv
<1>26. LinkInv'
  <2>1. ASSUME NEW l \in Link, status'[l] \in {"true", "false"} \/ l \in Determining'
        PROVE  /\ phase'[Source(l)] \in {"left", "dead"}
               /\ Source(l) \in Basic \/ phase'[Source(l)] = "left" => Source(l) \notin Awaiting'
    <3>1. CASE l \in D
      BY <3>1, <1>1, <1>2, <1>3, <1>9
    <3>2. CASE l \notin D
      <4>1. status[l] \in {"true", "false"} \/ l \in Determining
        BY <2>1, <3>2, <1>3, <1>5
      <4>2. /\ phase[Source(l)] \in {"left", "dead"} /\ Source(l) \in Activity
            /\ Source(l) \in Basic \/ phase[Source(l)] = "left" => Source(l) \notin Awaiting
        BY <4>1, <1>0, Domains DEF LinkInv
      <4>3. Source(l) # a /\ Source(l) \in Touched
        BY <3>2, <4>2, <1>9 DEF Touched
      <4> QED BY <4>2, <4>3, <1>3, <1>7
    <3> QED BY <3>1, <3>2
  <2>2. \A l \in Link : l \in Determining' => status'[l] = "unset"
    BY <1>0, <1>3, <1>5, <1>9 DEF LinkInv
  <2>3. ASSUME NEW l \in Link, NEW f \in Activity, l \in Links[f]
        PROVE  status'[l] = "absent" <=> f \notin Opened'
    <3>1. CASE f = a
      BY <2>3, <3>1, <1>3, <1>7
    <3>2. CASE f # a
      <4>1. l \notin Links[a]
        BY <2>3, <3>2, <1>2, FlowOfLink
      <4> QED BY <2>3, <3>2, <4>1, <1>0, <1>3, <1>7 DEF LinkInv
    <3> QED BY <3>1, <3>2
  <2> QED BY <2>1, <2>2, <2>3 DEF LinkInv
<1>27. MeaningInv'
  <2>1. \A x \in Activity : phase'[x] \in {"skipped", "dead"} \/ x \in Skipping' \/ x \in Eliminating' => ~ Performed[x]
    BY <1>0, <1>2, <1>3, <1>5, <1>a DEF MeaningInv
  <2>2. \A x \in Activity : phase'[x] \in {"started", "left"} \/ x \in Executing' => Performed[x]
    BY <1>0, <1>2, <1>3, <1>5 DEF MeaningInv
  <2>3. \A x \in Activity : phase'[x] = "entered" \/ x \in Entering' => Eligible(x)
    BY <1>0, <1>2, <1>3, <1>5 DEF MeaningInv
  <2>4. \A x \in Activity : Eligible(x)' = Eligible(x)
    BY <1>3, <1>6 DEF Eligible, definition
  <2>5. \A c \in pending' : c.op = "determine" => c.value = (holds[c.link] /\ Performed[Source(c.link)])
    BY <1>0, <1>2, <1>5, <1>9 DEF MeaningInv
  <2>6. \A l \in Link : status'[l] \in {"true", "false"} => status'[l] = status[l]
    BY <1>3
  <2> QED BY <2>1, <2>2, <2>3, <2>4, <2>5, <2>6, <1>0, <1>3, <1>6 DEF MeaningInv, definition
<1>28. ChoiceInv'
  BY <1>0, <1>3 DEF ChoiceInv, definition
<1>z. DeadInv /\ TakenInv /\ DoneInv /\ FiredInv
  BY FurtherParts
<1>29. DeadInv'
  <2> SUFFICES ASSUME NEW y \in Activity \ {Root}, phase'[Structure(y)] = "dead"
               PROVE  phase'[y] = "dead" \/ y \in Eliminating'
    BY DEF DeadInv
  <2>1. Structure(y) \in Activity /\ y \in ChildSet(Structure(y))
    BY StructureOf
  <2>2. CASE Structure(y) = a
    BY <2>1, <2>2, <1>5 DEF C
  <2>3. CASE Structure(y) # a
    BY <2>1, <2>3, <1>z, <1>3, <1>5 DEF DeadInv
  <2> QED BY <2>2, <2>3
<1>30. TakenInv'
  BY Domains, <1>0, <1>z, <1>2, <1>3, <1>5, <1>6 DEF TakenInv, PhaseInv, definition
<1>31. DoneInv'
  BY Domains, <1>0, <1>z, <1>2, <1>3, <1>5, <1>7 DEF DoneInv, definition
<1>32. FiredInv'
  <2> SUFFICES ASSUME NEW l \in Link,
                      \/ phase'[Source(l)] = "left"
                      \/ phase'[Source(l)] = "dead" /\ (Source(l) \notin Basic \/ Source(l) \notin Awaiting')
               PROVE  status'[l] \in {"true", "false"} \/ l \in Determining'
    BY DEF FiredInv
  <2>1. CASE Source(l) = a
    BY <2>1, <1>5, <1>9
  <2>2. CASE Source(l) # a
    <3>1. Source(l) \in Activity /\ phase[Source(l)] = phase'[Source(l)]
      BY <2>2, <1>3, SourceOf
    <3>2. Source(l) \in Awaiting => Source(l) \in Awaiting'
      BY <1>2, <1>3 DEF Awaiting, Targets
    <3>3. status[l] \in {"true", "false"} \/ l \in Determining
      BY <3>1, <3>2, <1>z DEF FiredInv
    <3>4. l \notin Links[a]
      BY <3>1, <1>b, <1>8
    <3> QED BY <3>3, <3>4, <1>3, <1>5
  <2> QED BY <2>1, <2>2
<1> QED BY <1>5, <1>10, <1>11, <1>12, <1>13, <1>14, <1>15, <1>16, <1>17, <1>18, <1>19, <1>20, <1>21, <1>22,
           <1>23, <1>24, <1>25, <1>26, <1>27, <1>28, <1>29, <1>30, <1>31, <1>32 DEF FlowInv

-----------------------------------------------------------------------------
(* The invariant holds when the outermost activity is entered. *)
LEMMA FlowStarts == Init => FlowInv
<1> DEFINE c == Call("enter", Root, Main)
<1> SUFFICES ASSUME Init PROVE FlowInv
  OBVIOUS
<1>1. /\ parent = [t \in {Main} |-> None] /\ node = [t \in {Main} |-> None] /\ ended = {}
      /\ status = [l \in Link |-> "absent"] /\ targetToken = [l \in Link |-> None] /\ waiting = {}
      /\ phase = [a \in Activity |-> "idle"] /\ outcome = "running" /\ calls = <<c>>
  BY DEF Init
<1>2. Main \in Token /\ Root \in Activity /\ Root \in Flows /\ TokenOf(Root) = Main
  BY Shapes, BranchOfActivity DEF Token, Main, Flows, IsBranch, TokenOf
<1>3. c \in ActivityCall /\ c.op = "enter" /\ c.activity = Root /\ c.token = Main
  BY <1>2 DEF Call, ActivityCall
<1>4. calls \in Seq(CallRecord) /\ Len(calls) = 1 /\ DOMAIN calls = {1} /\ calls[1] = c
  <2>1. c \in CallRecord
    BY <1>3 DEF CallRecord
  <2> HIDE DEF c
  <2> QED BY <2>1, <1>1
<1> HIDE DEF c
<1>5. \A d : d \in pending <=> d = c
  BY <1>4 DEF pending, ToSet
<1>6. /\ \A a : a \in Entering <=> a = Root
      /\ \A a : /\ a \notin Executing /\ a \notin Skipping /\ a \notin Leaving /\ a \notin Proceeding
                /\ a \notin Eliminating /\ a \notin Finishing /\ a \notin Ending /\ a \notin Determining
                /\ a \notin Notices /\ a \notin Looping /\ a \notin Waiting
  BY <1>1, <1>2, <1>3, <1>5 DEF Entering, Executing, Skipping, Leaving, Proceeding, Eliminating, Finishing, Ending,
    Determining, Notices, Looping, Waiting, Doing
<1>7. /\ \A a \in Activity : phase[a] = "idle"
      /\ \A l \in Link : status[l] = "absent" /\ targetToken[l] = None
      /\ \A a : a \notin Opened /\ a \notin Settled /\ a \notin Awaiting
      /\ \A a : a \in Touched <=> a = Root
      /\ \A a : a \in Active <=> a = Root
      /\ \A a : a \in Holders <=> a = Root
  <2>1. /\ \A a \in Activity : phase[a] = "idle"
        /\ \A l \in Link : status[l] = "absent" /\ targetToken[l] = None
    BY <1>1
  <2>2. \A a : a \notin Opened /\ a \notin Settled
    BY <2>1 DEF Opened, Settled
  <2>3. \A a : a \notin Awaiting
    BY <2>1, <1>6 DEF Awaiting, Targets
  <2>4. \A a : a \in Touched <=> a = Root
    BY <2>1, <1>2, <1>6 DEF Touched
  <2>5. \A a : a \in Active <=> a = Root
    BY <2>1, <1>2, <1>6 DEF Active
  <2>6. \A a : a \in Holders <=> a = Root
    BY <2>1, <1>2, <1>6 DEF Holders
  <2> QED BY <2>1, <2>2, <2>3, <2>4, <2>5, <2>6
<1>8. ChoiceInv
  BY DEF ChoiceInv, Init, ChildSet
<1>9. TypeOK
  <2>1. holds \in [Link -> BOOLEAN] /\ choice \in [Choice -> Activity \cup {None}] /\ receives \subseteq Receives
    BY DEF Init
  <2>2. /\ DOMAIN parent = {Main} /\ DOMAIN node = {Main} /\ parent[Main] = None /\ node[Main] = None
    BY <1>1
  <2>3. status \in [Link -> {"absent", "unset", "true", "false"}] /\ targetToken \in [Link -> DOMAIN parent \cup {None}]
    BY <1>1
  <2>4. phase \in [Activity -> {"idle", "entered", "started", "left", "skipped", "dead"}]
    BY <1>1
  <2> QED BY <2>1, <2>2, <2>3, <2>4, <1>1, <1>2, <1>4 DEF TypeOK, CallRecord
<1>10. DOMAIN parent = {Main} /\ \A t \in DOMAIN parent : node[t] = None
  BY <1>1
<1>11. StackInv
  BY <1>3, <1>4 DEF StackInv
<1>12. CallsInv /\ WaitsInv /\ UniqueInv /\ PhaseInv
  BY <1>1, <1>2, <1>3, <1>5, <1>6, <1>7, <1>10 DEF CallsInv, WaitsInv, UniqueInv, PhaseInv, ThreadOps
<1>13. TokensInv
  <2>1. \A b \in Activity : <<"branch", b>> \in DOMAIN parent => b = Root
    BY <1>10 DEF Main
  <2>2. \A f : <<"links", f>> \notin DOMAIN parent
    BY <1>10 DEF Main
  <2> QED BY <2>1, <2>2, <1>7, <1>10, Domains DEF TokensInv, IsBranch
<1>14. TouchInv /\ ActiveInv /\ EndedInv /\ LeftInv /\ SequenceInv /\ BranchInv /\ HoldInv
  BY <1>6, <1>7, Domains DEF TouchInv, ActiveInv, EndedInv, LeftInv, SequenceInv, BranchInv, HoldInv
<1>15. NodeInv /\ TargetInv /\ NoticeInv /\ LinkInv
  <2>1. None \notin Basic
    BY Shapes DEF Basic
  <2> QED BY <2>1, <1>6, <1>7, <1>10, Domains DEF NodeInv, TargetInv, NoticeInv, LinkInv
<1>16. MeaningInv
  BY <1>3, <1>5, <1>6, <1>7 DEF MeaningInv, Eligible
<1>17. DeadInv /\ TakenInv /\ DoneInv /\ FiredInv
  BY <1>6, <1>7, Domains DEF DeadInv, TakenInv, DoneInv, FiredInv
<1> QED BY <1>8, <1>9, <1>17, <1>11, <1>12, <1>13, <1>14, <1>15, <1>16 DEF FlowInv

LEMMA FlowStutters == ASSUME FlowInv, UNCHANGED vars PROVE FlowInv'
<1>0. UNCHANGED <<holds, choice, receives, parent, node, ended, status, targetToken, waiting, phase, outcome, calls>>
  BY DEF vars, definition, tokens, links
<1>1. pending' = pending
  BY <1>0 DEF pending
<1>2. \A op : Doing(op)' = Doing(op)
  BY <1>1 DEF Doing
<1>3. /\ UNCHANGED <<Entering, Executing, Skipping, Leaving, Proceeding, Eliminating, Finishing, Ending, Notices, Looping>>
      /\ UNCHANGED <<Determining, Waiting>>
  BY <1>0, <1>1 DEF Entering, Executing, Skipping, Leaving, Proceeding, Eliminating, Finishing, Ending, Notices, Looping,
    Determining, Waiting, Doing
<1>4. UNCHANGED <<Touched, Opened, Settled, Active, Holders, Awaiting, Performed>>
  BY <1>0, <1>3, PerformedStays DEF Touched, Opened, Settled, Active, Holders, Awaiting
<1>5. TypeOK' /\ StackInv' /\ CallsInv' /\ WaitsInv' /\ TokensInv' /\ UniqueInv' /\ PhaseInv'
  BY <1>0, <1>1, <1>3, <1>4 DEF FlowInv, TypeOK, StackInv, CallsInv, WaitsInv, TokensInv, UniqueInv, PhaseInv
<1>6. TouchInv' /\ ActiveInv' /\ EndedInv' /\ LeftInv' /\ SequenceInv' /\ BranchInv' /\ HoldInv'
  BY <1>0, <1>3, <1>4 DEF FlowInv, TouchInv, ActiveInv, EndedInv, LeftInv, SequenceInv, BranchInv, HoldInv
<1>7. NodeInv' /\ TargetInv' /\ NoticeInv' /\ LinkInv' /\ ChoiceInv'
  BY <1>0, <1>3, <1>4 DEF FlowInv, NodeInv, TargetInv, NoticeInv, LinkInv, ChoiceInv
<1>8. MeaningInv'
  BY <1>0, <1>1, <1>3, <1>4 DEF FlowInv, MeaningInv, Eligible
<1>9. DeadInv' /\ TakenInv' /\ DoneInv' /\ FiredInv'
  BY <1>0, <1>3, <1>4 DEF FlowInv, DeadInv, TakenInv, DoneInv, FiredInv
<1> QED BY <1>5, <1>6, <1>7, <1>8, <1>9 DEF FlowInv

-----------------------------------------------------------------------------
(* Every call of the engine and every message keeps the invariant. *)
LEMMA FlowInvKept == FlowInv /\ [Next]_vars => FlowInv'
<1> SUFFICES ASSUME FlowInv, [Next]_vars PROVE FlowInv'
  OBVIOUS
<1>1. CASE Enter
  BY <1>1, EnterKeeps
<1>2. CASE Ceased
  BY <1>2, CeasedKeeps
<1>3. CASE StatusDetermined
  BY <1>3, StatusDeterminedKeeps
<1>4. CASE TargetDetermined
  BY <1>4, TargetDeterminedKeeps
<1>5. CASE ExecuteBasic
  BY <1>5, ExecuteBasicKeeps, ExecuteAndWaitKeeps
<1>6. CASE ExecutePick
  BY <1>6, ExecuteAndWaitKeeps
<1>7. CASE ExecuteSequence
  BY <1>7, ExecuteSequenceKeeps
<1>8. CASE ExecuteIf
  BY <1>8, ExecuteIfKeeps
<1>9. CASE ExecuteFlow
  BY <1>9, ExecuteFlowKeeps
<1>10. CASE ExecuteBranch
  BY <1>10, ExecuteBranchKeeps
<1>11. CASE Leave
  BY <1>11, LeaveKeeps
<1>12. CASE Proceed
  BY <1>12, ProceedKeeps
<1>13. CASE EndStructure
  BY <1>13, EndStructureKeeps
<1>14. CASE EndBranch
  BY <1>14, EndBranchKeeps
<1>15. CASE Skip
  BY <1>15, SkipKeeps
<1>16. CASE EliminateBasic
  BY <1>16, EliminateBasicKeeps
<1>17. CASE EliminateStructure
  BY <1>17, EliminateStructureKeeps
<1>18. CASE MessageReceived
  BY <1>18, MessageReceivedKeeps
<1>19. CASE UNCHANGED vars
  BY <1>19, FlowStutters
<1> QED BY <1>1, <1>2, <1>3, <1>4, <1>5, <1>6, <1>7, <1>8, <1>9, <1>10, <1>11, <1>12, <1>13, <1>14, <1>15, <1>16, <1>17,
           <1>18, <1>19 DEF Next, Perform

LEMMA FlowInvHolds == Spec => []FlowInv
BY FlowStarts, FlowInvKept, PTL DEF Spec

(* The stack holds calls of the engine, and the tokens, nodes and links    *)
(* are those of the definition.                                            *)
THEOREM FlowTypes == Spec => []TypeOK
<1>1. FlowInv => TypeOK
  BY DEF FlowInv
<1> QED BY <1>1, FlowInvHolds, PTL

(* A link is determined once and an activity is executed once, for every   *)
(* definition, every choice and every order of messages: nothing that      *)
(* LinkInstance.statusDetermined notifies or Activity.eliminatePath        *)
(* eliminates is reached by another path.                                  *)
THEOREM FlowRunsOnce == Spec => []OncePerFlow
<1>1. FlowInv => OncePerFlow
  <2> SUFFICES ASSUME FlowInv PROVE OncePerFlow
    OBVIOUS
  <2>0. /\ TypeOK /\ StackInv /\ CallsInv /\ PhaseInv /\ TouchInv /\ NoticeInv /\ LinkInv
    BY Parts
  <2>1. ASSUME Calling({"determine"}) PROVE status[call.link] = "unset"
    <3>1. call \in pending /\ call.link \in Link /\ call.op = "determine"
      BY <2>0, <2>1, CallOnTop DEF Calling
    <3>2. call.link \in Determining
      BY <3>1 DEF Determining
    <3> QED BY <3>1, <3>2, <2>0 DEF LinkInv
  <2>2. ASSUME Calling({"execute"}) PROVE call.activity \notin started
    <3>1. call.activity \in Executing
      BY <2>0, <2>2, CallOnTop, DoingTop DEF Calling
    <3> QED BY <3>1, <2>0 DEF PhaseInv, started
  <2>3. ASSUME Calling({"enter", "eliminate", "targetDetermined"})
        PROVE  \A l \in Targets(call.activity) : status[l] # "absent"
    <3>1. calls # <<>> /\ call.op \in {"enter", "eliminate", "targetDetermined"}
      BY <2>3 DEF Calling
    <3>2. call \in pending /\ call.activity \in Activity
      BY <2>0, <3>1, CallOnTop
    <3>3. call.op = "enter" => call.activity \in Touched
      BY <3>2, DoingTop DEF Touched
    <3>4. call.op = "eliminate" => call.activity \in Touched
      BY <3>2, DoingTop DEF Touched
    <3>5. call.op = "targetDetermined" => call.activity \in Touched
      BY <3>2, <2>0, DoingTop DEF NoticeInv, Touched
    <3> QED BY <3>1, <3>3, <3>4, <3>5, <2>0, LinksPresent
  <2> QED BY <2>1, <2>2, <2>3 DEF OncePerFlow
<1> QED BY <1>1, FlowInvHolds, PTL

(* Whatever the order in which messages arrive and links run their         *)
(* targets, what is executed and what a link is determined to is what the  *)
(* definition calls for.                                                   *)
THEOREM FlowFollowsDefinition == Spec => []LinksFollowDefinition
<1>1. FlowInv => LinksFollowDefinition
  BY Parts DEF MeaningInv, LinksFollowDefinition, started
<1> QED BY <1>1, FlowInvHolds, PTL

(* No link that leaves a basic activity, or a structure that was executed, *)
(* is determined before the links that lead there.                         *)
THEOREM LinksAwaitLinks == Spec => []ControlDependencies
<1>1. FlowInv => ControlDependencies
  <2> SUFFICES ASSUME FlowInv, NEW l \in Link, NEW k \in Link, Target[k] = Source(l), Source(l) \in Basic \cup started,
                      status[l] \in {"true", "false"}
               PROVE  status[k] \in {"true", "false"}
    BY DEF ControlDependencies
  <2>0. TypeOK /\ TouchInv /\ LinkInv
    BY Parts
  <2>1. Source(l) \in Activity
    BY SourceOf
  <2>2. /\ phase[Source(l)] \in {"left", "dead"}
        /\ Source(l) \in Basic \/ phase[Source(l)] = "left" => Source(l) \notin Awaiting
    BY <2>0 DEF LinkInv
  <2>3. Source(l) \notin Awaiting
    BY <2>2 DEF started
  <2>4. k \in Targets(Source(l))
    BY DEF Targets
  <2>5. status[k] # "unset"
    BY <2>1, <2>3, <2>4 DEF Awaiting
  <2>6. Source(l) \in Touched
    BY <2>1, <2>2 DEF Touched
  <2>7. status[k] # "absent"
    BY <2>0, <2>4, <2>6, LinksPresent
  <2> QED BY <2>0, <2>5, <2>7 DEF TypeOK
<1> QED BY <1>1, FlowInvHolds, PTL

-----------------------------------------------------------------------------
(* Completion.  The last call of the stack is one that carries a token on, *)
(* so that nothing is left to do when the outermost activity proceeds.     *)
FrameOps == ThreadOps \cup {"end", "branch"}
LastInv == calls # <<>> => calls[Len(calls)].op \in FrameOps
FinalInv == outcome = "completed" => calls = <<>> /\ phase[Root] = "left"

LEMMA LastStays ==
  ASSUME TypeOK, LastInv, calls # <<>>, NEW made \in Seq(CallRecord), Then(made),
         made # <<>> /\ call.op \in FrameOps => made[Len(made)].op \in FrameOps
  PROVE  LastInv'
<1>1. calls \in Seq(CallRecord) /\ call = calls[1] /\ Len(calls) \in Nat /\ Len(calls) > 0
  BY DEF TypeOK, CallRecord, call
<1>2. calls' = made \o Tail(calls)
  BY DEF Then
<1>3. calls[Len(calls)].op \in FrameOps
  BY DEF LastInv
<1>4. /\ Tail(calls) \in Seq(CallRecord) /\ Len(Tail(calls)) = Len(calls) - 1 /\ Len(made) \in Nat
      /\ Len(calls) > 1 => Tail(calls)[Len(calls) - 1] = calls[Len(calls)]
  BY <1>1
<1>5. Len(calls') = Len(made) + (Len(calls) - 1)
  BY <1>2, <1>4
<1>6. CASE Len(calls) = 1
  <2>1. Len(calls') = Len(made) /\ call.op \in FrameOps
    BY <1>1, <1>3, <1>5, <1>6, <1>4
  <2>2. Len(made) > 0 => calls'[Len(made)] = made[Len(made)]
    BY <1>1, <1>2, <1>4, <1>6
  <2>3. Len(made) > 0 => calls'[Len(calls')].op \in FrameOps
    BY <2>1, <2>2, <1>4
  <2>4. calls' \in Seq(CallRecord)
    BY <1>2, <1>4
  <2> QED BY <2>1, <2>3, <2>4, <1>4 DEF LastInv
<1>7. CASE Len(calls) > 1
  <2>1. calls'[Len(calls')] = calls[Len(calls)]
    BY <1>1, <1>2, <1>4, <1>5, <1>7
  <2>2. calls'[Len(calls')].op \in FrameOps
    BY <2>1, <1>3
  <2> QED BY <2>2 DEF LastInv
<1>8. \A n \in Nat : n > 0 => n = 1 \/ n > 1
  OBVIOUS
<1> QED BY <1>1, <1>6, <1>7, <1>8

LEMMA LastCall ==
  ASSUME TypeOK, LastInv, calls # <<>>, NEW c \in CallRecord, Then(<<c>>),
         c.op \in FrameOps \/ call.op \notin FrameOps
  PROVE  LastInv'
<1> DEFINE made == <<c>>
<1>1. made \in Seq(CallRecord) /\ Len(made) = 1 /\ made[1] = c
  OBVIOUS
<1>2. Then(made)
  OBVIOUS
<1> HIDE DEF made
<1> QED BY <1>1, <1>2, LastStays

LEMMA LastFrame ==
  ASSUME TypeOK, LastInv, calls # <<>>, NEW p \in Seq(CallRecord), NEW c \in CallRecord, c.op \in FrameOps,
         Then(p \o <<c>>)
  PROVE  LastInv'
<1> DEFINE made == p \o <<c>>
<1>1. made \in Seq(CallRecord) /\ made[Len(made)] = c
  OBVIOUS
<1>2. Then(made)
  OBVIOUS
<1> HIDE DEF made
<1> QED BY <1>1, <1>2, LastStays

LEMMA LastNothing ==
  ASSUME TypeOK, LastInv, calls # <<>>, Then(<<>>)
  PROVE  LastInv'
<1>1. <<>> \in Seq(CallRecord)
  OBVIOUS
<1> QED BY <1>1, LastStays

(* The structures around an activity that is being executed have started. *)
LEMMA AroundActive ==
  ASSUME FlowInv, NEW x \in Activity, x # Root, phase[Structure(x)] = "started"
  PROVE  phase[Root] = "started"
<1> DEFINE S == {a \in Activity : phase[a] = "started"}
<1>1. ActiveInv
  BY Parts
<1>2. \A a \in S \ {Root} : Structure(a) \in S
  BY <1>1, Domains DEF ActiveInv, Active
<1>3. S \in SUBSET Activity /\ Structure(x) \in S
  BY Domains
<1> HIDE DEF S
<1>4. Root \in S
  BY <1>2, <1>3, TreeAssumption DEF Upwards
<1> QED BY <1>4 DEF S

LEMMA NothingWaits ==
  ASSUME FlowInv, phase[Root] = "left"
  PROVE  (\A x : x \notin Waiting) /\ waiting = {}
<1>0. TypeOK /\ PhaseInv /\ ActiveInv
  BY Parts
<1>1. \A x : x \notin Waiting
  <2> SUFFICES ASSUME NEW x \in Waiting PROVE FALSE
    OBVIOUS
  <2>1. x \in Activity /\ phase[x] = "started"
    BY <1>0, Domains DEF PhaseInv
  <2>2. x # Root /\ phase[Structure(x)] = "started"
    BY <2>1, <1>0 DEF ActiveInv, Active
  <2> QED BY <2>1, <2>2, AroundActive
<1>2. ASSUME NEW c \in waiting PROVE FALSE
  <2>1. c.activity \in Activity
    BY <1>0, Shapes DEF TypeOK, Basic, Choice
  <2>2. c.activity \in Waiting
    BY <2>1 DEF Waiting
  <2> QED BY <2>2, <1>1
<1> QED BY <1>1, <1>2

(* The outermost activity proceeds after everything else. *)
LEMMA LastProceeds ==
  ASSUME FlowInv, LastInv, calls # <<>>, call.op = "proceed", call.activity = Root
  PROVE  Tail(calls) = <<>> /\ phase[Root] = "left"
<1>0. TypeOK /\ StackInv /\ CallsInv /\ PhaseInv /\ ActiveInv /\ BranchInv /\ MeaningInv
  BY Parts
<1>1. calls \in Seq(CallRecord) /\ call = calls[1] /\ Len(calls) \in Nat /\ Len(calls) > 0
  BY <1>0 DEF TypeOK, CallRecord, call
<1>2. call \in pending /\ Root \in Proceeding /\ call \in ActivityCall /\ call.token = TokenOf(Root)
  BY <1>0, CallOnTop, DoingTop DEF ThreadOps
<1>3. phase[Root] \in {"left", "skipped", "dead"}
  BY <1>0, <1>2 DEF PhaseInv
<1>4. Performed[Root]
  <2>1. ASSUME NEW l \in Targets(Root) PROVE FALSE
    <3>1. l \in Link /\ Target[l] = Root
      BY DEF Targets
    <3>2. PICK f \in Activity : Root \in Within(f)
      BY <3>1, FlowOfLink
    <3>3. {Root} \in SUBSET (Activity \ {f}) /\ Upwards({Root})
      BY <3>2 DEF Within, Upwards
    <3> QED BY <3>2, <3>3 DEF Within
  <2>2. Targets(Root) = {}
    BY <2>1
  <2> QED BY <2>2, Shapes, PerformedEquation DEF Eligible
<1>5. phase[Root] = "left"
  BY <1>0, <1>3, <1>4, Shapes DEF MeaningInv
<1>6. ASSUME NEW x \in Active PROVE x = Root
  BY <1>0, <1>3, <1>6, AroundActive, Domains DEF ActiveInv
<1>7. ASSUME Len(calls) > 1 PROVE FALSE
  <2> DEFINE c == calls[Len(calls)]
  <2>1. c.op \in FrameOps /\ c \in pending /\ c # call /\ c \in CallRecord
    BY <1>0, <1>1, <1>7 DEF LastInv, StackInv, pending, ToSet
  <2> HIDE DEF c
  <2>2. /\ c.op = "enter" => c.activity \in Entering
        /\ c.op = "execute" => c.activity \in Executing
        /\ c.op = "skip" => c.activity \in Skipping
        /\ c.op = "leave" => c.activity \in Leaving
        /\ c.op = "proceed" => c.activity \in Proceeding
        /\ c.op = "end" /\ c.activity \notin Flows => c.activity \in Finishing
        /\ c.op = "branch" => c \in Looping
    BY <2>1, <1>0, CallTypes DEF Entering, Executing, Skipping, Leaving, Proceeding, Finishing, Doing, Looping
  <2>3. c.op \in {"enter", "execute", "skip", "leave", "proceed"} => c.activity \in Active
    BY <2>2, <1>0, Domains DEF PhaseInv, Active
  <2>4. c.op \notin {"enter", "execute", "skip", "leave"}
    BY <2>2, <2>3, <1>0, <1>3, <1>6 DEF PhaseInv
  <2>5. c.op # "proceed"
    <3> SUFFICES ASSUME c.op = "proceed" PROVE FALSE
      OBVIOUS
    <3>1. c.activity = Root /\ c \in ActivityCall /\ c.token = TokenOf(Root)
      BY <2>1, <2>3, <1>0, <1>6, CallTypes DEF CallsInv, ThreadOps
    <3>2. c = call
      BY <3>1, <1>2 DEF ActivityCall
    <3> QED BY <3>2, <2>1
  <2>6. c.op # "branch"
    BY <2>2, <1>0, <1>3, <1>6, CallTypes DEF BranchInv, Active
  <2>7. ~ (c.op = "end" /\ c.activity \notin Flows)
    BY <2>2, <1>0, <1>3, <1>6, Domains DEF PhaseInv, Active
  <2>8. ASSUME c.op = "end", c.activity \in Flows PROVE FALSE
    <3>1. PICK b \in ChildSet(c.activity) : c.token = <<"branch", b>>
      BY <2>1, <2>8, <1>0 DEF CallsInv
    <3>2. b \in Activity /\ b # Root
      BY <3>1, <2>8, Domains
    <3>3. b \in Active
      BY <2>1, <2>8, <3>1, <3>2 DEF Ending, Active
    <3> QED BY <3>2, <3>3, <1>6
  <2> QED BY <2>1, <2>4, <2>5, <2>6, <2>7, <2>8 DEF FrameOps, ThreadOps
<1>8. Tail(calls) = <<>>
  BY <1>1, <1>7
<1> QED BY <1>5, <1>8

(* Once the outermost activity is left and no call is pending, every       *)
(* activity is left or eliminated.                                         *)
LEMMA EverythingSettles ==
  ASSUME FlowInv, calls = <<>>, phase[Root] = "left"
  PROVE  \A a \in Activity : phase[a] \in {"left", "dead"}
<1>0. LeftInv /\ DeadInv /\ TakenInv /\ DoneInv
  BY Parts, FurtherParts
<1>1. \A c : c \notin pending
  BY DEF pending, ToSet
<1>2. /\ \A x : x \notin Eliminating
      /\ \A x : x \notin Waiting
  BY <1>1, NothingWaits DEF Eliminating, Doing
<1> DEFINE U == {a \in Activity : phase[a] \notin {"left", "dead"}}
<1>3. ASSUME NEW a \in U, a # Root PROVE Structure(a) \in U
  <2> DEFINE s == Structure(a)
  <2>1. s \in Activity /\ a \in ChildSet(s) /\ s \notin Basic /\ a \in Activity
    BY <1>3, StructureOf
  <2>2. a \notin Settled
    BY DEF Settled
  <2>3. phase[s] # "dead"
    BY <2>1, <1>0, <1>2, <1>3 DEF DeadInv
  <2>4. ASSUME phase[s] = "left" PROVE FALSE
    <3>1. s \notin Flows
      BY <2>1, <2>2, <2>4, <1>0 DEF LeftInv
    <3>2. Kind[s] # "sequence"
      BY <2>1, <2>2, <2>4, <1>0, <1>3 DEF DoneInv
    <3>3. s \in Choice
      BY <2>1, <3>1, <3>2, Shapes DEF Choice, Flows, Basic
    <3>4. choice[s] = a
      BY <2>1, <2>4, <3>3, <1>0, <1>2, <1>3 DEF TakenInv
    <3> QED BY <2>1, <2>2, <2>4, <3>3, <3>4, <1>0, <1>3 DEF DoneInv
  <2> QED BY <2>1, <2>3, <2>4
<1>4. U \in SUBSET Activity /\ Root \notin U
  OBVIOUS
<1>5. Upwards(U)
  BY <1>3 DEF Upwards
<1>6. U = {}
  <2> HIDE DEF U
  <2> QED BY <1>4, <1>5, TreeAssumption
<1> QED BY <1>6

(* Links that are not determined would wait for each other. *)
LEMMA LinksAreDetermined ==
  ASSUME FlowInv, Acyclic, calls = <<>>, phase[Root] = "left"
  PROVE  \A l \in Link : status[l] \in {"true", "false"}
<1>0. FiredInv
  BY FurtherParts
<1>1. \A c : c \notin pending
  BY DEF pending, ToSet
<1>2. (\A l : l \notin Determining) /\ (\A c : c \notin Notices)
  BY <1>1 DEF Determining, Notices
<1> DEFINE U == {l \in Link : status[l] \notin {"true", "false"}}
<1>3. ASSUME NEW l \in U PROVE \E k \in U : Target[k] = Source(l)
  <2>1. Source(l) \in Activity /\ phase[Source(l)] \in {"left", "dead"}
    BY SourceOf, EverythingSettles
  <2>2. Source(l) \in Awaiting
    BY <2>1, <1>0, <1>2 DEF FiredInv
  <2>3. PICK k \in Targets(Source(l)) : status[k] = "unset"
    BY <2>2, <1>2 DEF Awaiting
  <2> QED BY <2>3 DEF Targets
<1>4. U = {}
  <2>1. U \in SUBSET Link
    OBVIOUS
  <2> HIDE DEF U
  <2> QED BY <2>1, <1>3 DEF Acyclic
<1> QED BY <1>4

(* Every call keeps a call that carries a token on at the end of the stack. *)
LEMMA LastKept ==
  ASSUME FlowInv, LastInv, Next
  PROVE  LastInv'
<1>0. TypeOK /\ CallsInv /\ WaitsInv /\ ChoiceInv
  BY Parts
<1> DEFINE a == call.activity
           t == call.token
<1>1. /\ \A op \in {"enter", "execute", "leave", "proceed", "end", "skip", "eliminate", "targetDetermined"} :
           \A x \in Activity, u \in Token : Call(op, x, u) \in CallRecord /\ Call(op, x, u).op = op
      /\ \A x \in Activity, i \in Nat : Branch(x, i) \in CallRecord /\ Branch(x, i).op = "branch"
  BY DEF Call, Branch, CallRecord, ActivityCall, BranchCall
<1>2. /\ {"enter", "execute", "skip", "leave", "proceed", "end", "branch"} \subseteq FrameOps
      /\ "determine" \notin FrameOps /\ "targetDetermined" \notin FrameOps /\ "eliminate" \notin FrameOps
  BY DEF FrameOps, ThreadOps
<1>3. calls # <<>> /\ call.op \notin {"determine", "branch"} => a \in Activity /\ t \in Token
  BY <1>0, CallOnTop
<1>4. ASSUME calls # <<>>, call.op \in {"enter", "targetDetermined"}, EvaluateJoinCondition(a, t) PROVE LastInv'
  <2>1. CASE Then(<<>>)
    BY <2>1, <1>0, <1>4, LastNothing
  <2>2. CASE Then(<<Call("execute", a, t)>>)
    BY <2>2, <1>0, <1>1, <1>2, <1>3, <1>4, LastCall
  <2>3. CASE Then(<<Call("skip", a, t)>>)
    BY <2>3, <1>0, <1>1, <1>2, <1>3, <1>4, LastCall
  <2> QED BY <2>1, <2>2, <2>3, <1>4 DEF EvaluateJoinCondition
<1>5. CASE Enter
  BY <1>0, <1>4, <1>5, LastNothing DEF Enter, Calling
<1>6. CASE Ceased
  BY <1>0, <1>6, LastNothing DEF Ceased, Calling
<1>7. CASE StatusDetermined
  <2>1. calls # <<>> /\ call.op = "determine"
    BY <1>7 DEF StatusDetermined, Calling
  <2>2. call.link \in Link
    BY <2>1, <1>0, CallOnTop
  <2>3. CASE targetToken[call.link] = None
    BY <2>1, <2>3, <1>0, <1>7, LastNothing DEF StatusDetermined
  <2>4. CASE targetToken[call.link] # None
    <3>1. Target[call.link] \in Activity /\ targetToken[call.link] \in Token
      BY <2>2, <2>4, <1>0, TargetOf DEF TypeOK
    <3>2. Then(<<Call("targetDetermined", Target[call.link], targetToken[call.link])>>)
      BY <2>4, <1>7 DEF StatusDetermined
    <3> QED BY <3>1, <3>2, <2>1, <1>0, <1>1, <1>2, LastCall
  <2> QED BY <2>3, <2>4
<1>8. CASE TargetDetermined
  <2>1. calls # <<>> /\ call.op = "targetDetermined"
    BY <1>8 DEF TargetDetermined, Calling
  <2>2. CASE Then(<<>>)
    BY <2>1, <2>2, <1>0, LastNothing
  <2>3. CASE Then(SetSourcesNegativeStatus(a))
    <3>1. SetSourcesNegativeStatus(a) \in Seq(CallRecord)
      BY <2>1, <1>3, Negatives
    <3> QED BY <3>1, <2>1, <2>3, <1>0, <1>2, LastStays
  <2>4. CASE EvaluateJoinCondition(a, t)
    BY <2>1, <2>4, <1>4
  <2> QED BY <2>2, <2>3, <2>4, <1>8 DEF TargetDetermined
<1>9. ASSUME calls # <<>>, call.op = "execute" PROVE call.op \in FrameOps /\ a \in Activity /\ t \in Token
  BY <1>2, <1>3, <1>9
<1>10. CASE ExecuteBasic
  <2>1. calls # <<>> /\ call.op = "execute"
    BY <1>10 DEF ExecuteBasic, Calling
  <2>2. CASE Then(<<>>)
    BY <2>1, <2>2, <1>0, LastNothing
  <2>3. CASE Then(<<Call("leave", a, t)>>)
    BY <2>1, <2>3, <1>0, <1>1, <1>2, <1>3, LastCall
  <2> QED BY <2>2, <2>3, <1>10 DEF ExecuteBasic
<1>11. CASE ExecutePick
  BY <1>0, <1>11, LastNothing DEF ExecutePick, Calling
<1>12. CASE ExecuteSequence
  <2>1. calls # <<>> /\ call.op = "execute" /\ Kind[a] = "sequence" /\ Then(<<Call("enter", Head(Children[a]), t)>>)
    BY <1>12 DEF ExecuteSequence, Calling
  <2>2. Head(Children[a]) \in Activity
    <3>1. Children[a] \in Seq(Activity) /\ Len(Children[a]) > 0
      BY <2>1, <1>3, Shapes DEF Basic
    <3> HIDE DEF a
    <3> QED BY <3>1
  <2> QED BY <2>1, <2>2, <1>0, <1>1, <1>2, <1>3, LastCall
<1>13. CASE ExecuteIf
  <2>1. calls # <<>> /\ call.op = "execute" /\ Kind[a] = "if" /\ Then(TakeBranch(a, t))
    BY <1>13 DEF ExecuteIf, Calling
  <2>2. a \in Choice /\ t \in Token
    BY <2>1, <1>3 DEF Choice
  <2> HIDE DEF a, t
  <2>3. EndsInBranch(TakeBranch(a, t))
    BY <2>2, <1>0, BranchCalls
  <2>5. PICK p \in Seq(CallRecord), c \in CallRecord : TakeBranch(a, t) = p \o <<c>> /\ c.op \in {"enter", "end"}
    BY <2>3 DEF EndsInBranch
  <2>4. Then(p \o <<c>>)
    BY <2>1, <2>5
  <2> QED BY <2>1, <2>4, <2>5, <1>0, <1>2, LastFrame
<1>14. CASE ExecuteFlow
  <2>1. calls # <<>> /\ call.op = "execute" /\ Then(<<Branch(a, 1)>>)
    BY <1>14 DEF ExecuteFlow, Calling
  <2> QED BY <2>1, <1>0, <1>1, <1>2, <1>3, LastCall
<1>15. CASE ExecuteBranch
  <2> DEFINE b == Children[a][call.index]
             c == Call("enter", b, <<"branch", b>>)
             d == Branch(a, call.index + 1)
  <2>1. calls # <<>> /\ call.op = "branch"
    BY <1>15 DEF ExecuteBranch, Calling
  <2>2. a \in Activity /\ call.index \in DOMAIN Children[a]
    BY <2>1, <1>0, CallOnTop DEF CallsInv
  <2>3. b \in Activity /\ call.index \in Nat /\ call.index + 1 \in Nat
    BY <2>2, Shapes
  <2>4. <<"branch", b>> \in Token
    BY <2>3 DEF Token
  <2>5. c \in CallRecord /\ c.op = "enter" /\ d \in CallRecord /\ d.op = "branch"
    BY <2>2, <2>3, <2>4, <1>1
  <2>6. Then(<<>>) \/ Then(<<c>> \o <<>>) \/ Then(<<c>> \o <<d>>)
    BY <1>15 DEF ExecuteBranch
  <2> HIDE DEF b, c, d
  <2>7. <<c>> \o <<>> = <<c>> /\ <<c>> \in Seq(CallRecord)
    BY <2>5
  <2>8. CASE Then(<<>>)
    BY <2>1, <2>8, <1>0, LastNothing
  <2>9. CASE Then(<<c>> \o <<>>)
    BY <2>1, <2>5, <2>7, <2>9, <1>0, <1>2, LastCall
  <2>10. CASE Then(<<c>> \o <<d>>)
    BY <2>1, <2>5, <2>7, <2>10, <1>0, <1>2, LastFrame
  <2> QED BY <2>6, <2>8, <2>9, <2>10
<1>16. CASE Leave
  <2> DEFINE p == [i \in DOMAIN Sources[a] |-> Determine(Sources[a][i], holds[Sources[a][i]])]
  <2>1. calls # <<>> /\ call.op = "leave" /\ Then(p \o <<Call("proceed", a, t)>>)
    BY <1>16 DEF Leave, Calling
  <2>2. LinkCalls(a, holds) \in Seq(CallRecord)
    BY <2>1, <1>0, <1>3, Determinations DEF TypeOK
  <2>3. p \in Seq(CallRecord)
    BY <2>2 DEF LinkCalls
  <2> HIDE DEF p
  <2> QED BY <2>1, <2>3, <1>0, <1>1, <1>2, <1>3, LastFrame
<1>17. CASE Proceed
  <2>1. calls # <<>> /\ call.op = "proceed"
    BY <1>17 DEF Proceed, Calling
  <2>2. CASE a = Root
    BY <2>1, <2>2, <1>0, <1>17, LastNothing DEF Proceed
  <2>3. CASE a # Root
    <3>1. Then(<<Successor(a, t)>>) /\ Structure(a) \in Activity
      BY <2>1, <2>3, <1>3, <1>17, StructureOf DEF Proceed
    <3>2. CASE \E i \in DOMAIN Children[Structure(a)] :
                 Successor(a, t) = Call("enter", Children[Structure(a)][i], t)
      <4>1. PICK i \in DOMAIN Children[Structure(a)] :
                 Successor(a, t) = Call("enter", Children[Structure(a)][i], t)
        BY <3>2
      <4>2. Children[Structure(a)][i] \in Activity
        BY <3>1, <4>1, ChildAt
      <4> QED BY <2>1, <3>1, <4>1, <4>2, <1>0, <1>1, <1>2, <1>3, LastCall
    <3>3. CASE Successor(a, t) = Call("end", Structure(a), t)
      BY <2>1, <3>1, <3>3, <1>0, <1>1, <1>2, <1>3, LastCall
    <3> QED BY <2>1, <2>3, <3>2, <3>3, <1>3, Succession
  <2> QED BY <2>2, <2>3
<1>18. CASE EndStructure
  BY <1>0, <1>1, <1>2, <1>3, <1>18, LastCall DEF EndStructure, Calling
<1>19. CASE EndBranch
  <2>1. calls # <<>> /\ call.op = "end"
    BY <1>19 DEF EndBranch, Calling
  <2>2. CASE Then(<<>>)
    BY <2>1, <2>2, <1>0, LastNothing
  <2>3. CASE ~ Then(<<>>)
    <3>1. PICK u : Then(<<Call("leave", a, u)>>)
      BY <2>3, <1>19 DEF EndBranch
    <3>2. calls' \in Seq(CallRecord)
      BY <1>19, EndBranchKeeps, Parts DEF FlowInv, TypeOK, CallRecord
    <3> DEFINE c == Call("leave", a, u)
    <3>3. Then(<<c>>) /\ c.op = "leave"
      BY <3>1 DEF Call
    <3> HIDE DEF c
    <3>4. Tail(calls) \in Seq(CallRecord) /\ calls' = <<c>> \o Tail(calls)
      BY <2>1, <3>3, <1>0 DEF TypeOK, CallRecord, Then
    <3>5. calls'[1] = c /\ 1 \in DOMAIN calls'
      BY <3>4
    <3>6. c \in CallRecord
      BY <3>2, <3>5
    <3> QED BY <2>1, <3>3, <3>6, <1>0, <1>2, LastCall
  <2> QED BY <2>2, <2>3
<1>20. CASE Skip
  <2> DEFINE c == Call("eliminate", a, t)
             d == Call("proceed", a, t)
  <2>1. calls # <<>> /\ call.op = "skip" /\ Then(<<c, d>>)
    BY <1>20 DEF Skip, Calling
  <2>2. c \in CallRecord /\ d \in CallRecord /\ d.op = "proceed"
    BY <2>1, <1>1, <1>3
  <2> HIDE DEF c, d
  <2> DEFINE made == <<c, d>>
  <2>3. made \in Seq(CallRecord) /\ Len(made) = 2 /\ made[2] = d /\ Then(made)
    BY <2>1, <2>2
  <2> HIDE DEF made
  <2> QED BY <2>1, <2>2, <2>3, <1>0, <1>2, LastStays
<1>21. CASE EliminateBasic
  <2>1. calls # <<>> /\ call.op = "eliminate"
    BY <1>21 DEF EliminateBasic, Calling
  <2>2. CASE Then(<<>>)
    BY <2>1, <2>2, <1>0, LastNothing
  <2>3. CASE Then(SetSourcesNegativeStatus(a))
    <3>1. SetSourcesNegativeStatus(a) \in Seq(CallRecord)
      BY <2>1, <1>3, Negatives
    <3> QED BY <3>1, <2>1, <2>3, <1>0, <1>2, LastStays
  <2> QED BY <2>2, <2>3, <1>21 DEF EliminateBasic
<1>22. CASE EliminateStructure
  <2> DEFINE u == LinksToken(a, t)
             p == [i \in DOMAIN Children[a] |-> Call("eliminate", Children[a][i], u)]
             q == SetSourcesNegativeStatus(a)
  <2>1. calls # <<>> /\ call.op = "eliminate" /\ Then(p \o q)
    BY <1>22 DEF EliminateStructure, Calling
  <2>2. a \in Activity /\ u \in Token
    BY <2>1, <1>3 DEF LinksToken, Token
  <2>3. Children[a] \in Seq(Activity) /\ Injective(Children[a])
    BY <2>2, Shapes, TreeAssumption DEF Injective
  <2> HIDE DEF u
  <2>4. p \in Seq(CallRecord)
    <3>1. p = [i \in DOMAIN Children[a] |-> Call("eliminate", Children[a][i], u)]
      OBVIOUS
    <3> HIDE DEF p
    <3> QED BY <3>1, <2>2, <2>3, Eliminations
  <2>5. q \in Seq(CallRecord)
    BY <2>2, Negatives
  <2> HIDE DEF p, q
  <2>6. p \o q \in Seq(CallRecord)
    BY <2>4, <2>5
  <2> QED BY <2>1, <2>6, <1>0, <1>2, LastStays
<1>23. CASE MessageReceived
  <2>1. PICK m \in waiting : calls' = IF m.activity \in Basic THEN <<Call("leave", m.activity, m.token)>>
                                      ELSE TakeBranch(m.activity, m.token)
    BY <1>23 DEF MessageReceived
  <2>2. m.activity \in Receives \cup Choice /\ m.token \in Token
    BY <1>0 DEF TypeOK
  <2>3. CASE m.activity \in Basic
    <3>1. Call("leave", m.activity, m.token).op \in FrameOps
      BY <1>2 DEF Call
    <3>2. calls' = <<Call("leave", m.activity, m.token)>>
      BY <2>1, <2>3
    <3> QED BY <3>1, <3>2 DEF LastInv
  <2>4. CASE m.activity \notin Basic
    <3>1. m.activity \in Choice
      BY <2>2, <2>4, Shapes
    <3>5. EndsInBranch(TakeBranch(m.activity, m.token))
      BY <2>2, <3>1, <1>0, BranchCalls
    <3>2. PICK p \in Seq(CallRecord), c \in CallRecord :
            TakeBranch(m.activity, m.token) = p \o <<c>> /\ c.op \in {"enter", "end"}
      BY <3>5 DEF EndsInBranch
    <3>3. calls' = p \o <<c>>
      BY <2>1, <2>4, <3>2
    <3>4. calls'[Len(calls')] = c
      BY <3>3
    <3> QED BY <3>2, <3>4, <1>2 DEF LastInv
  <2> QED BY <2>3, <2>4
<1> QED BY <1>5, <1>6, <1>7, <1>8, <1>10, <1>11, <1>12, <1>13, <1>14, <1>15, <1>16, <1>17, <1>18, <1>19, <1>20, <1>21,
           <1>22, <1>23 DEF Next, Perform

(* The scope completes when nothing is pending, and no message revives it. *)
LEMMA FinalKept ==
  ASSUME FlowInv, LastInv, FinalInv, Next
  PROVE  FinalInv'
<1> SUFFICES ASSUME outcome' = "completed" PROVE calls' = <<>> /\ phase'[Root] = "left"
  BY DEF FinalInv
<1>1. CASE Proceed /\ call.activity = Root
  <2>1. calls # <<>> /\ call.op = "proceed" /\ Then(<<>>) /\ phase' = phase
    BY <1>1 DEF Proceed, Calling
  <2>2. Tail(calls) = <<>> /\ phase[Root] = "left"
    BY <1>1, <2>1, LastProceeds
  <2>3. calls' = <<>>
    BY <2>1, <2>2 DEF Then
  <2> QED BY <2>1, <2>2, <2>3
<1>2. CASE ~ (Proceed /\ call.activity = Root)
  <2>1. \A x, u : EvaluateJoinCondition(x, u) => outcome' = outcome \/ outcome' = "faulted"
    BY DEF EvaluateJoinCondition
  <2>2. Enter \/ Ceased \/ StatusDetermined \/ TargetDetermined => outcome' = outcome \/ outcome' = "faulted"
    BY <2>1 DEF Enter, Ceased, StatusDetermined, TargetDetermined
  <2>3. ExecuteBasic \/ ExecutePick \/ ExecuteSequence \/ ExecuteIf \/ ExecuteFlow \/ ExecuteBranch => outcome' = outcome
    BY DEF ExecuteBasic, ExecutePick, ExecuteSequence, ExecuteIf, ExecuteFlow, ExecuteBranch
  <2>4. Leave \/ Proceed \/ EndStructure \/ EndBranch => outcome' = outcome
    BY <1>2 DEF Leave, Proceed, EndStructure, EndBranch
  <2>5. Skip \/ EliminateBasic \/ EliminateStructure \/ MessageReceived => outcome' = outcome
    BY DEF Skip, EliminateBasic, EliminateStructure, MessageReceived
  <2>6. outcome = "completed"
    BY <2>2, <2>3, <2>4, <2>5 DEF Next, Perform
  <2>7. calls = <<>> /\ phase[Root] = "left"
    BY <2>6 DEF FinalInv
  <2>8. waiting = {}
    BY <2>7, NothingWaits
  <2>9. ~ MessageReceived
    BY <2>8 DEF MessageReceived
  <2>10. ~ Perform
    BY <2>7 DEF Perform, Calling, Enter, Ceased, StatusDetermined, TargetDetermined, ExecuteBasic, ExecutePick,
      ExecuteSequence, ExecuteIf, ExecuteFlow, ExecuteBranch, Leave, Proceed, EndStructure, EndBranch, Skip,
      EliminateBasic, EliminateStructure
  <2> QED BY <2>9, <2>10 DEF Next
<1> QED BY <1>1, <1>2

LEMMA FinalInvHolds == Spec => [](FlowInv /\ LastInv /\ FinalInv)
<1>1. Init => LastInv /\ FinalInv
  <2> SUFFICES ASSUME Init PROVE LastInv /\ FinalInv
    OBVIOUS
  <2>1. outcome = "running" /\ calls = <<Call("enter", Root, Main)>>
    BY DEF Init
  <2>2. Call("enter", Root, Main).op \in FrameOps
    BY DEF Call, FrameOps, ThreadOps
  <2> QED BY <2>1, <2>2 DEF LastInv, FinalInv
<1>2. FlowInv /\ LastInv /\ FinalInv /\ [Next]_vars => (LastInv /\ FinalInv)'
  <2> SUFFICES ASSUME FlowInv, LastInv, FinalInv, [Next]_vars PROVE LastInv' /\ FinalInv'
    OBVIOUS
  <2>1. CASE Next
    BY <2>1, LastKept, FinalKept
  <2>2. CASE UNCHANGED vars
    BY <2>2 DEF vars, LastInv, FinalInv
  <2> QED BY <2>1, <2>2
<1> QED BY <1>1, <1>2, FlowInvHolds, PTL DEF Spec

(* When no links lead around in a circle, a scope that completes leaves    *)
(* nothing behind: Activity.proceed reaches the scope after every activity *)
(* is left or eliminated, every link is determined and no message is       *)
(* waited for.                                                             *)
THEOREM CompletionLeavesNothing == ASSUME Acyclic PROVE Spec => []CompletionIsFinal
<1>1. FlowInv /\ LastInv /\ FinalInv => CompletionIsFinal
  <2> SUFFICES ASSUME FlowInv, FinalInv, outcome = "completed"
               PROVE  /\ \A l \in Links[Root] : status[l] \in {"true", "false"}
                      /\ {a \in Activity : Performed[a]} = started
                      /\ waiting = {}
    BY DEF CompletionIsFinal
  <2>1. calls = <<>> /\ phase[Root] = "left"
    BY DEF FinalInv
  <2>2. \A l \in Links[Root] : status[l] \in {"true", "false"}
    BY <2>1, LinksAreDetermined, Shapes
  <2>3. waiting = {}
    BY <2>1, NothingWaits
  <2>4. \A a \in Activity : phase[a] \in {"left", "dead"}
    BY <2>1, EverythingSettles
  <2>5. \A a \in Activity : Performed[a] <=> a \in started
    BY <2>4, Parts DEF MeaningInv, started
  <2>6. {a \in Activity : Performed[a]} = started
    BY <2>5 DEF started
  <2> QED BY <2>2, <2>3, <2>6
<1> QED BY <1>1, FinalInvHolds, PTL
=============================================================================
