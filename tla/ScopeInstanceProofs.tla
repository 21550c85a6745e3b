------------------------- MODULE ScopeInstanceProofs -------------------------
(***************************************************************************)
(* The type theorem of ScopeInstance, for every definition of a process.   *)
(* The types rest on the protocol between the scopes: a call must name an  *)
(* instance that exists and was entered once, a signal must find the       *)
(* parent or the requestor that it goes to, and a rollback must find rows  *)
(* in the database of which all that is true.                              *)
(***************************************************************************)
EXTENDS ScopeInstance, TLAPS, FiniteSetTheorems, NaturalsInduction, WellFoundedInduction

-----------------------------------------------------------------------------
(* The inductive invariant, in parts. *)

(* Those who ask for compensation; a handler that only receives does not. *)
Requestor ==
  {by \in [as : {"scope", "activity"}, who : Instance] :
     by.as = "activity" => HandlerActivity[Definition(by.who)] # "receive"}

TokenOps == {"terminateToken", "endToken"}
InstanceOps == Signals \cup {"execute", "advance", "leave", "terminateChildren", "terminateEvents",
                             "scopeTerminated", "executeHandler", "compensateNext", "leaveHandler"}

CallRecord ==
  [op : InstanceOps, on : Instance, by : Requestor \cup Instance \cup {None}] \cup
  [op : TokenOps, on : Token, by : {None}]

(* The nested scopes that the body of p has not entered. *)
Ahead(ps, p) == IF p \in Flow THEN (IF ps[p] = 0 THEN DOMAIN Body[p] ELSE {})
                ELSE {n \in DOMAIN Body[p] : ps[p] < n}

(* What holds of the rows at any time, also of those to which a            *)
(* transaction is rolled back: an instance has its tokens, what has not    *)
(* been entered does not exist, and what has completed is not active.      *)
RowsOK(st, ps, cr, lv, cp, cm) ==
  /\ st \in [Instance -> ScopeState \cup {"none"}] /\ ps \in [Instance -> Nat]
  /\ cr \subseteq Token /\ lv \subseteq cr
  /\ cp \in [Instance -> Requestor \cup {None}]
  /\ cm \in Seq(Instance) /\ IsInjective(cm)
  /\ \A i \in Instance :
       /\ st[i] # "none" => {<<i, "scope">>, <<i, "primary">>} \subseteq cr
       /\ st[i] # "none" /\ i # Global => st[Parent[i]] # "none"
       /\ st[i] \in Active \cup {"none"} => i \notin ToSet(cm)
       /\ st[i] \in Compensating => cp[i] \in Requestor /\ i # Global
       /\ st[i] \in Terminating => i # Global
       /\ \A n \in Ahead(ps, i) : st[Body[i][n]] = "none"

SavedOK ==
  /\ DOMAIN saved = {"rows", "waiting", "listener"}
  /\ RowsOK(saved.rows[1], saved.rows[2], saved.rows[3], saved.rows[4], saved.rows[5], saved.rows[6])
  /\ saved.waiting \cup orphaned \cup ({saved.listener} \ {None}) \subseteq saved.rows[3]

(* What the calls rely on, given the states and positions. *)
CallOK(st, ps, c) ==
  /\ c.op = "execute" =>
       /\ c.on \in Scope /\ st[c.on] = "none"
       /\ c.on # Global => st[Parent[c.on]] # "none"
       /\ \A p \in Instance : \A n \in Ahead(ps, p) : Body[p][n] # c.on
  /\ c.op \in {"advance", "leave"} => st[c.on] # "none"
  /\ c.op \in {"terminate", "compensate", "leave"} => c.on # Global
  /\ c.op = "leave" => c.on \in Scope
  /\ c.op \in {"compensate", "compensateNext"} => c.by \in Requestor

(* The calls are as they should be, and no scope is executed twice. *)
CallsOK ==
  /\ calls \in Seq(CallRecord)
  /\ \A n \in DOMAIN calls : CallOK(state, pos, calls[n])
  /\ \A n, m \in DOMAIN calls :
       calls[n].op = "execute" /\ calls[m].op = "execute" /\ calls[n].on = calls[m].on => n = m

ScopeInv ==
  /\ RowsOK(state, pos, created, live, compensator, completions)
  /\ waiting \cup orphaned \subseteq created
  /\ saved # <<>> => SavedOK
  /\ calls # <<>> => saved # <<>>
  /\ CallsOK
-----------------------------------------------------------------------------
(* Facts about naturals, sequences and the process definition. *)

(* A nonempty bounded set of natural numbers has a greatest element. *)
LEMMA NatMax ==
  ASSUME NEW S \in SUBSET Nat, S # {}, NEW b \in Nat, \A n \in S : n <= b
  PROVE  \E x \in S : \A y \in S : y <= x
<1>. DEFINE R == {z \in Nat \X Nat : z[1] < z[2]}
            T == {k \in Nat : b - k \in S}
<1>1. IsWellFoundedOn(R, Nat)
  BY NatLessThanWellFounded DEF OpToRel
<1>2. \A x, y \in Nat : <<y, x>> \notin R => x <= y
  <2>. SUFFICES ASSUME NEW x \in Nat, NEW y \in Nat, y < x
                PROVE  <<y, x>> \in R
    OBVIOUS
  <2>. QED  OBVIOUS
<1>3. T \subseteq Nat /\ T # {}
  <2>1. PICK n \in S : TRUE
    OBVIOUS
  <2>2. n \in Nat /\ b - n \in Nat /\ b - (b - n) = n
    BY <2>1
  <2>3. b - n \in T
    BY <2>1, <2>2
  <2>. QED  BY <2>3
<1>. HIDE DEF R
<1>4. PICK k \in T : \A l \in T : ~ (<<l, k>> \in R)
  BY <1>1, <1>3, WFMin
<1>5. \A y \in S : y <= b - k
  <2>. SUFFICES ASSUME NEW y \in S PROVE y <= b - k
    OBVIOUS
  <2>1. y \in Nat /\ b - y \in Nat /\ b - (b - y) = y
    OBVIOUS
  <2>2. b - y \in T /\ k \in Nat
    BY <2>1, <1>4
  <2>3. k <= b - y
    BY <1>2, <1>4, <2>2
  <2>. QED  BY <2>1, <2>2, <2>3
<1>6. b - k \in S
  BY <1>4
<1>. QED  BY <1>5, <1>6

(* What is called next, and what was called before. *)
LEMMA CallsAfter ==
  ASSUME NEW S, NEW old \in Seq(S), old # <<>>, NEW more \in Seq(S), NEW new,
         new = more \o Tail(old)
  PROVE  /\ new \in Seq(S)
         /\ \A n \in DOMAIN new :
              \/ n \in DOMAIN more /\ new[n] = more[n]
              \/ /\ n > Len(more) /\ n - Len(more) + 1 \in DOMAIN old
                 /\ n - Len(more) + 1 # 1 /\ new[n] = old[n - Len(more) + 1]
<1>1. /\ Tail(old) \in Seq(S) /\ Len(Tail(old)) = Len(old) - 1 /\ Len(old) \in Nat \ {0}
      /\ \A k \in 1 .. Len(old) - 1 : Tail(old)[k] = old[k + 1]
  OBVIOUS
<1>2. /\ new \in Seq(S) /\ Len(new) = Len(more) + Len(old) - 1 /\ Len(more) \in Nat
      /\ DOMAIN new = 1 .. Len(new) /\ DOMAIN more = 1 .. Len(more) /\ DOMAIN old = 1 .. Len(old)
  BY <1>1
<1>3. \A n \in 1 .. Len(more) : new[n] = more[n]
  BY <1>1, <1>2
<1>4. \A n \in DOMAIN new : n > Len(more) => new[n] = Tail(old)[n - Len(more)]
  BY <1>1, <1>2
<1>5. ASSUME NEW n \in DOMAIN new, n > Len(more)
      PROVE  new[n] = old[n - Len(more) + 1] /\ n - Len(more) \in 1 .. Len(old) - 1
  BY <1>1, <1>2, <1>4, <1>5
<1>. QED  BY <1>1, <1>2, <1>3, <1>5

(* The parents of scopes and events. *)
LEMMA ParentFacts ==
  /\ Parent[Global] = None
  /\ \A i \in Instance : i # Global => Parent[i] \in Instance
  /\ \A i \in Instance : Parent[i] # None => i # Global /\ Parent[i] \in Instance
  /\ \A p \in Instance : \A n \in DOMAIN Body[p] : Body[p][n] \in Scope /\ Parent[Body[p][n]] = p
  /\ \A s \in Scope : \A e \in OnEvents[s] : e \in Event /\ Parent[e] = s
  /\ \A i \in Instance : Definition(i) \in Scope
<1>. USE ScopeAssumption, NestingAssumption DEF Instance
<1>1. \A p \in Instance : Body[p] \in Seq(Scope)
  OBVIOUS
<1>2. \A p \in Instance : \A n \in DOMAIN Body[p] : Body[p][n] \in Scope
  BY <1>1
<1>3. \A p, i : i \in Children(p) <=>
         (\E n \in DOMAIN Body[p] : i = Body[p][n]) \/ (p \in Scope /\ i \in OnEvents[p])
  BY DEF Children, ToSet
<1>4. ASSUME NEW i \in Instance, NEW p \in Instance, i \in Children(p) PROVE Parent[i] = p
  <2>1. ASSUME NEW q \in Instance, i \in Children(q) PROVE q = p
    <3>1. CASE i \in Scope
      <4>1. \A r \in Scope : i \notin OnEvents[r]
        BY <3>1
      <4>. QED  BY <1>3, <1>4, <2>1, <4>1
    <3>2. CASE i \in Event
      <4>1. \A r \in Instance : \A n \in DOMAIN Body[r] : i # Body[r][n]
        BY <3>2, <1>2
      <4>2. p \in Scope /\ q \in Scope /\ i \in OnEvents[p] /\ i \in OnEvents[q]
        BY <1>3, <1>4, <2>1, <4>1
      <4>. QED  BY <4>2
    <3>. QED  BY <3>1, <3>2
  <2>2. Parent[i] = CHOOSE q \in Instance : i \in Children(q)
    BY <1>4 DEF Parent
  <2>. QED  BY <1>4, <2>1, <2>2
<1>5. ASSUME NEW i \in Instance, i # Global PROVE \E p \in Instance : i \in Children(p)
  BY <1>5 DEF Children
<1>6. Parent[Global] = None
  <2>1. \A p \in Instance : Global \notin Children(p)
    BY DEF Children
  <2>. QED  BY <2>1 DEF Parent
<1>7. \A i \in Instance : i # Global => Parent[i] \in Instance
  BY <1>4, <1>5
<1>8. \A p \in Instance : \A n \in DOMAIN Body[p] : Parent[Body[p][n]] = p
  BY <1>2, <1>3, <1>4
<1>9. \A s \in Scope : \A e \in OnEvents[s] : e \in Event /\ Parent[e] = s
  BY <1>3, <1>4
<1>10. \A i \in Instance : Definition(i) \in Scope
  <2>. SUFFICES ASSUME NEW i \in Event PROVE Parent[i] \in Scope
    BY DEF Definition
  <2>1. i # Global /\ i \notin Scope
    OBVIOUS
  <2>2. PICK p \in Instance : i \in Children(p)
    BY <1>5, <2>1
  <2>3. \A n \in DOMAIN Body[p] : i # Body[p][n]
    BY <1>2, <2>1
  <2>4. p \in Scope
    BY <1>3, <2>2, <2>3
  <2>. QED  BY <1>4, <2>2, <2>4
<1>. QED  BY <1>2, <1>6, <1>7, <1>8, <1>9, <1>10

(* The global scope is not nested in a scope. *)
LEMMA NestedScopes ==
  ASSUME NEW s \in Scope
  PROVE  FindNestedScopes[s] \subseteq Scope \ {Global}
<1>. DEFINE nested(S) == UNION {ToSet(Body[t]) : t \in S}
            S == Scope \ {Global}
<1>1. nested(S \cup {s}) \subseteq S
  <2>. SUFFICES ASSUME NEW t \in Scope, NEW x \in ToSet(Body[t]) PROVE x \in S
    OBVIOUS
  <2>. QED  BY ScopeAssumption, NestingAssumption, ParentFacts DEF ToSet, Instance
<1>2. S \in SUBSET Scope
  OBVIOUS
<1>3. FindNestedScopes[s] =
        {t \in Scope : \A T \in SUBSET Scope : nested(T \cup {s}) \subseteq T => t \in T}
  BY DEF FindNestedScopes
<1>. QED  BY <1>1, <1>2, <1>3
-----------------------------------------------------------------------------
(* Steps within a transaction. *)

(* The calls that an operation may make. *)
LEMMA CallTypes ==
  /\ \A op \in InstanceOps, i \in Instance :
       /\ Call(op, i) \in CallRecord /\ Call(op, i).op = op /\ Call(op, i).on = i
       /\ \A by \in Requestor \cup Instance :
            /\ CompensateCall(op, i, by) \in CallRecord /\ CompensateCall(op, i, by).op = op
            /\ CompensateCall(op, i, by).on = i /\ CompensateCall(op, i, by).by = by
  /\ \A op \in TokenOps, t \in Token :
       Call(op, t) \in CallRecord /\ Call(op, t).op = op /\ Call(op, t).on = t
  BY DEF CallRecord, Call, CompensateCall

(* The call at the head of the stack is one of its calls. *)
LEMMA HeadCall ==
  ASSUME CallsOK, calls # <<>>
  PROVE  /\ 1 \in DOMAIN calls /\ Head(calls) = calls[1]
         /\ Head(calls) \in CallRecord /\ CallOK(state, pos, Head(calls))
<1>1. calls \in Seq(CallRecord) /\ 1 \in DOMAIN calls /\ Head(calls) = calls[1]
  BY DEF CallsOK
<1>2. Head(calls) \in CallRecord
  BY <1>1
<1>. QED  BY <1>1, <1>2 DEF CallsOK

(* The invariant follows from the new rows and the new calls. *)
LEMMA StepInv ==
  ASSUME ScopeInv, calls # <<>>, saved' = saved, orphaned' = orphaned,
         NEW more \in Seq(CallRecord), calls' = more \o Tail(calls),
         RowsOK(state', pos', created', live', compensator', completions'),
         created \subseteq created', waiting' \subseteq created',
         \A n \in DOMAIN calls : n # 1 => CallOK(state', pos', calls[n]),
         \A n \in DOMAIN more : CallOK(state', pos', more[n]),
         \A n, m \in DOMAIN more :
           more[n].op = "execute" /\ more[m].op = "execute" /\ more[n].on = more[m].on => n = m,
         \A n \in DOMAIN more, m \in DOMAIN calls :
           more[n].op = "execute" /\ calls[m].op = "execute" => more[n].on # calls[m].on
  PROVE  ScopeInv'
<1>1. calls \in Seq(CallRecord)
  BY DEF ScopeInv, CallsOK
<1>2. /\ calls' \in Seq(CallRecord)
      /\ \A n \in DOMAIN calls' :
           \/ n \in DOMAIN more /\ calls'[n] = more[n]
           \/ /\ n > Len(more) /\ n - Len(more) + 1 \in DOMAIN calls
              /\ n - Len(more) + 1 # 1 /\ calls'[n] = calls[n - Len(more) + 1]
  BY <1>1, CallsAfter
<1>3. \A n \in DOMAIN calls' : CallOK(state', pos', calls'[n])
  BY <1>2
<1>4. ASSUME NEW n \in DOMAIN calls', NEW m \in DOMAIN calls',
             calls'[n].op = "execute", calls'[m].op = "execute", calls'[n].on = calls'[m].on
      PROVE  n = m
  <2>1. /\ Len(more) \in Nat /\ n \in Nat /\ m \in Nat
        /\ \A k, l \in DOMAIN calls :
             calls[k].op = "execute" /\ calls[l].op = "execute" /\ calls[k].on = calls[l].on => k = l
    BY <1>2 DEF ScopeInv, CallsOK
  <2>2. CASE n \in DOMAIN more /\ calls'[n] = more[n]
    <3>1. m \in DOMAIN more /\ calls'[m] = more[m]
      BY <1>2, <1>4, <2>2
    <3>. QED  BY <1>4, <2>2, <3>1
  <2>3. CASE n - Len(more) + 1 \in DOMAIN calls /\ calls'[n] = calls[n - Len(more) + 1]
    <3>1. m - Len(more) + 1 \in DOMAIN calls /\ calls'[m] = calls[m - Len(more) + 1]
      BY <1>2, <1>4, <2>3
    <3>2. n - Len(more) + 1 = m - Len(more) + 1
      BY <1>4, <2>1, <2>3, <3>1
    <3>. QED  BY <2>1, <3>2
  <2>. QED  BY <1>2, <2>2, <2>3
<1>5. CallsOK'
  BY <1>2, <1>3, <1>4 DEF CallsOK
<1>6. (saved # <<>> => SavedOK)' /\ (calls # <<>> => saved # <<>>)'
  BY DEF ScopeInv, SavedOK
<1>7. (waiting \cup orphaned \subseteq created)'
  BY DEF ScopeInv
<1>. QED  BY <1>5, <1>6, <1>7 DEF ScopeInv

(* A step that enters no scope keeps what the calls rely on. *)
LEMMA QuietStep ==
  ASSUME ScopeInv, calls # <<>>, saved' = saved, orphaned' = orphaned,
         NEW more \in Seq(CallRecord), calls' = more \o Tail(calls),
         RowsOK(state', pos', created', live', compensator', completions'),
         created \subseteq created', waiting' \subseteq created',
         \A j \in Instance : state'[j] = "none" <=> state[j] = "none",
         \A p \in Instance : Ahead(pos', p) \subseteq Ahead(pos, p),
         \A n \in DOMAIN more : CallOK(state', pos', more[n]) /\ more[n].op # "execute"
  PROVE  ScopeInv'
<1>1. ASSUME NEW n \in DOMAIN calls PROVE CallOK(state', pos', calls[n])
  <2>1. calls[n] \in CallRecord /\ CallOK(state, pos, calls[n])
    BY DEF ScopeInv, CallsOK
  <2>2. calls[n].op = "execute" =>
          /\ calls[n].on \in Scope /\ state'[calls[n].on] = "none"
          /\ calls[n].on # Global => state'[Parent[calls[n].on]] # "none"
          /\ \A p \in Instance : \A k \in Ahead(pos', p) : Body[p][k] # calls[n].on
    BY <2>1, ParentFacts DEF CallOK, Instance
  <2>3. calls[n].op \in {"advance", "leave"} => state'[calls[n].on] # "none"
    BY <2>1 DEF CallOK, CallRecord, TokenOps
  <2>. QED  BY <2>1, <2>2, <2>3 DEF CallOK
<1>. QED  BY <1>1, StepInv

(* No calls, one call. *)
LEMMA QuietStep0 ==
  ASSUME ScopeInv, calls # <<>>, saved' = saved, orphaned' = orphaned,
         calls' = <<>> \o Tail(calls),
         RowsOK(state', pos', created', live', compensator', completions'),
         created \subseteq created', waiting' \subseteq created',
         \A j \in Instance : state'[j] = "none" <=> state[j] = "none",
         \A p \in Instance : Ahead(pos', p) \subseteq Ahead(pos, p)
  PROVE  ScopeInv'
<1>. DEFINE more == <<>>
<1>1. more \in Seq(CallRecord) /\ DOMAIN more = {}
  OBVIOUS
<1>2. calls' = more \o Tail(calls)
  OBVIOUS
<1>. HIDE DEF more
<1>. QED  BY <1>1, <1>2, QuietStep

LEMMA QuietStep1 ==
  ASSUME ScopeInv, calls # <<>>, saved' = saved, orphaned' = orphaned,
         NEW c \in CallRecord, calls' = <<c>> \o Tail(calls),
         RowsOK(state', pos', created', live', compensator', completions'),
         created \subseteq created', waiting' \subseteq created',
         \A j \in Instance : state'[j] = "none" <=> state[j] = "none",
         \A p \in Instance : Ahead(pos', p) \subseteq Ahead(pos, p),
         CallOK(state', pos', c), c.op # "execute"
  PROVE  ScopeInv'
<1>. DEFINE more == <<c>>
<1>1. more \in Seq(CallRecord) /\ DOMAIN more = {1} /\ more[1] = c
  OBVIOUS
<1>2. calls' = more \o Tail(calls)
  OBVIOUS
<1>3. \A n \in DOMAIN more : CallOK(state', pos', more[n]) /\ more[n].op # "execute"
  BY <1>1
<1>. HIDE DEF more
<1>. QED  BY <1>1, <1>2, <1>3, QuietStep
-----------------------------------------------------------------------------
(* Signals: one instance changes its state. *)

(* States are not "none", and disjoint. *)
LEMMA States ==
  /\ "none" \notin ScopeState
  /\ Active \cap (Faulting \cup Terminating \cup Compensating \cup End) = {}
  /\ Terminating \cap (Faulting \cup Compensating \cup End) = {}
  /\ Compensating \cap (Faulting \cup End) = {}
  BY DEF ScopeState, Active, Faulting, Terminating, Compensating, End

(* A sequence without repetition, and one element more. *)
LEMMA AppendFresh ==
  ASSUME NEW S, NEW s \in Seq(S), IsInjective(s), NEW e \in S, e \notin ToSet(s),
         NEW t, t = Append(s, e)
  PROVE  t \in Seq(S) /\ IsInjective(t) /\ (\A x : x \in ToSet(t) <=> x \in ToSet(s) \/ x = e)
<1>1. t \in Seq(S)
  OBVIOUS
<1>2. IsInjective(t)
  BY DEF ToSet, IsInjective
<1>3. (\A x : x \in ToSet(t) <=> x \in ToSet(s) \/ x = e)
  BY DEF ToSet
<1>. QED  BY <1>1, <1>2, <1>3

(* The rows after a change of state. *)
LEMMA SignalRows ==
  ASSUME RowsOK(state, pos, created, live, compensator, completions),
         NEW i \in Instance, state[i] # "none", NEW x \in ScopeState,
         state' = [state EXCEPT ![i] = x], pos' = pos, created' = created, live' \subseteq live,
         x \in Active => state[i] \in Active,
         x \in Terminating \cup Compensating => i # Global,
         compensator' \in [Instance -> Requestor \cup {None}],
         \A j \in Instance : j # i => compensator'[j] = compensator[j],
         x \in Compensating => compensator'[i] \in Requestor,
         \/ completions' = completions
         \/ completions' = Append(completions, i) /\ state[i] \in Active /\ x \notin Active
  PROVE  /\ RowsOK(state', pos', created', live', compensator', completions')
         /\ \A j \in Instance : state'[j] = "none" <=> state[j] = "none"
<1>1. /\ state \in [Instance -> ScopeState \cup {"none"}]
      /\ state' \in [Instance -> ScopeState \cup {"none"}]
      /\ state'[i] = x /\ \A j \in Instance : j # i => state'[j] = state[j]
  BY DEF RowsOK
<1>2. \A j \in Instance : state'[j] = "none" <=> state[j] = "none"
  BY <1>1, States
<1>3. /\ completions' \in Seq(Instance) /\ IsInjective(completions')
      /\ \A j \in Instance : state'[j] \in Active \cup {"none"} => j \notin ToSet(completions')
  <2>1. /\ completions \in Seq(Instance) /\ IsInjective(completions)
        /\ \A j \in Instance : state[j] \in Active \cup {"none"} => j \notin ToSet(completions)
    BY DEF RowsOK
  <2>2. CASE completions' = completions
    BY <1>1, <2>1, <2>2, States
  <2>3. CASE completions' = Append(completions, i) /\ state[i] \in Active /\ x \notin Active
    <3>1. completions' \in Seq(Instance) /\ IsInjective(completions')
          /\ \A y : y \in ToSet(completions') <=> y \in ToSet(completions) \/ y = i
      <4>1. completions \in Seq(Instance) /\ i \notin ToSet(completions)
        BY <2>1, <2>3
      <4>2. IsInjective(completions) /\ completions' = Append(completions, i)
        BY <2>1, <2>3, Zenon
      <4>. QED  BY <4>1, <4>2, AppendFresh, ZenonT(60)
    <3>. QED  BY <1>1, <2>1, <2>3, <3>1, States
  <2>. QED  BY <2>2, <2>3
<1>4. /\ pos' \in [Instance -> Nat] /\ created' \subseteq Token /\ live' \subseteq created'
  BY DEF RowsOK
<1>5. ASSUME NEW j \in Instance
      PROVE  /\ state'[j] # "none" => {<<j, "scope">>, <<j, "primary">>} \subseteq created'
             /\ state'[j] # "none" /\ j # Global => state'[Parent[j]] # "none"
             /\ state'[j] \in Compensating => compensator'[j] \in Requestor /\ j # Global
             /\ state'[j] \in Terminating => j # Global
             /\ \A n \in Ahead(pos', j) : state'[Body[j][n]] = "none"
  <2>1. /\ state[j] # "none" => {<<j, "scope">>, <<j, "primary">>} \subseteq created
        /\ state[j] # "none" /\ j # Global => state[Parent[j]] # "none"
        /\ state[j] \in Compensating => compensator[j] \in Requestor /\ j # Global
        /\ state[j] \in Terminating => j # Global
        /\ \A n \in Ahead(pos, j) : state[Body[j][n]] = "none"
    BY DEF RowsOK
  <2>2. \A n \in Ahead(pos, j) : Body[j][n] \in Instance
    BY ParentFacts DEF Ahead, Instance
  <2>3. state'[j] # "none" /\ j # Global => state'[Parent[j]] # "none"
    BY <1>2, <2>1, ParentFacts
  <2>4. \A n \in Ahead(pos', j) : state'[Body[j][n]] = "none"
    BY <1>2, <2>1, <2>2
  <2>5. /\ state'[j] \in Compensating => compensator'[j] \in Requestor /\ j # Global
        /\ state'[j] \in Terminating => j # Global
    BY <1>1, <2>1
  <2>. QED  BY <1>2, <2>1, <2>3, <2>4, <2>5
<1>6. RowsOK(state', pos', created', live', compensator', completions')
  BY <1>1, <1>3, <1>4, <1>5 DEF RowsOK
<1>. QED  BY <1>2, <1>6

(* The calls that rely on nothing. *)
PlainOps == {"completed", "faulted", "childrenTerminated", "childrenCompensated", "terminateChildren",
             "terminateEvents", "scopeTerminated", "executeHandler", "leaveHandler"}

LEMMA PlainCall ==
  ASSUME NEW st, NEW ps
  PROVE  /\ \A op \in PlainOps, i \in Instance :
              /\ Call(op, i) \in CallRecord /\ Call(op, i).op # "execute"
              /\ CallOK(st, ps, Call(op, i))
         /\ \A op \in TokenOps, t \in Token :
              /\ Call(op, t) \in CallRecord /\ Call(op, t).op # "execute"
              /\ CallOK(st, ps, Call(op, t))
<1>1. \A op \in PlainOps : op \in InstanceOps
                           /\ op \notin {"execute", "advance", "leave", "terminate", "compensate", "compensateNext"}
  BY DEF PlainOps, InstanceOps, Signals
<1>2. \A op \in TokenOps :
        op \notin {"execute", "advance", "leave", "terminate", "compensate", "compensateNext"}
  BY DEF TokenOps
<1>. QED  BY <1>1, <1>2, CallTypes DEF CallOK

(* Who performs default compensation is a requestor; so is the activity of *)
(* a handler that compensates.                                             *)
LEMMA CompensateNextCall ==
  ASSUME NEW st, NEW ps, NEW i \in Instance, NEW by \in Requestor
  PROVE  /\ CompensateCall("compensateNext", i, by) \in CallRecord
         /\ CompensateCall("compensateNext", i, by).op # "execute"
         /\ CallOK(st, ps, CompensateCall("compensateNext", i, by))
         /\ ByScope(i) \in Requestor
<1>1. "compensateNext" \in InstanceOps
  BY DEF InstanceOps
<1>2. ByScope(i) \in Requestor
  BY DEF ByScope, Requestor
<1>. QED  BY <1>1, <1>2, CallTypes DEF CallOK

(* setState and one more call, or none. *)
LEMMA EnterStep ==
  ASSUME ScopeInv, calls # <<>>, NEW i \in Instance, state[i] # "none", NEW x \in ScopeState,
         NEW c \in CallRecord, state' = [state EXCEPT ![i] = x], Then(<<c>>) \/ Then(<<>>),
         UNCHANGED <<pos, created, compensator>>, live' \subseteq live, waiting' \subseteq waiting,
         \/ completions' = completions
         \/ completions' = Append(completions, i) /\ state[i] \in Active /\ x \notin Active,
         x \in Active => state[i] \in Active, x \in Terminating => i # Global,
         x \in Compensating => state[i] \in Compensating,
         CallOK(state', pos', c), c.op # "execute"
  PROVE  ScopeInv'
<1>1. RowsOK(state, pos, created, live, compensator, completions) /\ waiting \subseteq created
  BY DEF ScopeInv
<1>2. /\ compensator \in [Instance -> Requestor \cup {None}]
      /\ x \in Compensating => compensator[i] \in Requestor /\ i # Global
  BY <1>1 DEF RowsOK
<1>3. /\ RowsOK(state', pos', created', live', compensator', completions')
      /\ \A j \in Instance : state'[j] = "none" <=> state[j] = "none"
  BY <1>1, <1>2, SignalRows
<1>4. pos' = pos /\ created \subseteq created' /\ waiting' \subseteq created'
  BY <1>1
<1>5. CASE Then(<<c>>)
  BY <1>3, <1>4, <1>5, QuietStep1 DEF Then
<1>6. CASE Then(<<>>)
  BY <1>3, <1>4, <1>6, QuietStep0 DEF Then
<1>. QED  BY <1>5, <1>6

(* A step that changes no row but ends tokens and receptions. *)
LEMMA SameRows ==
  ASSUME ScopeInv, UNCHANGED <<state, pos, created, compensator, completions>>, live' \subseteq live,
         waiting' \subseteq waiting
  PROVE  /\ RowsOK(state', pos', created', live', compensator', completions')
         /\ created \subseteq created' /\ waiting' \subseteq created'
         /\ \A j \in Instance : state'[j] = "none" <=> state[j] = "none"
         /\ \A p \in Instance : Ahead(pos', p) \subseteq Ahead(pos, p)
  BY DEF ScopeInv, RowsOK
-----------------------------------------------------------------------------
(* What a signal that is accepted finds. *)
LEMMA SignalFacts ==
  ASSUME ScopeInv, NEW i \in Instance, NEW states, Signalled(i, states)
  PROVE  /\ calls # <<>> /\ state[i] \in states /\ state[i] # "none" /\ UNCHANGED <<pos, created>>
         /\ Head(calls) \in CallRecord /\ CallOK(state, pos, Head(calls))
         /\ Head(calls).on = i /\ Head(calls).op \in Signals
         /\ Head(calls).op = "completed" => state[i] \in {"AP", "AE", "FE", "TE", "CE"}
         /\ Head(calls).op = "faulted" =>
              state[i] \in Active \cup {"FD", "FE", "TP", "TD", "TE", "CD", "CE"}
         /\ Head(calls).op = "terminate" => state[i] \in Active \cup Faulting \cup {"EF"}
         /\ Head(calls).op = "compensate" => state[i] = "EA"
         /\ Head(calls).op = "childrenTerminated" => state[i] \in {"FP", "FT", "TP", "TT", "CT"}
         /\ Head(calls).op = "childrenCompensated" => state[i] \in {"FD", "TD", "CD"}
<1>1. /\ calls # <<>> /\ Head(calls).op \in Signals /\ Head(calls).on = i
      /\ Accepts(Head(calls)) /\ state[i] \in states /\ UNCHANGED <<pos, created>>
  BY DEF Signalled, Calling
<1>2. Head(calls) \in CallRecord /\ CallOK(state, pos, Head(calls))
  BY <1>1, HeadCall DEF ScopeInv
<1>3. Head(calls).op = "completed" => state[i] \in {"AP", "AE", "FE", "TE", "CE"}
  BY <1>1 DEF Accepts
<1>4. Head(calls).op = "faulted" =>
        state[i] \in Active \cup {"FD", "FE", "TP", "TD", "TE", "CD", "CE"}
  BY <1>1 DEF Accepts
<1>5. Head(calls).op = "terminate" => state[i] \in Active \cup Faulting \cup {"EF"}
  BY <1>1 DEF Accepts
<1>6. Head(calls).op = "compensate" => state[i] = "EA"
  BY <1>1 DEF Accepts
<1>7. Head(calls).op = "childrenTerminated" => state[i] \in {"FP", "FT", "TP", "TT", "CT"}
  BY <1>1 DEF Accepts
<1>8. Head(calls).op = "childrenCompensated" => state[i] \in {"FD", "TD", "CD"}
  BY <1>1 DEF Accepts
<1>9. state[i] # "none"
  BY <1>1, <1>3, <1>4, <1>5, <1>6, <1>7, <1>8 DEF Signals, Active, Faulting
<1>. QED  BY <1>1, <1>2, <1>3, <1>4, <1>5, <1>6, <1>7, <1>8, <1>9

(* Entering the end states. *)
LEMMA EnterAndProceedStep ==
  ASSUME ScopeInv, calls # <<>>, NEW i \in Instance, state[i] # "none",
         NEW x \in {"EA", "EX"}, x = "EA" => state[i] \in Active,
         EnterAndProceed(i, x), UNCHANGED <<pos, created>>, waiting' \subseteq waiting
  PROVE  ScopeInv'
<1>. DEFINE p == Parent[i]
            st == [state EXCEPT ![i] = x]
<1>1. /\ state' = st /\ live' \subseteq live /\ compensator' = compensator
      /\ completions' = IF x = "EA" THEN Append(completions, i) ELSE completions
      /\ Then(CASE p = None -> <<>>
                [] p # None /\ i \in Scope -> <<Call("leave", i)>>
                [] OTHER -> ProceedFromEvent(st, p))
  BY DEF EnterAndProceed
<1>2. x \in ScopeState /\ x \notin Active \cup Terminating \cup Compensating
  BY DEF ScopeState, End, Active, Terminating, Compensating
<1>3. \/ completions' = completions
      \/ completions' = Append(completions, i) /\ state[i] \in Active /\ x \notin Active
  BY <1>1, <1>2
<1>. HIDE DEF st
<1>4. ASSUME NEW c \in CallRecord, CallOK(state', pos', c), c.op # "execute",
             Then(<<c>>) \/ Then(<<>>)
      PROVE  ScopeInv'
  <2>1. state' = [state EXCEPT ![i] = x]
    BY <1>1 DEF st
  <2>. QED  BY <1>1, <1>2, <1>3, <1>4, <2>1, EnterStep
<1>5. CASE p = None
  <2>1. Then(<<>>)
    BY <1>1, <1>5 DEF Then
  <2>. QED  BY <1>4, <2>1, PlainCall DEF PlainOps
<1>6. CASE p # None /\ i \in Scope
  <2>1. Then(<<Call("leave", i)>>)
    BY <1>1, <1>6 DEF Then
  <2>2. i # Global
    BY <1>6, ParentFacts
  <2>3. state'[i] # "none"
    BY <1>1 DEF ScopeInv, RowsOK, st
  <2>4. Call("leave", i) \in CallRecord /\ Call("leave", i).op = "leave" /\ Call("leave", i).on = i
    <3>1. "leave" \in InstanceOps
      BY DEF InstanceOps
    <3>. QED  BY <3>1, CallTypes
  <2>5. CallOK(state', pos', Call("leave", i))
    BY <1>6, <2>2, <2>3, <2>4 DEF CallOK
  <2>. QED  BY <1>4, <2>1, <2>4, <2>5
<1>7. CASE p # None /\ i \notin Scope
  <2>1. p \in Instance
    BY <1>7, ParentFacts
  <2>2. Then(ProceedFromEvent(st, p))
    BY <1>1, <1>7
  <2>3. Then(<<Call("completed", p)>>) \/ Then(<<>>)
    BY <2>2 DEF ProceedFromEvent
  <2>. QED  BY <1>4, <2>1, <2>3, PlainCall DEF PlainOps
<1>. QED  BY <1>5, <1>6, <1>7

LEMMA EnterFaultedStep ==
  ASSUME ScopeInv, calls # <<>>, NEW i \in Instance, state[i] # "none",
         EnterFaulted(i), UNCHANGED <<pos, created>>, waiting' \subseteq waiting
  PROVE  ScopeInv'
<1>1. "EF" \in ScopeState /\ "EF" \notin Active \cup Terminating \cup Compensating
  BY DEF ScopeState, End, Active, Terminating, Compensating
<1>2. /\ state' = [state EXCEPT ![i] = "EF"] /\ live' \subseteq live
      /\ UNCHANGED <<compensator, completions>>
      /\ Then(IF Parent[i] = None THEN <<>> ELSE <<Call("faulted", Parent[i])>>)
  BY DEF EnterFaulted
<1>3. ASSUME NEW c \in CallRecord, CallOK(state', pos', c), c.op # "execute",
             Then(<<c>>) \/ Then(<<>>)
      PROVE  ScopeInv'
  BY <1>1, <1>2, <1>3, EnterStep
<1>4. CASE Parent[i] = None
  BY <1>2, <1>3, <1>4, PlainCall DEF PlainOps
<1>5. CASE Parent[i] # None
  <2>1. Parent[i] \in Instance
    BY <1>5, ParentFacts
  <2>. QED  BY <1>2, <1>3, <1>5, <2>1, PlainCall DEF PlainOps
<1>. QED  BY <1>4, <1>5

LEMMA EnterTerminatedStep ==
  ASSUME ScopeInv, calls # <<>>, NEW i \in Instance, state[i] \in Terminating,
         EnterTerminated(i), UNCHANGED <<pos, created, live, waiting>>
  PROVE  ScopeInv'
<1>1. /\ "ET" \in ScopeState /\ "ET" \notin Active \cup Terminating \cup Compensating
      /\ state[i] # "none"
  BY DEF ScopeState, End, Active, Terminating, Compensating
<1>2. i # Global /\ Parent[i] \in Instance
  BY ParentFacts DEF ScopeInv, RowsOK
<1>. QED  BY <1>1, <1>2, EnterStep, PlainCall DEF EnterTerminated, PlainOps

LEMMA EnterCompensatedStep ==
  ASSUME ScopeInv, calls # <<>>, NEW i \in Instance, state[i] \in Compensating,
         EnterCompensated(i), UNCHANGED <<pos, created>>, live' \subseteq live, waiting' = waiting
  PROVE  ScopeInv'
<1>1. /\ "EC" \in ScopeState /\ "EC" \notin Active \cup Terminating \cup Compensating
      /\ state[i] # "none"
  BY DEF ScopeState, End, Active, Terminating, Compensating
<1>2. i # Global /\ Parent[i] \in Instance /\ compensator[i] \in Requestor
  BY ParentFacts DEF ScopeInv, RowsOK
<1>. QED  BY <1>1, <1>2, EnterStep, CompensateNextCall DEF EnterCompensated

(* A signal that is ignored, and one that changes the state. *)
LEMMA IgnoreStep ==
  ASSUME ScopeInv, calls # <<>>, Ignore, UNCHANGED <<pos, created>>, waiting' = waiting
  PROVE  ScopeInv'
<1>1. /\ UNCHANGED <<state, pos, created, compensator, completions>> /\ live' \subseteq live
      /\ waiting' \subseteq waiting /\ Then(<<>>)
  BY DEF Ignore
<1>. QED  BY <1>1, SameRows, QuietStep0 DEF Then

LEMMA EnterCallStep ==
  ASSUME ScopeInv, calls # <<>>, NEW i \in Instance, state[i] # "none", NEW x \in ScopeState,
         NEW op \in PlainOps, Enter(i, x, Call(op, i)), UNCHANGED <<pos, created, live>>,
         waiting' \subseteq waiting, x \notin Active, x \in Terminating => i # Global,
         x \in Compensating => state[i] \in Compensating
  PROVE  ScopeInv'
<1>1. /\ state' = [state EXCEPT ![i] = x] /\ Then(<<Call(op, i)>>)
      /\ UNCHANGED <<compensator, completions>> /\ live' \subseteq live
  BY DEF Enter
<1>. QED  BY <1>1, EnterStep, PlainCall

LEMMA EnterHandlingStep ==
  ASSUME ScopeInv, calls # <<>>, NEW i \in Instance, state[i] # "none", NEW handlers,
         NEW x \in ScopeState, NEW y \in ScopeState, {x, y} \cap (Active \cup Compensating) = {},
         {x, y} \cap Terminating # {} => i # Global,
         EnterHandling(i, handlers, x, y), UNCHANGED <<pos, created, live, waiting>>
  PROVE  ScopeInv'
<1>1. CASE Enter(i, x, Call("executeHandler", i))
  BY <1>1, EnterCallStep DEF PlainOps
<1>2. CASE Enter(i, y, CompensateCall("compensateNext", i, ByScope(i)))
  <2>1. /\ state' = [state EXCEPT ![i] = y]
        /\ Then(<<CompensateCall("compensateNext", i, ByScope(i))>>)
        /\ UNCHANGED <<compensator, completions>> /\ live' \subseteq live /\ waiting' \subseteq waiting
    BY <1>2 DEF Enter
  <2>2. ByScope(i) \in Requestor
    BY DEF ByScope, Requestor
  <2>. QED  BY <2>1, <2>2, EnterStep, CompensateNextCall
<1>. QED  BY <1>1, <1>2 DEF EnterHandling
-----------------------------------------------------------------------------
(* The signals preserve the invariant. *)
LEMMA ActiveSignalInv ==
  ASSUME ScopeInv, NEW i \in Instance, ActiveSignal(i)
  PROVE  ScopeInv'
<1>. DEFINE op == Head(calls).op
<1>1. Signalled(i, Active) /\ waiting' \subseteq waiting
  BY DEF ActiveSignal, CancelReception
<1>2. /\ calls # <<>> /\ state[i] \in Active /\ state[i] # "none" /\ UNCHANGED <<pos, created>>
      /\ op \in {"completed", "faulted", "terminate"} /\ (op = "terminate" => i # Global)
  <2>1. /\ calls # <<>> /\ state[i] \in Active /\ state[i] # "none" /\ UNCHANGED <<pos, created>>
        /\ CallOK(state, pos, Head(calls)) /\ Head(calls).on = i /\ op \in Signals
    BY <1>1, SignalFacts
  <2>2. op \notin {"compensate", "childrenTerminated", "childrenCompensated"}
    BY <1>1, <2>1, SignalFacts DEF Active
  <2>. QED  BY <2>1, <2>2 DEF Signals, CallOK
<1>3. CASE op = "completed" /\ state[i] = "AP" /\ HasPendingEvents(state, i)
  <2>1. /\ state' = [state EXCEPT ![i] = "AE"] /\ Then(<<>>)
        /\ UNCHANGED <<live, compensator, completions>>
    BY <1>3 DEF ActiveSignal
  <2>2. "AE" \in ScopeState /\ "AE" \in Active /\ "AE" \notin Terminating \cup Compensating
    BY DEF ScopeState, Active, Terminating, Compensating
  <2>3. "completed" \in PlainOps
    BY DEF PlainOps
  <2>. QED  BY <1>1, <1>2, <2>1, <2>2, <2>3, EnterStep, PlainCall
<1>4. CASE op = "completed" /\ (state[i] = "AP" => ~ HasPendingEvents(state, i))
  <2>1. EnterAndProceed(i, "EA")
    BY <1>4 DEF ActiveSignal
  <2>. QED  BY <1>1, <1>2, <2>1, EnterAndProceedStep
<1>5. CASE op = "faulted"
  <2>1. Enter(i, "FP", Call("terminateChildren", i)) /\ UNCHANGED live
    BY <1>5 DEF ActiveSignal
  <2>2. "FP" \in ScopeState /\ "FP" \notin Active \cup Terminating \cup Compensating
    BY DEF ScopeState, Faulting, Active, Terminating, Compensating
  <2>. QED  BY <1>1, <1>2, <2>1, <2>2, EnterCallStep DEF PlainOps
<1>6. CASE op = "terminate"
  <2>1. Enter(i, "TP", Call("terminateChildren", i)) /\ UNCHANGED live
    BY <1>6 DEF ActiveSignal
  <2>2. "TP" \in ScopeState /\ "TP" \notin Active \cup Compensating
    BY DEF ScopeState, Active, Terminating, Compensating
  <2>. QED  BY <1>1, <1>2, <1>6, <2>1, <2>2, EnterCallStep DEF PlainOps
<1>. QED  BY <1>2, <1>3, <1>4, <1>5, <1>6

LEMMA FaultingSignalInv ==
  ASSUME ScopeInv, NEW i \in Instance, FaultingSignal(i)
  PROVE  ScopeInv'
<1>. DEFINE op == Head(calls).op
            signal == <<op, state[i]>>
<1>1. Signalled(i, Faulting) /\ waiting' = waiting
  BY DEF FaultingSignal
<1>2. calls # <<>> /\ state[i] \in Faulting /\ state[i] # "none" /\ UNCHANGED <<pos, created>>
  BY <1>1, SignalFacts
<1>3. \/ signal = <<"childrenTerminated", "FP">>
      \/ signal \in {<<"childrenCompensated", "FD">>, <<"faulted", "FD">>, <<"childrenTerminated", "FT">>}
      \/ signal = <<"completed", "FE">>
      \/ signal = <<"faulted", "FE">>
      \/ op = "terminate"
  <2>1. op \in Signals
    BY <1>1, SignalFacts
  <2>2. op # "compensate"
    BY <1>1, <1>2, SignalFacts DEF Faulting
  <2>3. op = "completed" => state[i] = "FE"
    BY <1>1, <1>2, SignalFacts DEF Faulting
  <2>4. op = "faulted" => state[i] \in {"FD", "FE"}
    BY <1>1, <1>2, SignalFacts DEF Faulting, Active
  <2>5. op = "childrenTerminated" => state[i] \in {"FP", "FT"}
    BY <1>1, <1>2, SignalFacts DEF Faulting
  <2>6. op = "childrenCompensated" => state[i] = "FD"
    BY <1>1, <1>2, SignalFacts DEF Faulting
  <2>. QED  BY <2>1, <2>2, <2>3, <2>4, <2>5, <2>6 DEF Signals
<1>4. CASE signal = <<"childrenTerminated", "FP">>
  <2>1. EnterHandling(i, FaultHandlers, "FE", "FD") /\ UNCHANGED live
    BY <1>4 DEF FaultingSignal
  <2>2. /\ "FE" \in ScopeState /\ "FD" \in ScopeState
        /\ {"FE", "FD"} \cap (Active \cup Compensating) = {} /\ {"FE", "FD"} \cap Terminating = {}
    BY DEF ScopeState, Faulting, Active, Terminating, Compensating
  <2>. QED  BY <1>1, <1>2, <2>1, <2>2, EnterHandlingStep
<1>5. CASE signal \in {<<"childrenCompensated", "FD">>, <<"faulted", "FD">>, <<"childrenTerminated", "FT">>}
  <2>1. EnterFaulted(i)
    BY <1>5 DEF FaultingSignal
  <2>. QED  BY <1>1, <1>2, <2>1, EnterFaultedStep
<1>6. CASE signal = <<"completed", "FE">>
  <2>1. EnterAndProceed(i, "EX")
    BY <1>6 DEF FaultingSignal
  <2>. QED  BY <1>1, <1>2, <2>1, EnterAndProceedStep
<1>7. CASE signal = <<"faulted", "FE">>
  <2>1. Enter(i, "FT", Call("terminateChildren", i)) /\ UNCHANGED live
    BY <1>7 DEF FaultingSignal
  <2>2. "FT" \in ScopeState /\ "FT" \notin Active \cup Terminating \cup Compensating
    BY DEF ScopeState, Faulting, Active, Terminating, Compensating
  <2>. QED  BY <1>1, <1>2, <2>1, <2>2, EnterCallStep DEF PlainOps
<1>8. CASE op = "terminate"
  <2>1. Ignore
    BY <1>8 DEF FaultingSignal
  <2>. QED  BY <1>1, <1>2, <2>1, IgnoreStep
<1>. QED  BY <1>3, <1>4, <1>5, <1>6, <1>7, <1>8

LEMMA TerminatingSignalInv ==
  ASSUME ScopeInv, NEW i \in Instance, TerminatingSignal(i)
  PROVE  ScopeInv'
<1>. DEFINE op == Head(calls).op
            signal == <<op, state[i]>>
<1>1. Signalled(i, Terminating) /\ UNCHANGED <<live, waiting>>
  BY DEF TerminatingSignal
<1>2. calls # <<>> /\ state[i] \in Terminating /\ state[i] # "none" /\ UNCHANGED <<pos, created>>
  BY <1>1, SignalFacts
<1>3. i # Global
  BY <1>2 DEF ScopeInv, RowsOK
<1>4. \/ signal = <<"childrenTerminated", "TP">>
      \/ signal = <<"faulted", "TP">>
      \/ signal \in {<<"childrenCompensated", "TD">>, <<"faulted", "TD">>,
                     <<"completed", "TE">>, <<"childrenTerminated", "TT">>}
      \/ signal = <<"faulted", "TE">>
  <2>1. op \in Signals
    BY <1>1, SignalFacts
  <2>2. op \notin {"compensate", "terminate"}
    BY <1>1, <1>2, SignalFacts DEF Terminating, Active, Faulting
  <2>3. op = "completed" => state[i] = "TE"
    BY <1>1, <1>2, SignalFacts DEF Terminating
  <2>4. op = "faulted" => state[i] \in {"TP", "TD", "TE"}
    BY <1>1, <1>2, SignalFacts DEF Terminating, Active
  <2>5. op = "childrenTerminated" => state[i] \in {"TP", "TT"}
    BY <1>1, <1>2, SignalFacts DEF Terminating
  <2>6. op = "childrenCompensated" => state[i] = "TD"
    BY <1>1, <1>2, SignalFacts DEF Terminating
  <2>. QED  BY <2>1, <2>2, <2>3, <2>4, <2>5, <2>6 DEF Signals
<1>5. CASE signal = <<"childrenTerminated", "TP">>
  <2>1. EnterHandling(i, TerminationHandlers, "TE", "TD")
    BY <1>5 DEF TerminatingSignal
  <2>2. /\ "TE" \in ScopeState /\ "TD" \in ScopeState
        /\ {"TE", "TD"} \cap (Active \cup Compensating) = {}
    BY DEF ScopeState, Active, Terminating, Compensating
  <2>. QED  BY <1>1, <1>2, <1>3, <2>1, <2>2, EnterHandlingStep
<1>6. CASE signal = <<"faulted", "TP">>
  <2>1. Ignore
    BY <1>6 DEF TerminatingSignal
  <2>. QED  BY <1>1, <1>2, <2>1, IgnoreStep
<1>7. CASE signal \in {<<"childrenCompensated", "TD">>, <<"faulted", "TD">>,
                       <<"completed", "TE">>, <<"childrenTerminated", "TT">>}
  <2>1. EnterTerminated(i)
    BY <1>7 DEF TerminatingSignal
  <2>. QED  BY <1>1, <1>2, <2>1, EnterTerminatedStep
<1>8. CASE signal = <<"faulted", "TE">>
  <2>1. Enter(i, "TT", Call("terminateChildren", i))
    BY <1>8 DEF TerminatingSignal
  <2>2. "TT" \in ScopeState /\ "TT" \notin Active \cup Compensating
    BY DEF ScopeState, Active, Terminating, Compensating
  <2>. QED  BY <1>1, <1>2, <1>3, <2>1, <2>2, EnterCallStep DEF PlainOps
<1>. QED  BY <1>4, <1>5, <1>6, <1>7, <1>8

LEMMA CompensatingSignalInv ==
  ASSUME ScopeInv, NEW i \in Instance, CompensatingSignal(i)
  PROVE  ScopeInv'
<1>. DEFINE op == Head(calls).op
            signal == <<op, state[i]>>
<1>1. Signalled(i, Compensating) /\ waiting' = waiting
  BY DEF CompensatingSignal
<1>2. calls # <<>> /\ state[i] \in Compensating /\ state[i] # "none" /\ UNCHANGED <<pos, created>>
  BY <1>1, SignalFacts
<1>3. \/ signal = <<"childrenCompensated", "CD">>
      \/ signal = <<"completed", "CE">>
      \/ signal \in {<<"faulted", "CD">>, <<"childrenTerminated", "CT">>}
      \/ signal = <<"faulted", "CE">>
  <2>1. op \in Signals
    BY <1>1, SignalFacts
  <2>2. op \notin {"compensate", "terminate"}
    BY <1>1, <1>2, SignalFacts DEF Compensating, Active, Faulting
  <2>3. op = "completed" => state[i] = "CE"
    BY <1>1, <1>2, SignalFacts DEF Compensating
  <2>4. op = "faulted" => state[i] \in {"CD", "CE"}
    BY <1>1, <1>2, SignalFacts DEF Compensating, Active
  <2>5. op = "childrenTerminated" => state[i] = "CT"
    BY <1>1, <1>2, SignalFacts DEF Compensating
  <2>6. op = "childrenCompensated" => state[i] = "CD"
    BY <1>1, <1>2, SignalFacts DEF Compensating
  <2>. QED  BY <2>1, <2>2, <2>3, <2>4, <2>5, <2>6 DEF Signals
<1>4. CASE signal = <<"childrenCompensated", "CD">>
  <2>1. EnterCompensated(i) /\ UNCHANGED live
    BY <1>4 DEF CompensatingSignal
  <2>. QED  BY <1>1, <1>2, <2>1, EnterCompensatedStep
<1>5. CASE signal = <<"completed", "CE">>
  <2>1. EnterCompensated(i) /\ live' \subseteq live
    BY <1>5 DEF CompensatingSignal
  <2>. QED  BY <1>1, <1>2, <2>1, EnterCompensatedStep
<1>6. CASE signal \in {<<"faulted", "CD">>, <<"childrenTerminated", "CT">>}
  <2>1. EnterFaulted(i)
    BY <1>6 DEF CompensatingSignal
  <2>. QED  BY <1>1, <1>2, <2>1, EnterFaultedStep
<1>7. CASE signal = <<"faulted", "CE">>
  <2>1. Enter(i, "CT", Call("terminateChildren", i)) /\ UNCHANGED live
    BY <1>7 DEF CompensatingSignal
  <2>2. "CT" \in ScopeState /\ "CT" \notin Active \cup Terminating
    BY DEF ScopeState, Active, Terminating, Compensating
  <2>. QED  BY <1>1, <1>2, <2>1, <2>2, EnterCallStep DEF PlainOps
<1>. QED  BY <1>3, <1>4, <1>5, <1>6, <1>7

LEMMA EndSignalInv ==
  ASSUME ScopeInv, NEW i \in Instance, EndSignal(i)
  PROVE  ScopeInv'
<1>. DEFINE by == Head(calls).by
            x == IF i \in CompensationHandlers THEN "CE" ELSE "CD"
            c == IF i \in CompensationHandlers THEN Call("executeHandler", i)
                 ELSE CompensateCall("compensateNext", i, ByScope(i))
<1>1. Signalled(i, End) /\ UNCHANGED <<live, waiting>>
  BY DEF EndSignal
<1>2. /\ calls # <<>> /\ state[i] \in End /\ state[i] # "none" /\ UNCHANGED <<pos, created>>
      /\ CallOK(state, pos, Head(calls)) /\ Head(calls).on = i
  BY <1>1, SignalFacts
<1>3. CASE Head(calls).op = "compensate"
  <2>1. /\ state' = [state EXCEPT ![i] = x] /\ compensator' = [compensator EXCEPT ![i] = by]
        /\ Then(<<c>>) /\ completions' = completions
    BY <1>3 DEF EndSignal
  <2>2. by \in Requestor /\ i # Global
    BY <1>2, <1>3 DEF CallOK
  <2>3. x \in ScopeState /\ x \notin Active /\ x \in Compensating
    BY DEF ScopeState, Active, Compensating
  <2>4. /\ RowsOK(state, pos, created, live, compensator, completions)
        /\ waiting' \subseteq created' /\ live' \subseteq live
    BY <1>1, <1>2 DEF ScopeInv
  <2>5. /\ compensator' \in [Instance -> Requestor \cup {None}] /\ compensator'[i] \in Requestor
        /\ \A j \in Instance : j # i => compensator'[j] = compensator[j]
    BY <2>1, <2>2, <2>4 DEF RowsOK
  <2>6. c \in CallRecord /\ CallOK(state', pos', c) /\ c.op # "execute"
    <3>1. ByScope(i) \in Requestor
      BY DEF ByScope, Requestor
    <3>2. "executeHandler" \in PlainOps
      BY DEF PlainOps
    <3>. QED  BY <3>1, <3>2, CompensateNextCall, PlainCall
  <2>. HIDE DEF x, c
  <2>7. /\ RowsOK(state', pos', created', live', compensator', completions')
        /\ \A j \in Instance : state'[j] = "none" <=> state[j] = "none"
    BY <1>2, <2>1, <2>2, <2>3, <2>4, <2>5, SignalRows
  <2>. QED  BY <1>1, <1>2, <2>1, <2>4, <2>6, <2>7, QuietStep1 DEF Then
<1>4. CASE Head(calls).op # "compensate"
  <2>1. Ignore
    BY <1>4 DEF EndSignal
  <2>. QED  BY <1>1, <1>2, <2>1, IgnoreStep
<1>. QED  BY <1>3, <1>4
-----------------------------------------------------------------------------
(* Termination, handlers and compensation. *)

(* The calls that rely on nothing, and sequences of them. *)
Plain == {Call(op, i) : op \in PlainOps, i \in Instance} \cup
         {Call(op, t) : op \in TokenOps, t \in Token}

LEMMA PlainStep ==
  ASSUME ScopeInv, calls # <<>>, NEW more \in Seq(Plain), Then(more),
         UNCHANGED <<state, pos, created, compensator, completions>>, live' \subseteq live,
         waiting' \subseteq waiting
  PROVE  ScopeInv'
<1>1. \A c \in Plain : c \in CallRecord /\ CallOK(state', pos', c) /\ c.op # "execute"
  <2>. SUFFICES ASSUME NEW c \in Plain
                PROVE  c \in CallRecord /\ CallOK(state', pos', c) /\ c.op # "execute"
    OBVIOUS
  <2>1. CASE \E op \in PlainOps, i \in Instance : c = Call(op, i)
    BY <2>1, PlainCall
  <2>2. CASE \E op \in TokenOps, t \in Token : c = Call(op, t)
    BY <2>2, PlainCall
  <2>. QED  BY <2>1, <2>2 DEF Plain
<1>2. more \in Seq(CallRecord) /\ \A n \in DOMAIN more : more[n] \in Plain
  <2>1. Len(more) \in Nat /\ DOMAIN more = 1 .. Len(more) /\ more \in [1 .. Len(more) -> Plain]
    OBVIOUS
  <2>2. more \in [1 .. Len(more) -> CallRecord]
    BY <1>1, <2>1
  <2>. QED  BY <2>1, <2>2
<1>. QED  BY <1>1, <1>2, SameRows, QuietStep DEF Then

LEMMA PlainSeqs ==
  /\ <<>> \in Seq(Plain)
  /\ \A op \in PlainOps, i \in Instance : <<Call(op, i)>> \in Seq(Plain)
  /\ \A op, q \in PlainOps, i, j \in Instance : <<Call(op, i), Call(q, j)>> \in Seq(Plain)
  /\ \A op \in TokenOps, t \in Token : <<Call(op, t)>> \in Seq(Plain)
  /\ \A s, t \in Seq(Plain) : s \o t \in Seq(Plain)
<1>1. /\ \A op \in PlainOps, i \in Instance : Call(op, i) \in Plain
      /\ \A op \in TokenOps, t \in Token : Call(op, t) \in Plain
  BY DEF Plain
<1>. QED  BY <1>1

LEMMA TerminateChildrenInv ==
  ASSUME ScopeInv, NEW i \in Instance, TerminateChildren(i)
  PROVE  ScopeInv'
<1>. DEFINE Terminated(k) == IF <<i, k>> \in live THEN <<Call("terminateToken", <<i, k>>)>> ELSE <<>>
            first == Terminated("handler") \o <<Call("scopeTerminated", i)>>
            second == Terminated("primary") \o <<Call("terminateEvents", i), Call("scopeTerminated", i)>>
<1>1. calls # <<>> /\ UNCHANGED data
  BY DEF TerminateChildren, Calling
<1>2. /\ "terminateEvents" \in PlainOps /\ "scopeTerminated" \in PlainOps
      /\ "terminateToken" \in TokenOps
      /\ <<i, "handler">> \in Token /\ <<i, "primary">> \in Token
  BY DEF PlainOps, TokenOps, Token
<1>3. first \in Seq(Plain) /\ second \in Seq(Plain)
  <2>1. Terminated("handler") \in Seq(Plain) /\ Terminated("primary") \in Seq(Plain)
    BY <1>2, PlainSeqs
  <2>2. /\ <<Call("scopeTerminated", i)>> \in Seq(Plain)
        /\ <<Call("terminateEvents", i), Call("scopeTerminated", i)>> \in Seq(Plain)
    BY <1>2, PlainSeqs
  <2>. HIDE DEF Terminated
  <2>. QED  BY <2>1, <2>2, PlainSeqs
<1>4. Then(first) \/ Then(second)
  BY DEF TerminateChildren
<1>. HIDE DEF first, second
<1>. QED  BY <1>1, <1>3, <1>4, PlainStep DEF data, rows

LEMMA TerminateEventsInv ==
  ASSUME ScopeInv, NEW i \in Instance, TerminateEvents(i)
  PROVE  ScopeInv'
<1>. DEFINE events == IF i \in Scope THEN OnEvents[i] ELSE {}
            tokens == {<<e, "scope">> : e \in events} \cap live
<1>1. /\ calls # <<>> /\ UNCHANGED <<state, pos, created, live, compensator, completions>>
      /\ waiting' \subseteq waiting
  BY DEF TerminateEvents, Calling, CancelReception
<1>2. tokens \subseteq Token /\ IsFiniteSet(tokens)
  <2>1. events \subseteq Event /\ IsFiniteSet(events)
    BY ScopeAssumption, FS_Subset, FS_EmptySet
  <2>2. {<<e, "scope">> : e \in events} \subseteq Token
    BY <2>1 DEF Token, Instance
  <2>3. IsFiniteSet({<<e, "scope">> : e \in events})
    <3>. DEFINE T == {<<e, "scope">> : e \in events}
                f == [e \in events |-> <<e, "scope">>]
    <3>. HIDE DEF events
    <3>1. f \in [events -> T] /\ \A u \in T : \E e \in events : f[e] = u
      OBVIOUS
    <3>2. f \in Surjection(events, T)
      BY <3>1 DEF Surjection
    <3>. HIDE DEF T, f
    <3>3. IsFiniteSet(T)
      BY <2>1, <3>2, FS_Surjection
    <3>. QED  BY <3>3 DEF T
  <2>4. IsFiniteSet(tokens)
    <3>. HIDE DEF events
    <3>. QED  BY <2>3, FS_Subset
  <2>. QED  BY <2>2, <2>4
<1>3. Cardinality(tokens) \in Nat
  <2>. HIDE DEF tokens
  <2>. QED  BY <1>2, FS_CardinalityType
<1>4. CASE <<i, "events">> \in live
  <2>1. PICK order \in SetToSeqs(tokens) :
          Then([n \in DOMAIN order |-> Call("terminateToken", order[n])]
                 \o <<Call("endToken", <<i, "events">>)>>)
    BY <1>4 DEF TerminateEvents
  <2>2. order \in [1 .. Cardinality(tokens) -> tokens]
    <3>. HIDE DEF tokens
    <3>. QED  BY DEF SetToSeqs
  <2>. DEFINE first == [n \in DOMAIN order |-> Call("terminateToken", order[n])]
  <2>3. first \in Seq(Plain)
    <3>. HIDE DEF tokens
    <3>1. \A n \in 1 .. Cardinality(tokens) : Call("terminateToken", order[n]) \in Plain
      BY <1>2, <2>2 DEF Plain, TokenOps
    <3>2. first \in [1 .. Cardinality(tokens) -> Plain]
      BY <2>2, <3>1
    <3>. QED  BY <1>3, <3>2
  <2>4. <<Call("endToken", <<i, "events">>)>> \in Seq(Plain)
    <3>1. "endToken" \in TokenOps /\ <<i, "events">> \in Token
      BY DEF TokenOps, Token
    <3>. QED  BY <3>1, PlainSeqs
  <2>. DEFINE more == first \o <<Call("endToken", <<i, "events">>)>>
  <2>5. Then(more)
    BY <2>1
  <2>6. more \in Seq(Plain)
    <3>. HIDE DEF first
    <3>. QED  BY <2>3, <2>4, PlainSeqs
  <2>. HIDE DEF more
  <2>. QED  BY <1>1, <2>5, <2>6, PlainStep
<1>5. CASE <<i, "events">> \notin live
  <2>1. Then(<<>>)
    BY <1>5 DEF TerminateEvents
  <2>. QED  BY <1>1, <2>1, PlainSeqs, PlainStep
<1>. QED  BY <1>4, <1>5

LEMMA ScopeTerminatedInv ==
  ASSUME ScopeInv, NEW i \in Instance, ScopeTerminated(i)
  PROVE  ScopeInv'
<1>1. calls # <<>> /\ UNCHANGED data
  BY DEF ScopeTerminated, Calling
<1>2. Then(<<>>) \/ Then(<<Call("childrenTerminated", i)>>)
  BY DEF ScopeTerminated
<1>3. <<>> \in Seq(Plain) /\ <<Call("childrenTerminated", i)>> \in Seq(Plain)
  BY PlainSeqs DEF PlainOps
<1>. QED  BY <1>1, <1>2, <1>3, PlainStep DEF data, rows

LEMMA LeaveHandlerInv ==
  ASSUME ScopeInv, NEW i \in Instance, LeaveHandler(i)
  PROVE  ScopeInv'
<1>1. calls # <<>> /\ UNCHANGED data
  BY DEF LeaveHandler, Calling
<1>2. Then(<<>>) \/ Then(<<Call("completed", i)>>)
  BY DEF LeaveHandler
<1>3. <<>> \in Seq(Plain) /\ <<Call("completed", i)>> \in Seq(Plain)
  BY PlainSeqs DEF PlainOps
<1>. QED  BY <1>1, <1>2, <1>3, PlainStep DEF data, rows

LEMMA EndTokenInv ==
  ASSUME ScopeInv, NEW t \in Token, EndToken(t)
  PROVE  ScopeInv'
  BY PlainSeqs, PlainStep DEF EndToken, Calling

LEMMA TerminateTokenInv ==
  ASSUME ScopeInv, NEW t \in Token, TerminateToken(t)
  PROVE  ScopeInv'
<1>. DEFINE nested == IF t = BodyToken(t[1]) THEN NodeScope(t[1]) ELSE None
            second == <<Call("endToken", t)>>
<1>1. /\ calls # <<>> /\ UNCHANGED <<state, pos, created, live, compensator, completions>>
      /\ waiting' \subseteq waiting
      /\ Then((IF nested = None THEN <<>> ELSE <<Call("terminate", nested)>>) \o second)
  BY DEF TerminateToken, Calling, CancelReception
<1>2. Call("endToken", t) \in CallRecord /\ Call("endToken", t).op # "execute"
      /\ CallOK(state', pos', Call("endToken", t))
  BY PlainCall DEF TokenOps
<1>3. nested # None => nested \in Instance /\ nested # Global
  <2>1. t[1] \in Instance
    BY DEF Token
  <2>2. \A n \in DOMAIN Body[t[1]] : Body[t[1]][n] \in Scope /\ Body[t[1]][n] # Global
    BY <2>1, ParentFacts, NestingAssumption DEF ToSet
  <2>3. 1 .. Len(Body[t[1]]) = DOMAIN Body[t[1]]
    BY <2>1, ScopeAssumption
  <2>. QED  BY <2>2, <2>3 DEF NodeScope, Instance
<1>. HIDE DEF nested
<1>4. CASE nested = None
  <2>1. Then(<<>> \o second)
    BY <1>1, <1>4
  <2>2. <<>> \o second = second
    OBVIOUS
  <2>3. Then(<<Call("endToken", t)>>)
    BY <2>1, <2>2
  <2>. QED  BY <1>1, <1>2, <2>3, SameRows, QuietStep1 DEF Then
<1>5. CASE nested # None
  <2>. DEFINE c == Call("terminate", nested)
              d == Call("endToken", t)
              more == <<c>> \o <<d>>
  <2>1. Then(more)
    BY <1>1, <1>5
  <2>2. c \in CallRecord /\ c.op # "execute" /\ CallOK(state', pos', c)
    <3>1. "terminate" \in InstanceOps
      BY DEF InstanceOps, Signals
    <3>2. c \in CallRecord /\ c.op = "terminate" /\ c.on = nested
      BY <1>3, <1>5, <3>1, CallTypes
    <3>. QED  BY <1>3, <1>5, <3>2 DEF CallOK
  <2>3. d \in CallRecord /\ d.op # "execute" /\ CallOK(state', pos', d)
    BY <1>2
  <2>. HIDE DEF c, d
  <2>4. more \in Seq(CallRecord) /\ DOMAIN more = {1, 2} /\ more[1] = c /\ more[2] = d
    BY <2>2, <2>3
  <2>5. \A n \in DOMAIN more : CallOK(state', pos', more[n]) /\ more[n].op # "execute"
    BY <2>2, <2>3, <2>4
  <2>. HIDE DEF more
  <2>. QED  BY <1>1, <2>1, <2>4, <2>5, SameRows, QuietStep DEF Then
<1>. QED  BY <1>4, <1>5

(* Tokens are created for an instance. *)
LEMMA NewTokens ==
  ASSUME ScopeInv, NEW new \in SUBSET Token, created' = created \cup new, live' \subseteq live \cup new,
         UNCHANGED <<state, compensator, completions>>, pos' \in [Instance -> Nat],
         \A p \in Instance : Ahead(pos', p) \subseteq Ahead(pos, p)
  PROVE  RowsOK(state', pos', created', live', compensator', completions')
  BY DEF ScopeInv, RowsOK

LEMMA ExecuteHandlerInv ==
  ASSUME ScopeInv, NEW i \in Instance, ExecuteHandler(i)
  PROVE  ScopeInv'
<1>. DEFINE t == <<i, "handler">>
            receives == HandlerActivity[Definition(i)] = "receive"
<1>1. /\ calls # <<>> /\ UNCHANGED <<state, pos, compensator, completions>>
      /\ created' = created \cup {t} /\ live' = live \cup {t} /\ waiting' \subseteq waiting \cup {t}
      /\ Then(IF receives THEN <<>> ELSE <<CompensateCall("compensateNext", i, ByActivity(i))>>)
  BY DEF ExecuteHandler, Calling
<1>2. t \in Token
  BY DEF Token
<1>3. /\ RowsOK(state', pos', created', live', compensator', completions')
      /\ created \subseteq created' /\ waiting' \subseteq created'
      /\ \A j \in Instance : state'[j] = "none" <=> state[j] = "none"
      /\ \A p \in Instance : Ahead(pos', p) \subseteq Ahead(pos, p)
  <2>1. pos' \in [Instance -> Nat] /\ \A p \in Instance : Ahead(pos', p) \subseteq Ahead(pos, p)
    BY <1>1 DEF ScopeInv, RowsOK
  <2>2. {t} \in SUBSET Token
    BY <1>2
  <2>3. RowsOK(state', pos', created', live', compensator', completions')
    BY <1>1, <2>1, <2>2, NewTokens
  <2>. QED  BY <1>1, <2>1, <2>3 DEF ScopeInv
<1>4. CASE receives
  <2>1. Then(<<>>)
    BY <1>1, <1>4
  <2>. QED  BY <1>1, <1>3, <2>1, QuietStep0 DEF Then
<1>5. CASE ~ receives
  <2>1. Then(<<CompensateCall("compensateNext", i, ByActivity(i))>>)
    BY <1>1, <1>5
  <2>2. ByActivity(i) \in Requestor
    BY <1>5 DEF ByActivity, Requestor
  <2>. QED  BY <1>1, <1>3, <2>1, <2>2, CompensateNextCall, QuietStep1 DEF Then
<1>. QED  BY <1>4, <1>5

(* The requestors search scopes other than the global one, and find one of *)
(* them or none.                                                           *)
LEMMA SearchedScopes ==
  ASSUME NEW by \in Requestor, NEW i \in Instance
  PROVE  SearchedBy(by, i) \subseteq Scope \ {Global}
<1>. DEFINE what == HandlerActivity[Definition(by.who)]
<1>1. /\ by.as \in {"scope", "activity"} /\ by.who \in Instance
      /\ by.as = "activity" => what # "receive"
  BY DEF Requestor
<1>2. Definition(by.who) \in Scope /\ Definition(i) \in Scope
  BY <1>1, ParentFacts
<1>3. what \in {"receive", "compensate"} \cup (Scope \ {Global})
  BY <1>2, ScopeAssumption
<1>4. CASE by.as = "scope"
  <2>1. SearchedBy(by, i) = FindNestedScopes[Definition(by.who)]
    BY <1>4 DEF SearchedBy
  <2>. QED  BY <1>2, <2>1, NestedScopes
<1>5. CASE by.as = "activity" /\ what = "compensate"
  <2>1. SearchedBy(by, i) = FindNestedScopes[Definition(i)]
    BY <1>5 DEF SearchedBy
  <2>. QED  BY <1>2, <2>1, NestedScopes
<1>6. CASE by.as = "activity" /\ what # "compensate"
  <2>1. SearchedBy(by, i) = FindNestedScopes[what] \cup {what}
    BY <1>6 DEF SearchedBy
  <2>2. what \in Scope \ {Global}
    BY <1>1, <1>3, <1>6
  <2>. HIDE DEF what
  <2>. QED  BY <2>1, <2>2, NestedScopes
<1>. QED  BY <1>1, <1>4, <1>5, <1>6

LEMMA NextCompensated ==
  ASSUME ScopeInv, NEW S, NextToCompensate(S) # None
  PROVE  NextToCompensate(S) \in S
<1>. DEFINE C == CompletedIn(S)
            N == {n \in DOMAIN completions : completions[n] \in C}
<1>1. C # {} /\ NextToCompensate(S) = CHOOSE c \in C : \A d \in C : CompletedAt(d) <= CompletedAt(c)
  BY DEF NextToCompensate
<1>2. C \subseteq S /\ \A c \in C : \E n \in DOMAIN completions : completions[n] = c
  BY DEF CompletedIn, ToSet
<1>. HIDE DEF C
<1>3. \A c \in C : CompletedAt(c) \in DOMAIN completions /\ completions[CompletedAt(c)] = c
  BY <1>2 DEF CompletedAt
<1>4. /\ completions \in Seq(Instance)
      /\ \A n, m \in DOMAIN completions : completions[n] = completions[m] => n = m
  BY DEF ScopeInv, RowsOK, IsInjective
<1>5. N \in SUBSET Nat /\ N # {} /\ \A n \in N : n <= Len(completions)
  BY <1>1, <1>3, <1>4
<1>6. PICK x \in N : \A y \in N : y <= x
  <2>1. Len(completions) \in Nat
    BY <1>4
  <2>. HIDE DEF N
  <2>. QED  BY <1>5, <2>1, NatMax
<1>7. CompletedAt(completions[x]) = x
  BY <1>3, <1>4, <1>6
<1>8. \A d \in C : CompletedAt(d) <= CompletedAt(completions[x])
  BY <1>3, <1>6, <1>7
<1>9. \E c \in C : \A d \in C : CompletedAt(d) <= CompletedAt(c)
  BY <1>6, <1>8
<1>. QED  BY <1>1, <1>2, <1>9

LEMMA CompensateNextInv ==
  ASSUME ScopeInv, NEW i \in Instance, CompensateNext(i)
  PROVE  ScopeInv'
<1>. DEFINE by == Head(calls).by
            next == NextToCompensate(SearchedBy(by, i))
<1>1. /\ calls # <<>> /\ Head(calls).op = "compensateNext" /\ UNCHANGED data
      /\ Then(<<CASE next # None -> CompensateCall("compensate", next, by)
                  [] next = None /\ by.as = "scope" -> Call("childrenCompensated", by.who)
                  [] OTHER -> CompensateCall("leaveHandler", ResumedBy(by, i), i)>>)
  BY DEF CompensateNext, Calling
<1>2. by \in Requestor
  BY <1>1, HeadCall DEF ScopeInv, CallOK
<1>3. by.who \in Instance
  BY <1>2 DEF Requestor
<1>4. next # None => next \in Instance /\ next # Global
  <2>1. next # None => next \in SearchedBy(by, i)
    BY NextCompensated
  <2>. QED  BY <1>2, <2>1, SearchedScopes DEF Instance
<1>5. ASSUME NEW c \in CallRecord, Then(<<c>>), CallOK(state', pos', c), c.op # "execute"
      PROVE  ScopeInv'
  <2>1. /\ UNCHANGED <<state, pos, created, compensator, completions>> /\ live' \subseteq live
        /\ waiting' \subseteq waiting
    BY <1>1 DEF data, rows
  <2>. QED  BY <1>1, <1>5, <2>1, SameRows, QuietStep1 DEF Then
<1>. HIDE DEF by, next
<1>6. CASE next # None
  <2>1. Then(<<CompensateCall("compensate", next, by)>>)
    BY <1>1, <1>6 DEF Then
  <2>2. "compensate" \in InstanceOps
    BY DEF InstanceOps, Signals
  <2>3. /\ CompensateCall("compensate", next, by) \in CallRecord
        /\ CompensateCall("compensate", next, by).op = "compensate"
        /\ CompensateCall("compensate", next, by).on = next
        /\ CompensateCall("compensate", next, by).by = by
    BY <1>2, <1>4, <1>6, <2>2, CallTypes
  <2>4. CallOK(state', pos', CompensateCall("compensate", next, by))
    BY <1>2, <1>4, <1>6, <2>3 DEF CallOK
  <2>. QED  BY <1>5, <2>1, <2>3, <2>4
<1>7. CASE next = None /\ by.as = "scope"
  <2>1. Then(<<Call("childrenCompensated", by.who)>>)
    BY <1>1, <1>7 DEF Then
  <2>2. "childrenCompensated" \in PlainOps
    BY DEF PlainOps
  <2>. QED  BY <1>3, <1>5, <2>1, <2>2, PlainCall
<1>8. CASE next = None /\ by.as # "scope"
  <2>. DEFINE c == CompensateCall("leaveHandler", ResumedBy(by, i), i)
  <2>1. Then(<<c>>)
    BY <1>1, <1>8 DEF Then
  <2>2. ResumedBy(by, i) \in Instance /\ "leaveHandler" \in InstanceOps
    BY <1>3 DEF ResumedBy, InstanceOps
  <2>3. c \in CallRecord /\ c.op = "leaveHandler"
    BY <2>2, CallTypes
  <2>4. CallOK(state', pos', c)
    BY <2>3 DEF CallOK
  <2>. QED  BY <1>5, <2>1, <2>3, <2>4
<1>. QED  BY <1>6, <1>7, <1>8
-----------------------------------------------------------------------------
(* Execution of bodies. *)

(* A body goes on. *)
LEMMA NextPosition ==
  ASSUME ScopeInv, NEW i \in Instance, pos' = [pos EXCEPT ![i] = pos[i] + 1]
  PROVE  /\ pos \in [Instance -> Nat] /\ pos' \in [Instance -> Nat]
         /\ \A p \in Instance : Ahead(pos', p) \subseteq Ahead(pos, p)
         /\ i \in Flow => Ahead(pos', i) = {}
         /\ i \notin Flow => \A n \in Ahead(pos', i) : n # pos[i] + 1
<1>1. pos \in [Instance -> Nat] /\ pos' \in [Instance -> Nat]
  BY DEF ScopeInv, RowsOK
<1>2. \A p \in Instance : pos[p] \in Nat /\ pos'[p] = IF p = i THEN pos[i] + 1 ELSE pos[p]
  BY <1>1
<1>3. \A p \in Instance : DOMAIN Body[p] \subseteq Nat
  BY ScopeAssumption
<1>4. \A p \in Instance : Ahead(pos', p) \subseteq Ahead(pos, p)
  BY <1>2, <1>3 DEF Ahead
<1>5. i \in Flow => Ahead(pos', i) = {}
  BY <1>2 DEF Ahead
<1>6. i \notin Flow => \A n \in Ahead(pos', i) : n # pos[i] + 1
  BY <1>2, <1>3 DEF Ahead
<1>. QED  BY <1>1, <1>4, <1>5, <1>6

LEMMA ExecuteInv ==
  ASSUME ScopeInv, NEW s \in Scope, Execute(s)
  PROVE  ScopeInv'
<1>. DEFINE new == {<<s, "scope">>, <<s, "primary">>} \cup EnableEvents(s)
<1>1. /\ calls # <<>> /\ Head(calls).op = "execute" /\ Head(calls).on = s
      /\ state' = [state EXCEPT ![s] = "AP"] /\ created' = created \cup new /\ live' = live \cup new
      /\ waiting' = waiting \cup EnableEvents(s) /\ UNCHANGED <<pos, compensator, completions>>
      /\ Then(<<Call("advance", s)>>)
  BY DEF Execute, Calling
<1>2. s \in Instance /\ new \subseteq Token /\ EnableEvents(s) \subseteq new
  BY DEF Instance, Token, EnableEvents
<1>3. /\ state[s] = "none" /\ (s # Global => state[Parent[s]] # "none")
      /\ \A p \in Instance : \A n \in Ahead(pos, p) : Body[p][n] # s
  BY <1>1, HeadCall DEF ScopeInv, CallOK
<1>4. /\ "AP" \in ScopeState /\ "AP" \in Active /\ "AP" \notin Terminating \cup Compensating
      /\ "AP" # "none"
  BY DEF ScopeState, Active, Terminating, Compensating
<1>5. /\ state' \in [Instance -> ScopeState \cup {"none"}]
      /\ state'[s] = "AP" /\ \A j \in Instance : j # s => state'[j] = state[j]
  BY <1>1, <1>2, <1>4 DEF ScopeInv, RowsOK
<1>6. RowsOK(state', pos', created', live', compensator', completions')
  <2>1. /\ pos' \in [Instance -> Nat] /\ created' \subseteq Token /\ live' \subseteq created'
        /\ compensator' \in [Instance -> Requestor \cup {None}] /\ completions' \in Seq(Instance)
    BY <1>1, <1>2 DEF ScopeInv, RowsOK
  <2>2. IsInjective(completions')
    BY <1>1, Zenon DEF ScopeInv, RowsOK
  <2>3. ASSUME NEW j \in Instance
        PROVE  /\ state'[j] # "none" => {<<j, "scope">>, <<j, "primary">>} \subseteq created'
               /\ state'[j] # "none" /\ j # Global => state'[Parent[j]] # "none"
               /\ state'[j] \in Active \cup {"none"} => j \notin ToSet(completions')
               /\ state'[j] \in Compensating => compensator'[j] \in Requestor /\ j # Global
               /\ state'[j] \in Terminating => j # Global
               /\ \A n \in Ahead(pos', j) : state'[Body[j][n]] = "none"
    <3>1. /\ state[j] # "none" => {<<j, "scope">>, <<j, "primary">>} \subseteq created
          /\ state[j] # "none" /\ j # Global => state[Parent[j]] # "none"
          /\ state[j] \in Active \cup {"none"} => j \notin ToSet(completions)
          /\ state[j] \in Compensating => compensator[j] \in Requestor /\ j # Global
          /\ state[j] \in Terminating => j # Global
          /\ \A n \in Ahead(pos, j) : state[Body[j][n]] = "none"
      BY DEF ScopeInv, RowsOK
    <3>2. state'[j] # "none" => {<<j, "scope">>, <<j, "primary">>} \subseteq created'
      BY <1>1, <1>5, <3>1
    <3>3. state'[j] # "none" /\ j # Global => state'[Parent[j]] # "none"
      BY <1>3, <1>4, <1>5, <3>1, ParentFacts
    <3>4. state'[j] \in Active \cup {"none"} => j \notin ToSet(completions')
      BY <1>1, <1>3, <1>5, <3>1
    <3>5. /\ state'[j] \in Compensating => compensator'[j] \in Requestor /\ j # Global
          /\ state'[j] \in Terminating => j # Global
      BY <1>1, <1>4, <1>5, <3>1
    <3>6. \A n \in Ahead(pos', j) : state'[Body[j][n]] = "none"
      <4>1. \A n \in Ahead(pos, j) : Body[j][n] \in Instance
        BY ParentFacts DEF Ahead, Instance
      <4>. QED  BY <1>1, <1>3, <1>5, <3>1, <4>1
    <3>. QED  BY <3>2, <3>3, <3>4, <3>5, <3>6
  <2>. QED  BY <1>5, <2>1, <2>2, <2>3 DEF RowsOK
<1>7. ASSUME NEW n \in DOMAIN calls, n # 1 PROVE CallOK(state', pos', calls[n])
  <2>1. /\ calls[n] \in CallRecord /\ CallOK(state, pos, calls[n])
        /\ calls[n].op = "execute" => calls[n].on # s
    <3>1. 1 \in DOMAIN calls /\ calls[1] = Head(calls)
      BY <1>1, HeadCall DEF ScopeInv
    <3>. QED  BY <1>1, <1>7, <3>1 DEF ScopeInv, CallsOK
  <2>2. calls[n].op = "execute" =>
          /\ calls[n].on \in Scope /\ state'[calls[n].on] = "none"
          /\ calls[n].on # Global => state'[Parent[calls[n].on]] # "none"
          /\ \A p \in Instance : \A k \in Ahead(pos', p) : Body[p][k] # calls[n].on
    BY <1>1, <1>4, <1>5, <2>1, ParentFacts DEF CallOK, Instance
  <2>3. calls[n].op \in {"advance", "leave"} => state'[calls[n].on] # "none"
    BY <1>4, <1>5, <2>1 DEF CallOK, CallRecord, TokenOps
  <2>. QED  BY <2>1, <2>2, <2>3 DEF CallOK
<1>. DEFINE c == Call("advance", s)
            more == <<c>>
<1>8. c \in CallRecord /\ c.op = "advance" /\ c.on = s
  <2>1. "advance" \in InstanceOps
    BY DEF InstanceOps
  <2>. QED  BY <1>2, <2>1, CallTypes
<1>9. CallOK(state', pos', c)
  BY <1>4, <1>5, <1>8 DEF CallOK
<1>10. Then(more)
  BY <1>1
<1>. HIDE DEF c
<1>11. more \in Seq(CallRecord) /\ DOMAIN more = {1} /\ more[1] = c
  BY <1>8
<1>12. created \subseteq created' /\ waiting' \subseteq created'
  BY <1>1, <1>2 DEF ScopeInv
<1>. HIDE DEF more
<1>. QED  BY <1>1, <1>6, <1>7, <1>8, <1>9, <1>10, <1>11, <1>12, StepInv DEF Then

LEMMA LeaveInv ==
  ASSUME ScopeInv, NEW s \in Scope, Leave(s)
  PROVE  ScopeInv'
<1>. DEFINE c == Call("advance", Parent[s])
<1>1. /\ calls # <<>> /\ Head(calls).op = "leave" /\ Head(calls).on = s
      /\ UNCHANGED <<state, pos, created, waiting, compensator, completions>>
      /\ live' \subseteq live
  BY DEF Leave, Calling
<1>2. Then(<<c>>) \/ Then(<<>>)
  BY DEF Leave
<1>3. state[s] # "none" /\ s # Global
  BY <1>1, HeadCall DEF ScopeInv, CallOK
<1>4. Parent[s] \in Instance /\ state[Parent[s]] # "none"
  BY <1>3, ParentFacts DEF ScopeInv, RowsOK, Instance
<1>5. c \in CallRecord /\ c.op = "advance" /\ c.on = Parent[s]
  <2>1. "advance" \in InstanceOps
    BY DEF InstanceOps
  <2>. QED  BY <1>4, <2>1, CallTypes
<1>6. CallOK(state', pos', c)
  BY <1>1, <1>4, <1>5 DEF CallOK
<1>7. CASE Then(<<c>>)
  BY <1>1, <1>5, <1>6, <1>7, SameRows, QuietStep1 DEF Then
<1>8. CASE Then(<<>>)
  BY <1>1, <1>8, SameRows, QuietStep0 DEF Then
<1>. QED  BY <1>2, <1>7, <1>8

LEMMA AdvanceToReceiveInv ==
  ASSUME ScopeInv, NEW i \in Instance, AdvanceToReceive(i)
  PROVE  ScopeInv'
<1>1. /\ calls # <<>> /\ Head(calls).op = "advance" /\ Head(calls).on = i
      /\ pos' = [pos EXCEPT ![i] = pos[i] + 1] /\ waiting' = waiting \cup {BodyToken(i)}
      /\ Then(<<>>) /\ UNCHANGED <<state, created, live, compensator, completions>>
  BY DEF AdvanceToReceive, Calling
<1>2. state[i] # "none"
  BY <1>1, HeadCall DEF ScopeInv, CallOK
<1>3. BodyToken(i) \in created
  BY <1>2 DEF ScopeInv, RowsOK, BodyToken
<1>4. pos' \in [Instance -> Nat] /\ \A p \in Instance : Ahead(pos', p) \subseteq Ahead(pos, p)
  BY <1>1, NextPosition
<1>5. RowsOK(state', pos', created', live', compensator', completions')
  <2>1. created' = created \cup {} /\ live' \subseteq live \cup {} /\ {} \in SUBSET Token
    BY <1>1
  <2>. QED  BY <1>1, <1>4, <2>1, NewTokens
<1>6. waiting' \subseteq created' /\ created \subseteq created'
  BY <1>1, <1>3 DEF ScopeInv
<1>. QED  BY <1>1, <1>4, <1>5, <1>6, QuietStep0 DEF Then

(* The scopes that are entered have not been entered before, and each is   *)
(* entered once.                                                           *)
LEMMA EnteredScopes ==
  ASSUME ScopeInv, NEW i \in Instance, pos[i] + 1 <= Steps(i),
         pos' = [pos EXCEPT ![i] = pos[i] + 1]
  PROVE  LET entered == EnteredAt(i, pos[i] + 1)
         IN  /\ entered \in Seq(Scope)
             /\ \A n, m \in DOMAIN entered : entered[n] = entered[m] => n = m
             /\ \A n \in DOMAIN entered :
                  /\ \E k \in Ahead(pos, i) : entered[n] = Body[i][k]
                  /\ \A p \in Instance : \A k \in Ahead(pos', p) : Body[p][k] # entered[n]
<1>1. /\ pos[i] \in Nat /\ \A p \in Instance : Ahead(pos', p) \subseteq Ahead(pos, p)
      /\ i \in Flow => Ahead(pos', i) = {}
      /\ i \notin Flow => \A n \in Ahead(pos', i) : n # pos[i] + 1
  BY NextPosition
<1>2. Body[i] \in Seq(Scope) /\ DOMAIN Body[i] = 1 .. Len(Body[i]) /\ Len(Body[i]) \in Nat
  BY ScopeAssumption
<1>3. \A p \in Instance : \A n \in DOMAIN Body[p], m \in DOMAIN Body[i] :
        Body[p][n] = Body[i][m] => p = i /\ n = m
  BY NestingAssumption
<1>4. \A p \in Instance : Ahead(pos', p) \subseteq DOMAIN Body[p]
  BY DEF Ahead
<1>5. CASE i \in Flow
  <2>1. pos[i] = 0 /\ EnteredAt(i, pos[i] + 1) = Body[i] /\ Ahead(pos, i) = DOMAIN Body[i]
    BY <1>1, <1>5 DEF Steps, EnteredAt, Ahead
  <2>2. ASSUME NEW n \in DOMAIN Body[i], NEW p \in Instance, NEW k \in Ahead(pos', p)
        PROVE  Body[p][k] # Body[i][n]
    BY <1>1, <1>3, <1>4, <1>5, <2>2
  <2>3. \A n, m \in DOMAIN Body[i] : Body[i][n] = Body[i][m] => n = m
    BY <1>3
  <2>. DEFINE entered == EnteredAt(i, pos[i] + 1)
  <2>4. entered = Body[i]
    BY <2>1
  <2>. HIDE DEF entered
  <2>5. /\ entered \in Seq(Scope)
        /\ \A n, m \in DOMAIN entered : entered[n] = entered[m] => n = m
        /\ \A n \in DOMAIN entered :
             /\ \E k \in Ahead(pos, i) : entered[n] = Body[i][k]
             /\ \A p \in Instance : \A k \in Ahead(pos', p) : Body[p][k] # entered[n]
    <3>1. Body[i] \in Seq(Scope)
      BY <1>2
    <3>2. entered \in Seq(Scope)
      BY <2>4, <3>1, Zenon
    <3>3. \A n, m \in DOMAIN entered : entered[n] = entered[m] => n = m
      BY <2>3, <2>4, Zenon
    <3>4. ASSUME NEW n \in DOMAIN entered
          PROVE  /\ \E k \in Ahead(pos, i) : entered[n] = Body[i][k]
                 /\ \A p \in Instance : \A k \in Ahead(pos', p) : Body[p][k] # entered[n]
      <4>1. n \in DOMAIN Body[i] /\ entered[n] = Body[i][n]
        BY <2>4, Zenon
      <4>2. \E k \in Ahead(pos, i) : entered[n] = Body[i][k]
        BY <2>1, <4>1
      <4>3. ASSUME NEW p \in Instance, NEW k \in Ahead(pos', p) PROVE Body[p][k] # entered[n]
        BY <2>2, <4>1
      <4>. QED  BY <4>2, <4>3
    <3>. QED  BY <3>2, <3>3, <3>4
  <2>. QED  BY <2>5 DEF entered
<1>6. CASE i \notin Flow
  <2>. DEFINE k == pos[i] + 1
  <2>1. k \in DOMAIN Body[i] /\ k \in Ahead(pos, i) /\ EnteredAt(i, k) = <<Body[i][k]>>
    BY <1>1, <1>2, <1>6 DEF Steps, EnteredAt, Ahead
  <2>2. ASSUME NEW p \in Instance, NEW m \in Ahead(pos', p) PROVE Body[p][m] # Body[i][k]
    <3>1. m \in DOMAIN Body[p]
      BY <1>4
    <3>2. Body[p][m] = Body[i][k] => p = i /\ m = k
      BY <1>3, <2>1, <3>1
    <3>3. p = i => m # k
      BY <1>1, <1>6
    <3>. QED  BY <3>2, <3>3
  <2>3. Body[i][k] \in Scope
    BY <1>2, <2>1
  <2>. HIDE DEF k
  <2>4. /\ EnteredAt(i, k) \in Seq(Scope) /\ DOMAIN EnteredAt(i, k) = {1}
        /\ EnteredAt(i, k)[1] = Body[i][k]
    BY <2>1, <2>3
  <2>5. /\ \A n, m \in DOMAIN EnteredAt(i, k) : EnteredAt(i, k)[n] = EnteredAt(i, k)[m] => n = m
        /\ \A n \in DOMAIN EnteredAt(i, k) :
             /\ \E l \in Ahead(pos, i) : EnteredAt(i, k)[n] = Body[i][l]
             /\ \A p \in Instance : \A l \in Ahead(pos', p) : Body[p][l] # EnteredAt(i, k)[n]
    BY <2>1, <2>2, <2>4
  <2>. QED  BY <2>4, <2>5 DEF k
<1>. QED  BY <1>5, <1>6

LEMMA AdvanceToScopeInv ==
  ASSUME ScopeInv, NEW i \in Instance, AdvanceToScope(i)
  PROVE  ScopeInv'
<1>. DEFINE new == IF i \in Flow THEN {<<c, "concurrent">> : c \in ToSet(Body[i])} ELSE {}
            entered == EnteredAt(i, pos[i] + 1)
            more == [n \in DOMAIN entered |-> Call("execute", entered[n])]
<1>1. /\ calls # <<>> /\ Head(calls).op = "advance" /\ Head(calls).on = i
      /\ pos[i] + 1 <= Steps(i) /\ pos' = [pos EXCEPT ![i] = pos[i] + 1]
      /\ created' = created \cup new /\ live' = live \cup new
      /\ Then(more) /\ UNCHANGED <<state, waiting, compensator, completions>>
  BY DEF AdvanceToScope, Calling
<1>2. state[i] # "none"
  BY <1>1, HeadCall DEF ScopeInv, CallOK
<1>3. new \in SUBSET Token
  BY ParentFacts DEF Token, ToSet, Instance
<1>4. pos' \in [Instance -> Nat] /\ \A p \in Instance : Ahead(pos', p) \subseteq Ahead(pos, p)
  BY <1>1, NextPosition
<1>. HIDE DEF new
<1>5. /\ RowsOK(state', pos', created', live', compensator', completions')
      /\ created \subseteq created' /\ waiting' \subseteq created'
  <2>1. RowsOK(state', pos', created', live', compensator', completions')
    BY <1>1, <1>3, <1>4, NewTokens
  <2>. QED  BY <1>1, <2>1 DEF ScopeInv
<1>6. /\ entered \in Seq(Scope)
      /\ \A n, m \in DOMAIN entered : entered[n] = entered[m] => n = m
      /\ \A n \in DOMAIN entered :
           /\ \E k \in Ahead(pos, i) : entered[n] = Body[i][k]
           /\ \A p \in Instance : \A k \in Ahead(pos', p) : Body[p][k] # entered[n]
  BY <1>1, EnteredScopes
<1>. HIDE DEF entered
<1>7. \A n \in DOMAIN entered :
        /\ entered[n] \in Scope /\ state[entered[n]] = "none" /\ Parent[entered[n]] = i
  <2>. SUFFICES ASSUME NEW n \in DOMAIN entered
                PROVE  entered[n] \in Scope /\ state[entered[n]] = "none" /\ Parent[entered[n]] = i
    OBVIOUS
  <2>1. PICK k \in Ahead(pos, i) : entered[n] = Body[i][k]
    BY <1>6
  <2>2. k \in DOMAIN Body[i]
    BY DEF Ahead
  <2>3. state[Body[i][k]] = "none"
    BY DEF ScopeInv, RowsOK
  <2>. QED  BY <2>1, <2>2, <2>3, ParentFacts
<1>8. \A n \in DOMAIN entered :
        /\ Call("execute", entered[n]) \in CallRecord
        /\ Call("execute", entered[n]).op = "execute" /\ Call("execute", entered[n]).on = entered[n]
  <2>1. "execute" \in InstanceOps
    BY DEF InstanceOps
  <2>. QED  BY <1>7, <2>1, CallTypes DEF Instance
<1>9. /\ more \in Seq(CallRecord) /\ DOMAIN more = DOMAIN entered
      /\ \A n \in DOMAIN entered : more[n].op = "execute" /\ more[n].on = entered[n]
  <2>1. DOMAIN entered = 1 .. Len(entered) /\ Len(entered) \in Nat
    BY <1>6
  <2>2. more \in [1 .. Len(entered) -> CallRecord]
    BY <1>8, <2>1
  <2>. QED  BY <1>8, <2>1, <2>2
<1>. HIDE DEF more
<1>10. \A n \in DOMAIN more : CallOK(state', pos', more[n])
  <2>. SUFFICES ASSUME NEW n \in DOMAIN more PROVE CallOK(state', pos', more[n])
    OBVIOUS
  <2>1. /\ more[n].op = "execute" /\ more[n].on \in Scope /\ state'[more[n].on] = "none"
        /\ state'[Parent[more[n].on]] # "none"
        /\ \A p \in Instance : \A k \in Ahead(pos', p) : Body[p][k] # more[n].on
    <3>1. n \in DOMAIN entered /\ more[n].op = "execute" /\ more[n].on = entered[n]
      BY <1>9
    <3>2. \A p \in Instance : \A k \in Ahead(pos', p) : Body[p][k] # entered[n]
      BY <1>6, <3>1
    <3>3. entered[n] \in Scope /\ state[entered[n]] = "none" /\ Parent[entered[n]] = i
      BY <1>7, <3>1
    <3>. QED  BY <1>1, <1>2, <3>1, <3>2, <3>3
  <2>. QED  BY <2>1 DEF CallOK
<1>11. ASSUME NEW n \in DOMAIN calls PROVE CallOK(state', pos', calls[n])
  <2>1. calls[n] \in CallRecord /\ CallOK(state, pos, calls[n])
    BY DEF ScopeInv, CallsOK
  <2>. QED  BY <1>1, <1>4, <2>1 DEF CallOK
<1>12. ASSUME NEW n \in DOMAIN more, NEW m \in DOMAIN calls, calls[m].op = "execute"
       PROVE  more[n].on # calls[m].on
  <2>1. \A p \in Instance : \A k \in Ahead(pos, p) : Body[p][k] # calls[m].on
    BY <1>12 DEF ScopeInv, CallsOK, CallOK
  <2>2. \E k \in Ahead(pos, i) : more[n].on = Body[i][k]
    BY <1>6, <1>9
  <2>. QED  BY <2>1, <2>2
<1>13. \A n, m \in DOMAIN more :
         more[n].op = "execute" /\ more[m].op = "execute" /\ more[n].on = more[m].on => n = m
  BY <1>6, <1>9
<1>. QED  BY <1>1, <1>5, <1>9, <1>10, <1>11, <1>12, <1>13, StepInv DEF Then
-----------------------------------------------------------------------------
(* Transactions. *)

(* A transaction begins: the database holds the rows of before. *)
LEMMA BeginInv ==
  ASSUME ScopeInv, NEW c \in CallRecord, NEW t, Begin(c, t), orphaned' = orphaned,
         {t} \ {None} \subseteq created, created \subseteq created', waiting' \subseteq waiting,
         RowsOK(state', pos', created', live', compensator', completions'), CallOK(state', pos', c)
  PROVE  ScopeInv'
<1>1. saved' = [rows |-> rows, waiting |-> waiting, listener |-> t] /\ calls' = <<c>>
  BY DEF Begin
<1>2. /\ DOMAIN saved' = {"rows", "waiting", "listener"}
      /\ saved'.rows = rows /\ saved'.waiting = waiting /\ saved'.listener = t
  BY <1>1
<1>3. SavedOK'
  <2>1. /\ rows[1] = state /\ rows[2] = pos /\ rows[3] = created
        /\ rows[4] = live /\ rows[5] = compensator /\ rows[6] = completions
    BY DEF rows
  <2>2. RowsOK(state, pos, created, live, compensator, completions) /\ waiting \cup orphaned \subseteq created
    BY DEF ScopeInv
  <2>. QED  BY <1>2, <2>1, <2>2 DEF SavedOK
<1>4. saved' # <<>>
  <2>1. DOMAIN saved' # DOMAIN <<>>
    BY <1>2
  <2>. QED  BY <2>1
<1>5. CallsOK'
  <2>1. calls' \in Seq(CallRecord) /\ DOMAIN calls' = {1} /\ calls'[1] = c
    BY <1>1
  <2>2. \A n \in DOMAIN calls' : CallOK(state', pos', calls'[n])
    BY <2>1
  <2>. QED  BY <2>1, <2>2 DEF CallsOK
<1>6. (waiting \cup orphaned \subseteq created)'
  BY DEF ScopeInv
<1>. QED  BY <1>3, <1>4, <1>5, <1>6 DEF ScopeInv

LEMMA StartInv == ASSUME ScopeInv, Start PROVE ScopeInv'
<1>. DEFINE c == Call("execute", Global)
<1>1. /\ state[Global] = "none" /\ Begin(c, None) /\ orphaned' = orphaned
      /\ UNCHANGED <<state, pos, created, live, waiting, compensator, completions>>
  BY DEF Start, data, rows
<1>2. c \in CallRecord /\ c.op = "execute" /\ c.on = Global /\ Global \in Scope
  <2>1. "execute" \in InstanceOps /\ Global \in Instance /\ Global \in Scope
    BY ScopeAssumption DEF InstanceOps, Instance
  <2>. QED  BY <2>1, CallTypes
<1>3. \A p \in Instance : \A n \in Ahead(pos, p) : Body[p][n] # Global
  BY NestingAssumption DEF Ahead, ToSet
<1>4. CallOK(state', pos', c)
  BY <1>1, <1>2, <1>3 DEF CallOK
<1>5. RowsOK(state', pos', created', live', compensator', completions')
  BY <1>1 DEF ScopeInv
<1>. HIDE DEF c
<1>. QED  BY <1>1, <1>2, <1>4, <1>5, BeginInv

LEMMA MessageReceivedInv ==
  ASSUME ScopeInv, NEW t \in Token, MessageReceived(t)
  PROVE  ScopeInv'
<1>1. PICK op \in {"completed", "faulted"} : Begin(Call(op, t[1]), t)
  BY DEF MessageReceived
<1>2. /\ t \in waiting \cup orphaned /\ waiting' \subseteq waiting /\ orphaned' = orphaned
      /\ UNCHANGED <<state, pos, created, live, compensator, completions>>
  BY DEF MessageReceived, rows
<1>3. op \in PlainOps /\ t[1] \in Instance
  BY DEF PlainOps, Token
<1>4. Call(op, t[1]) \in CallRecord /\ CallOK(state', pos', Call(op, t[1]))
  BY <1>3, PlainCall
<1>5. {t} \ {None} \subseteq created
  BY <1>2 DEF ScopeInv
<1>6. RowsOK(state', pos', created', live', compensator', completions')
  BY <1>2 DEF ScopeInv
<1>. QED  BY <1>1, <1>2, <1>4, <1>5, <1>6, BeginInv

LEMMA EventReceivedInv ==
  ASSUME ScopeInv, NEW s \in Scope, NEW e \in Event, EventReceived(s, e)
  PROVE  ScopeInv'
<1>. DEFINE c == Call("advance", e)
            new == {<<e, "scope">>, <<e, "primary">>}
<1>1. /\ e \in OnEvents[s] /\ state[s] = "AP" /\ state[e] = "none" /\ Begin(c, None)
      /\ state' = [state EXCEPT ![e] = "AP"] /\ created' = created \cup new /\ live' = live \cup new
      /\ UNCHANGED <<pos, waiting, orphaned, compensator, completions>>
  BY DEF EventReceived
<1>2. /\ e \in Instance /\ e # Global /\ e \notin Scope /\ Parent[e] = s /\ s \in Instance
      /\ new \subseteq Token
  BY <1>1, ParentFacts, ScopeAssumption DEF Instance, Token
<1>3. /\ "AP" \in ScopeState /\ "AP" \in Active /\ "AP" \notin Terminating \cup Compensating
      /\ "AP" # "none"
  BY DEF ScopeState, Active, Terminating, Compensating
<1>4. /\ state' \in [Instance -> ScopeState \cup {"none"}]
      /\ state'[e] = "AP" /\ \A j \in Instance : j # e => state'[j] = state[j]
  BY <1>1, <1>2, <1>3 DEF ScopeInv, RowsOK
<1>5. RowsOK(state', pos', created', live', compensator', completions')
  <2>1. /\ pos' \in [Instance -> Nat] /\ created' \subseteq Token /\ live' \subseteq created'
        /\ compensator' \in [Instance -> Requestor \cup {None}] /\ completions' \in Seq(Instance)
    BY <1>1, <1>2 DEF ScopeInv, RowsOK
  <2>2. IsInjective(completions')
    BY <1>1, Zenon DEF ScopeInv, RowsOK
  <2>3. ASSUME NEW j \in Instance
        PROVE  /\ state'[j] # "none" => {<<j, "scope">>, <<j, "primary">>} \subseteq created'
               /\ state'[j] # "none" /\ j # Global => state'[Parent[j]] # "none"
               /\ state'[j] \in Active \cup {"none"} => j \notin ToSet(completions')
               /\ state'[j] \in Compensating => compensator'[j] \in Requestor /\ j # Global
               /\ state'[j] \in Terminating => j # Global
               /\ \A n \in Ahead(pos', j) : state'[Body[j][n]] = "none"
    <3>1. /\ state[j] # "none" => {<<j, "scope">>, <<j, "primary">>} \subseteq created
          /\ state[j] # "none" /\ j # Global => state[Parent[j]] # "none"
          /\ state[j] \in Active \cup {"none"} => j \notin ToSet(completions)
          /\ state[j] \in Compensating => compensator[j] \in Requestor /\ j # Global
          /\ state[j] \in Terminating => j # Global
          /\ \A n \in Ahead(pos, j) : state[Body[j][n]] = "none"
      BY DEF ScopeInv, RowsOK
    <3>2. state'[j] # "none" => {<<j, "scope">>, <<j, "primary">>} \subseteq created'
      BY <1>1, <1>4, <3>1
    <3>3. state'[j] # "none" /\ j # Global => state'[Parent[j]] # "none"
      BY <1>1, <1>2, <1>3, <1>4, <3>1, ParentFacts
    <3>4. state'[j] \in Active \cup {"none"} => j \notin ToSet(completions')
      BY <1>1, <1>4, <3>1
    <3>5. /\ state'[j] \in Compensating => compensator'[j] \in Requestor /\ j # Global
          /\ state'[j] \in Terminating => j # Global
      BY <1>1, <1>3, <1>4, <3>1
    <3>6. \A n \in Ahead(pos', j) : state'[Body[j][n]] = "none"
      <4>1. \A n \in Ahead(pos, j) : Body[j][n] \in Scope
        BY ParentFacts DEF Ahead
      <4>. QED  BY <1>1, <1>2, <1>4, <3>1, <4>1 DEF Instance
    <3>. QED  BY <3>2, <3>3, <3>4, <3>5, <3>6
  <2>. QED  BY <1>4, <2>1, <2>2, <2>3 DEF RowsOK
<1>6. c \in CallRecord /\ c.op = "advance" /\ c.on = e
  <2>1. "advance" \in InstanceOps
    BY DEF InstanceOps
  <2>. QED  BY <1>2, <2>1, CallTypes
<1>7. CallOK(state', pos', c)
  BY <1>3, <1>4, <1>6 DEF CallOK
<1>. HIDE DEF c, new
<1>. QED  BY <1>1, <1>5, <1>6, <1>7, BeginInv

LEMMA CommitInv == ASSUME ScopeInv, Commit PROVE ScopeInv'
<1>1. /\ calls = <<>> /\ calls' = <<>> /\ saved' = <<>> /\ orphaned' \subseteq orphaned
      /\ UNCHANGED <<state, pos, created, live, waiting, compensator, completions>>
  BY DEF Commit, data, rows
<1>2. CallsOK'
  BY <1>1 DEF CallsOK
<1>. QED  BY <1>1, <1>2 DEF ScopeInv

LEMMA RollbackInv == ASSUME ScopeInv, Rollback PROVE ScopeInv'
<1>1. SavedOK
  BY DEF Rollback, ScopeInv
<1>2. RowsOK(state', pos', created', live', compensator', completions')
  BY <1>1 DEF SavedOK, Rollback
<1>3. (waiting \cup orphaned \subseteq created)'
  BY <1>1 DEF SavedOK, Rollback
<1>4. calls' = <<>> /\ saved' = <<>>
  BY DEF Rollback
<1>5. CallsOK'
  BY <1>4 DEF CallsOK
<1>. QED  BY <1>2, <1>3, <1>4, <1>5 DEF ScopeInv

-----------------------------------------------------------------------------
LEMMA InitInv == Init => ScopeInv
<1>. SUFFICES ASSUME Init PROVE ScopeInv
  OBVIOUS
<1>1. RowsOK(state, pos, created, live, compensator, completions)
  <2>1. IsInjective(completions) /\ ToSet(completions) = {}
    BY DEF Init, IsInjective, ToSet
  <2>2. \A i \in Instance : \A n \in Ahead(pos, i) : Body[i][n] \in Instance
    BY ParentFacts DEF Ahead, Instance
  <2>3. /\ state \in [Instance -> ScopeState \cup {"none"}] /\ pos \in [Instance -> Nat]
        /\ created \subseteq Token /\ live \subseteq created
        /\ compensator \in [Instance -> Requestor \cup {None}] /\ completions \in Seq(Instance)
    BY DEF Init
  <2>4. \A i \in Instance : state[i] = "none" /\ state[i] \notin Terminating \cup Compensating
    BY States DEF Init, ScopeState
  <2>. QED  BY <2>1, <2>2, <2>3, <2>4 DEF RowsOK
<1>2. CallsOK
  BY DEF Init, CallsOK
<1>. QED  BY <1>1, <1>2 DEF Init, ScopeInv

LEMMA NextInv == ScopeInv /\ [Next]_vars => ScopeInv'
<1>. SUFFICES ASSUME ScopeInv, [Next]_vars PROVE ScopeInv'
  OBVIOUS
<1>1. CASE Commit
  BY <1>1, CommitInv
<1>2. CASE Rollback
  BY <1>2, RollbackInv
<1>3. ASSUME NEW s \in Scope, Execute(s) \/ Leave(s) PROVE ScopeInv'
  BY <1>3, ExecuteInv, LeaveInv
<1>4. ASSUME NEW i \in Instance, AdvanceToScope(i) \/ AdvanceToReceive(i) \/ ExecuteHandler(i)
      PROVE  ScopeInv'
  BY <1>4, AdvanceToScopeInv, AdvanceToReceiveInv, ExecuteHandlerInv
<1>5. ASSUME NEW i \in Instance,
             \/ ActiveSignal(i) \/ FaultingSignal(i) \/ TerminatingSignal(i)
             \/ CompensatingSignal(i) \/ EndSignal(i)
      PROVE  ScopeInv'
  BY <1>5, ActiveSignalInv, FaultingSignalInv, TerminatingSignalInv, CompensatingSignalInv, EndSignalInv
<1>6. ASSUME NEW i \in Instance,
             \/ TerminateChildren(i) \/ TerminateEvents(i) \/ ScopeTerminated(i)
             \/ CompensateNext(i) \/ LeaveHandler(i)
      PROVE  ScopeInv'
  BY <1>6, TerminateChildrenInv, TerminateEventsInv, ScopeTerminatedInv, CompensateNextInv, LeaveHandlerInv
<1>7. ASSUME NEW t \in Token, TerminateToken(t) \/ EndToken(t) PROVE ScopeInv'
  BY <1>7, TerminateTokenInv, EndTokenInv
<1>8. CASE Start
  BY <1>8, StartInv
<1>9. ASSUME NEW t \in Token, MessageReceived(t) PROVE ScopeInv'
  BY <1>9, MessageReceivedInv
<1>10. ASSUME NEW s \in Scope, NEW e \in Event, EventReceived(s, e) PROVE ScopeInv'
  BY <1>10, EventReceivedInv
<1>11. CASE UNCHANGED vars
  BY <1>11 DEF vars, ScopeInv, SavedOK, CallsOK
<1>. QED  BY <1>1, <1>2, <1>3, <1>4, <1>5, <1>6, <1>7, <1>8, <1>9, <1>10, <1>11 DEF Next, Internal

LEMMA InductiveInvariant == Spec => []ScopeInv
  BY InitInv, NextInv, PTL DEF Spec

(* Whatever the nesting and the handlers of a process are, the rows of its *)
(* scope instances and tokens are of their types, listeners belong to      *)
(* tokens that exist, every signal goes to an instance or a token, and no  *)
(* scope instance completes twice: ScopeInstance and its states, Scope,    *)
(* the compensation activities and the rollback of a message.              *)
THEOREM TypesOfScopes == Spec => []TypeOK
<1>1. ScopeInv => TypeOK
  <2>. SUFFICES ASSUME ScopeInv PROVE TypeOK
    OBVIOUS
  <2>1. /\ state \in [Instance -> ScopeState \cup {"none"}] /\ pos \in [Instance -> Nat]
        /\ created \subseteq Token /\ live \subseteq created /\ waiting \cup orphaned \subseteq created
        /\ completions \in Seq(Instance)
    BY DEF ScopeInv, RowsOK
  <2>2. IsInjective(completions)
    BY Zenon DEF ScopeInv, RowsOK
  <2>3. \A n \in DOMAIN calls : calls[n] \in CallRecord
    BY DEF ScopeInv, CallsOK
  <2>4. \A c \in CallRecord : c.on \in Instance \cup Token
    BY DEF CallRecord
  <2>. QED  BY <2>1, <2>2, <2>3, <2>4 DEF TypeOK
<1>. QED  BY <1>1, InductiveInvariant, PTL
=============================================================================
