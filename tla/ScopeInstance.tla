--------------------------- MODULE ScopeInstance ---------------------------
(***************************************************************************)
(* The scopes of one BPEL process instance: org.jbpm.bpel.graph.exe (scope *)
(* instances, event instances and their states), graph.scope (scopes,      *)
(* handlers, compensate, compensateScope) and the tokens they run on.      *)
(*                                                                         *)
(* Every message from a partner is a transaction.  Within it scope         *)
(* instances signal each other by nested method calls; `calls' is the      *)
(* stack of the calls that are still to be made, the next one first.  A    *)
(* call that throws rolls the transaction back.                            *)
(*                                                                         *)
(* The primary activity of a scope, and the activity of an event handler,  *)
(* performs the nested scopes Body[i], in sequence or as a flow, and then  *)
(* a receive after which it completes or throws a fault.                   *)
(***************************************************************************)
EXTENDS Integers, Sequences, FiniteSets, SequencesExt

CONSTANTS
  Scope,                 \* the scopes of the process definition
  Event,                 \* the event handlers, each with its one instance
  Global,                \* the global scope
  Body,                  \* the scopes nested in a primary or event activity
  OnEvents,              \* the event handlers of a scope
  Flow,                  \* instances whose nested scopes run concurrently
  FaultHandlers,         \* scopes with a catchAll
  CompensationHandlers,  \* scopes with a compensation handler
  TerminationHandlers,   \* scopes with a termination handler
  HandlerActivity,       \* what the handlers of a scope do, see below
  None                   \* null

Instance == Scope \cup Event

ASSUME ScopeAssumption ==
  /\ Global \in Scope /\ Scope \cap Event = {} /\ None \notin Instance /\ IsFiniteSet(Event)
  /\ Body \in [Instance -> Seq(Scope)] /\ OnEvents \in [Scope -> SUBSET Event]
  /\ Flow \subseteq {i \in Instance : Body[i] # <<>>}
  /\ FaultHandlers \cup CompensationHandlers \cup TerminationHandlers \subseteq Scope
  /\ HandlerActivity \in [Scope -> {"receive", "compensate"} \cup (Scope \ {Global})]

(* The definition is a tree: the global scope encloses the others, each of *)
(* which has one place, as has each event handler.                         *)
ASSUME NestingAssumption ==
  /\ \A i \in Instance \ {Global} :
       \E p \in Instance : i \in ToSet(Body[p]) \/ (p \in Scope /\ i \in OnEvents[p])
  /\ \A p \in Instance : Global \notin ToSet(Body[p])
  /\ \A p, q \in Instance : \A n \in DOMAIN Body[p], m \in DOMAIN Body[q] :
       Body[p][n] = Body[q][m] => p = q /\ n = m
  /\ \A s, t \in Scope : OnEvents[s] \cap OnEvents[t] # {} => s = t

VARIABLES
  state,        \* state[i]: ScopeInstance.state, "none" before its creation
  pos,          \* pos[i]: the step of its body the instance has reached
  created,      \* the tokens that exist
  live,         \* those that have not ended
  waiting,      \* those with a listener in the integration control, not closed
  orphaned,     \* those with a listener that is open but not registered
  compensator,  \* compensator[i]: ScopeInstance.compensator
  completions,  \* scopes in the order of the end dates of their tokens
  calls,        \* the calls of the current transaction that are to be made
  saved         \* what the database holds while a transaction runs

rows == <<state, pos, created, live, compensator, completions>>
data == <<rows, waiting>>
vars == <<state, pos, created, live, waiting, orphaned, compensator, completions, calls, saved>>
-----------------------------------------------------------------------------
(* The states, by the names of their Java constants. *)
Active == {"AP", "AE"}
Faulting == {"FP", "FD", "FE", "FT"}
Terminating == {"TP", "TD", "TE", "TT"}
Compensating == {"CD", "CE", "CT"}
End == {"ET", "EC", "EA", "EF", "EX"}
ScopeState == Active \cup Faulting \cup Terminating \cup Compensating \cup End

(* ScopeState.isTerminable of each state. *)
Terminable == Active \cup {"FD", "FE", "TD", "TE"}

(***************************************************************************)
(* The scope instance whose token is the closest above that of i.          *)
(***************************************************************************)
Children(i) == ToSet(Body[i]) \cup (IF i \in Scope THEN OnEvents[i] ELSE {})
Parent == [i \in Instance |->
             IF \E p \in Instance : i \in Children(p)
             THEN CHOOSE p \in Instance : i \in Children(p)
             ELSE None]

(* An event instance has the definition of the scope it belongs to. *)
Definition(i) == IF i \in Event THEN Parent[i] ELSE i

(***************************************************************************)
(* The scopes nested in the primary activity of s at any depth.  Handlers  *)
(* are not searched.                                                       *)
(***************************************************************************)
FindNestedScopes ==
  LET nested(S) == UNION {ToSet(Body[t]) : t \in S}
  IN  [s \in Scope |-> {t \in Scope : \A S \in SUBSET Scope : nested(S \cup {s}) \subseteq S => t \in S}]

(***************************************************************************)
(* Tokens.  An instance has its own token, below it a primary token, and   *)
(* possibly a handler token and an events token.  A scope in a flow runs   *)
(* below a concurrent token of the flow.                                   *)
(***************************************************************************)
Token == Instance \X {"scope", "primary", "handler", "events", "concurrent"}

(* The token that performs the body of i: the activity of an event handler *)
(* runs on the token of the event instance itself.                         *)
BodyToken(i) == IF i \in Event THEN <<i, "scope">> ELSE <<i, "primary">>

ParentToken(t) ==
  LET i == t[1] p == Parent[t[1]]
  IN  CASE t[2] = "concurrent" -> BodyToken(p)
        [] t[2] = "scope" -> CASE p = None -> None
                               [] i \in Event -> <<p, "events">>
                               [] i \in Scope /\ p \in Flow -> <<i, "concurrent">>
                               [] OTHER -> BodyToken(p)
        [] OTHER -> <<i, "scope">>

(* The tokens above a token that may exist. *)
Above ==
  LET depth == 3 * Cardinality(Instance)
      up[k \in 0 .. depth, t \in Token] ==
        IF k = 0 \/ ParentToken(t) = None THEN {}
        ELSE {ParentToken(t)} \cup up[k - 1, ParentToken(t)]
  IN  [t \in {u \in Token : u[2] # "concurrent" \/ Parent[u[1]] \in Flow} |-> up[depth, t]]

(* Token.end ends a live token and the live tokens below it; it does not   *)
(* look below a token that has ended before.                               *)
EndedWith(t) ==
  IF t \notin live THEN {}
  ELSE {t} \cup {u \in live : t \in Above[u] /\ {v \in Above[u] : t \in Above[v]} \subseteq live}

(***************************************************************************)
(* The instance that a token moves.                                        *)
(***************************************************************************)
Steps(i) == IF i \in Flow THEN 1 ELSE Len(Body[i])
EnteredAt(i, n) == IF i \in Flow THEN Body[i] ELSE <<Body[i][n]>>

(* The nested scope that is the node of the body token, if one is.  While  *)
(* a flow runs, the node is the Begin delimiter of the flow.               *)
NodeScope(i) == IF i \notin Flow /\ pos[i] \in 1 .. Len(Body[i]) THEN Body[i][pos[i]] ELSE None

(* hasTerminableChildren and hasPendingEvents, given the states. *)
HasTerminableChildren(st, i) == \E c \in Children(i) : st[c] \in Terminable

(* Mutant: the scope does not wait for its event handlers. *)
EventsNotAwaited(st, i) == FALSE
HasPendingEvents(st, i) == i \in Scope /\ \E e \in OnEvents[i] : st[e] \notin End \cup {"none"}

(* ScopeSession.findNextScopeToCompensate: of the completed instances of   *)
(* the given scopes the one whose token ended last.                        *)
CompletedIn(S) == {c \in S : state[c] = "EA" /\ c \in ToSet(completions)}
CompletedAt(c) == CHOOSE n \in DOMAIN completions : completions[n] = c

(* Mutant: ascending order of end dates. *)
FirstToCompensate(S) ==
  IF CompletedIn(S) = {} THEN None
  ELSE CHOOSE c \in CompletedIn(S) : \A d \in CompletedIn(S) : CompletedAt(c) <= CompletedAt(d)

NextToCompensate(S) ==
  IF CompletedIn(S) = {} THEN None
  ELSE CHOOSE c \in CompletedIn(S) : \A d \in CompletedIn(S) : CompletedAt(d) <= CompletedAt(c)
-----------------------------------------------------------------------------
(***************************************************************************)
(* Calls.  A call is an operation of an instance or of one of its tokens;  *)
(* compensation also passes who asked for it: a scope instance that        *)
(* performs default compensation, or the activity of its handler.          *)
(***************************************************************************)
Call(op, i) == [op |-> op, on |-> i, by |-> None]
CompensateCall(op, i, by) == [op |-> op, on |-> i, by |-> by]
ByScope(i) == [as |-> "scope", who |-> i]
ByActivity(i) == [as |-> "activity", who |-> i]

Then(more) == calls' = more \o Tail(calls) /\ UNCHANGED <<orphaned, saved>>

(* The instances from i up to its ancestor p. *)
Between(i, p) ==
  {p} \cup {j \in Instance : /\ <<p, "scope">> \in Above[<<j, "scope">>]
                            /\ <<j, "scope">> \in {<<i, "scope">>} \cup Above[<<i, "scope">>]}

(* Mutant: a scope that has faulted already refuses to be terminated. *)
AcceptsUnlessFaulted(call) ==
  ~(call.op = "terminate" /\ state[call.on] = "EF")

(***************************************************************************)
(* What the states make of a signal: throwStateException for all but the   *)
(* listed ones.  A scope has at most one handler token.  The other         *)
(* exceptions are null pointers: Scope.terminate on the primary token of   *)
(* an event instance, which has no activity and keeps the scope as its     *)
(* node; a handler token that does not exist, where <compensate> goes on   *)
(* or where <compensateScope> looks for its own.                           *)
(***************************************************************************)
Accepts(call) ==
  LET s == IF call.on \in Instance THEN state[call.on] ELSE "none"
  IN  CASE call.op = "completed" -> s \in {"AP", "AE", "FE", "TE", "CE"}
        [] call.op = "faulted" -> s \in Active \cup {"FD", "FE", "TP", "TD", "TE", "CD", "CE"}
        [] call.op = "terminate" -> s \in Active \cup Faulting \cup {"EF"}
        [] call.op = "compensate" -> s = "EA"
        [] call.op = "childrenTerminated" -> s \in {"FP", "FT", "TP", "TT", "CT"}
        [] call.op = "childrenCompensated" -> s \in {"FD", "TD", "CD"}
        [] call.op = "terminateToken" -> ~(call.on[1] \in Event /\ call.on[2] = "primary")
        [] call.op = "executeHandler" -> <<call.on, "handler">> \notin created
        [] call.op = "leaveHandler" -> {<<i, "handler">> : i \in Between(call.by, call.on)} \subseteq created
        [] OTHER -> TRUE

(* A cancellation finds the listener only while it is registered. *)
CancelReception(t) == waiting \ {t}

(* The next call is this one and does not throw. *)
Calling(op, i) ==
  /\ calls # <<>>
  /\ Head(calls).op = op /\ Head(calls).on = i
  /\ Accepts(Head(calls))

(* The transaction begins with a message that the listener of t received.  *)
Begin(first, t) ==
  /\ calls = <<>> /\ saved = <<>>
  /\ saved' = [rows |-> rows, waiting |-> waiting, listener |-> t]
  /\ calls' = <<first>>

(* The listener of a receive takes one message and closes. *)
Commit ==
  /\ calls = <<>>
  /\ saved # <<>>
  /\ orphaned' = orphaned \ {saved.listener}
  /\ saved' = <<>>
  /\ UNCHANGED <<data, calls>>

(***************************************************************************)
(* An exception leaves the transaction.  The database is rolled back, the  *)
(* integration control is not: new listeners stay in it, but are closed    *)
(* and receive nothing; cancelled ones stay cancelled; and that of the     *)
(* message, which has left the control, is never closed.                   *)
(***************************************************************************)
Rollback ==
  /\ calls # <<>>
  /\ ~Accepts(Head(calls))
  /\ state' = saved.rows[1] /\ pos' = saved.rows[2] /\ created' = saved.rows[3]
  /\ live' = saved.rows[4] /\ compensator' = saved.rows[5] /\ completions' = saved.rows[6]
  /\ waiting' = waiting \cap saved.waiting
  /\ orphaned' = orphaned \cup ({saved.listener} \ {None})
  /\ calls' = <<>>
  /\ saved' = <<>>
-----------------------------------------------------------------------------
(***************************************************************************)
(* Transactions: the start of the process, messages for a receive and for  *)
(* an event handler.                                                       *)
(***************************************************************************)
Init ==
  /\ state = [i \in Instance |-> "none"]
  /\ pos = [i \in Instance |-> 0]
  /\ created = {} /\ live = {} /\ waiting = {} /\ orphaned = {}
  /\ compensator = [i \in Instance |-> None]
  /\ completions = <<>>
  /\ calls = <<>> /\ saved = <<>>

Start ==
  /\ state[Global] = "none"
  /\ Begin(Call("execute", Global), None)
  /\ UNCHANGED <<data, orphaned>>

(* The message of the receive at the end of a body or of a handler, then   *)
(* the end of the activity or a throw.  Receive.leave does nothing for a   *)
(* token that has ended.                                                   *)
MessageReceived(t) ==
  /\ t \in (waiting \cup orphaned) \cap live
  /\ t[2] # "events"
  /\ \E op \in {"completed", "faulted"} : Begin(Call(op, t[1]), t)
  /\ waiting' = waiting \ {t}
  /\ UNCHANGED <<rows, orphaned>>

(* OnEvent.messageReceived and OnAlarm.timerFired. *)
EventReceived(s, e) ==
  /\ <<s, "events">> \in waiting
  /\ e \in OnEvents[s]
  /\ state[s] = "AP"
  /\ state[e] = "none"
  /\ Begin(Call("advance", e), None)
  /\ state' = [state EXCEPT ![e] = "AP"]
  /\ created' = created \cup {<<e, "scope">>, <<e, "primary">>}
  /\ live' = live \cup {<<e, "scope">>, <<e, "primary">>}
  /\ UNCHANGED <<pos, waiting, orphaned, compensator, completions>>
-----------------------------------------------------------------------------
(***************************************************************************)
(* Execution of bodies.                                                    *)
(***************************************************************************)
(* ScopeInstance.enableEvents: listen on an events token if there are      *)
(* event handlers.                                                         *)
EnableEvents(s) == IF OnEvents[s] = {} THEN {} ELSE {<<s, "events">>}

(* Scope.execute: create the instance and its tokens, enable the events,   *)
(* enter the primary activity.                                             *)
Execute(s) ==
  LET new == {<<s, "scope">>, <<s, "primary">>} \cup EnableEvents(s)
  IN  /\ Calling("execute", s)
      /\ state' = [state EXCEPT ![s] = "AP"]
      /\ created' = created \cup new
      /\ live' = live \cup new
      /\ waiting' = waiting \cup EnableEvents(s)
      /\ Then(<<Call("advance", s)>>)
      /\ UNCHANGED <<pos, compensator, completions>>

(* The body token goes on to the next scope, to all scopes of a flow, or   *)
(* to the receive.                                                         *)
AdvanceToScope(i) ==
  LET next == pos[i] + 1
      new == IF i \in Flow THEN {<<c, "concurrent">> : c \in ToSet(Body[i])} ELSE {}
  IN  /\ Calling("advance", i)
      /\ next <= Steps(i)
      /\ pos' = [pos EXCEPT ![i] = next]
      /\ created' = created \cup new
      /\ live' = live \cup new
      /\ Then([n \in DOMAIN EnteredAt(i, next) |-> Call("execute", EnteredAt(i, next)[n])])
      /\ UNCHANGED <<state, waiting, compensator, completions>>

AdvanceToReceive(i) ==
  /\ Calling("advance", i)
  /\ pos[i] = Steps(i)
  /\ pos' = [pos EXCEPT ![i] = @ + 1]
  /\ waiting' = waiting \cup {BodyToken(i)}
  /\ Then(<<>>)
  /\ UNCHANGED <<state, created, live, compensator, completions>>

(* Mutant: the first concurrent token to end reactivates the flow. *)
LeaveAtOnce(s) ==
  LET t == ParentToken(<<s, "scope">>)
  IN  /\ Calling("leave", s)
      /\ live' = IF Parent[s] \in Flow THEN live \ EndedWith(t) ELSE live
      /\ Then(IF t \in live THEN <<Call("advance", Parent[s])>> ELSE <<>>)
      /\ UNCHANGED <<state, pos, created, waiting, compensator, completions>>

(* Activity.leave of a nested scope; Flow.leave when it is concurrent: the *)
(* last concurrent token to end reactivates the token of the flow.         *)
Leave(s) ==
  LET t == ParentToken(<<s, "scope">>)
      p == Parent[s]
      siblings == {<<c, "concurrent">> : c \in ToSet(Body[p]) \ {s}}
  IN  /\ Calling("leave", s)
      /\ live' = IF p \in Flow THEN live \ EndedWith(t) ELSE live
      /\ Then(IF t \in live /\ (p \in Flow => siblings \cap live = {})
              THEN <<Call("advance", p)>> ELSE <<>>)
      /\ UNCHANGED <<state, pos, created, waiting, compensator, completions>>
-----------------------------------------------------------------------------
(***************************************************************************)
(* Entering the end states.                                                *)
(***************************************************************************)
(* EventInstance.proceed: the last event completes the scope that waited.  *)
ProceedFromEvent(st, p) ==
  IF st[p] = "AE" /\ ~HasPendingEvents(st, p) THEN <<Call("completed", p)>> ELSE <<>>

(* EndState.enterCompleted, enterExited and proceed.                       *)
EnterAndProceed(i, end) ==
  LET st == [state EXCEPT ![i] = end]
      p == Parent[i]
  IN  /\ state' = st
      /\ live' = live \ EndedWith(<<i, "scope">>)
      /\ completions' = IF end = "EA" THEN Append(completions, i) ELSE completions
      /\ Then(CASE p = None -> <<>>
                [] p # None /\ i \in Scope -> <<Call("leave", i)>>
                [] OTHER -> ProceedFromEvent(st, p))
      /\ UNCHANGED compensator

EnterFaulted(i) ==
  /\ state' = [state EXCEPT ![i] = "EF"]
  /\ live' = live \ EndedWith(<<i, "scope">>)
  /\ Then(IF Parent[i] = None THEN <<>> ELSE <<Call("faulted", Parent[i])>>)
  /\ UNCHANGED <<compensator, completions>>

(* Mutant: the parent is told, whoever asked for the compensation. *)
EnterCompensatedForParent(i) ==
  /\ state' = [state EXCEPT ![i] = "EC"]
  /\ Then(<<CompensateCall("compensateNext", Parent[i], ByScope(Parent[i]))>>)
  /\ UNCHANGED <<compensator, completions>>

EnterCompensated(i) ==
  /\ state' = [state EXCEPT ![i] = "EC"]
  /\ Then(<<CompensateCall("compensateNext", Parent[i], compensator[i])>>)
  /\ UNCHANGED <<compensator, completions>>

EnterTerminated(i) ==
  /\ state' = [state EXCEPT ![i] = "ET"]
  /\ Then(<<Call("scopeTerminated", Parent[i])>>)
  /\ UNCHANGED <<compensator, completions>>

(* setState followed by one more call. *)
Enter(i, next, call) ==
  /\ state' = [state EXCEPT ![i] = next]
  /\ Then(<<call>>)
  /\ UNCHANGED <<compensator, completions>>

Ignore == Then(<<>>) /\ UNCHANGED <<state, live, compensator, completions>>

(* Enter the explicit state and its handler, or the default state and      *)
(* StateUtil.invokeDefaultCompensation.                                    *)
EnterHandling(i, handlers, explicit, default) ==
  IF Definition(i) \in handlers
  THEN Enter(i, explicit, Call("executeHandler", i))
  ELSE Enter(i, default, CompensateCall("compensateNext", i, ByScope(i)))
-----------------------------------------------------------------------------
(***************************************************************************)
(* The signals, one action for each class of states.                       *)
(***************************************************************************)
Signals == {"completed", "faulted", "terminate", "compensate",
            "childrenTerminated", "childrenCompensated"}

Signalled(i, states) ==
  /\ calls # <<>> /\ Head(calls).op \in Signals
  /\ Calling(Head(calls).op, i)
  /\ state[i] \in states
  /\ UNCHANGED <<pos, created>>

ActiveSignal(i) ==
  LET op == Head(calls).op
  IN  /\ Signalled(i, Active)
      /\ waiting' = IF op = "completed" /\ state[i] = "AP"
                    THEN CancelReception(<<i, "events">>) ELSE waiting
      /\ CASE op = "completed" /\ state[i] = "AP" /\ HasPendingEvents(state, i) ->
                 /\ state' = [state EXCEPT ![i] = "AE"]
                 /\ Then(<<>>)
                 /\ UNCHANGED <<live, compensator, completions>>
           [] op = "completed" /\ (state[i] = "AP" => ~HasPendingEvents(state, i)) ->
                 EnterAndProceed(i, "EA")
           [] op = "faulted" -> Enter(i, "FP", Call("terminateChildren", i)) /\ UNCHANGED live
           [] op = "terminate" -> Enter(i, "TP", Call("terminateChildren", i)) /\ UNCHANGED live

FaultingSignal(i) ==
  LET signal == <<Head(calls).op, state[i]>>
  IN  /\ Signalled(i, Faulting)
      /\ CASE signal = <<"childrenTerminated", "FP">> ->
                 EnterHandling(i, FaultHandlers, "FE", "FD") /\ UNCHANGED live
           [] signal \in {<<"childrenCompensated", "FD">>, <<"faulted", "FD">>,
                          <<"childrenTerminated", "FT">>} -> EnterFaulted(i)
           [] signal = <<"completed", "FE">> -> EnterAndProceed(i, "EX")
           [] signal = <<"faulted", "FE">> ->
                 Enter(i, "FT", Call("terminateChildren", i)) /\ UNCHANGED live
           [] signal[1] = "terminate" -> Ignore
      /\ UNCHANGED waiting

TerminatingSignal(i) ==
  LET signal == <<Head(calls).op, state[i]>>
  IN  /\ Signalled(i, Terminating)
      /\ CASE signal = <<"childrenTerminated", "TP">> ->
                 EnterHandling(i, TerminationHandlers, "TE", "TD")
           [] signal = <<"faulted", "TP">> -> Ignore
           [] signal \in {<<"childrenCompensated", "TD">>, <<"faulted", "TD">>,
                          <<"completed", "TE">>, <<"childrenTerminated", "TT">>} ->
                 EnterTerminated(i)
           [] signal = <<"faulted", "TE">> -> Enter(i, "TT", Call("terminateChildren", i))
      /\ UNCHANGED <<live, waiting>>

CompensatingSignal(i) ==
  LET signal == <<Head(calls).op, state[i]>>
  IN  /\ Signalled(i, Compensating)
      /\ CASE signal = <<"childrenCompensated", "CD">> -> EnterCompensated(i) /\ UNCHANGED live
           [] signal = <<"completed", "CE">> ->
                 EnterCompensated(i) /\ live' = live \ EndedWith(<<i, "handler">>)
           [] signal \in {<<"faulted", "CD">>, <<"childrenTerminated", "CT">>} -> EnterFaulted(i)
           [] signal = <<"faulted", "CE">> ->
                 Enter(i, "CT", Call("terminateChildren", i)) /\ UNCHANGED live
      /\ UNCHANGED waiting

(* ScopeInstance.compensate and CompensatingState.enterCompensating; a     *)
(* faulted scope ignores Terminate.                                        *)
EndSignal(i) ==
  LET handled == i \in CompensationHandlers
  IN  /\ Signalled(i, End)
      /\ IF Head(calls).op = "compensate"
         THEN /\ state' = [state EXCEPT ![i] = IF handled THEN "CE" ELSE "CD"]
              /\ compensator' = [compensator EXCEPT ![i] = Head(calls).by]
              /\ Then(<<IF handled THEN Call("executeHandler", i)
                        ELSE CompensateCall("compensateNext", i, ByScope(i))>>)
              /\ UNCHANGED completions
         ELSE Ignore
      /\ UNCHANGED <<live, waiting>>
-----------------------------------------------------------------------------
(***************************************************************************)
(* Termination of what a scope instance has running.                       *)
(***************************************************************************)
(* ScopeInstance.terminateChildren: the handler, or else the primary token *)
(* and the events; at last childrenTerminated unless a child is terminable. *)
TerminateChildren(i) ==
  LET Terminated(k) == IF <<i, k>> \in live THEN <<Call("terminateToken", <<i, k>>)>> ELSE <<>>
  IN  /\ Calling("terminateChildren", i)
      /\ Then(IF <<i, "handler">> \in live
              THEN Terminated("handler") \o <<Call("scopeTerminated", i)>>
              ELSE Terminated("primary")
                     \o <<Call("terminateEvents", i), Call("scopeTerminated", i)>>)
      /\ UNCHANGED data

(* Stop listening, terminate the event tokens in any order, end the events *)
(* token.                                                                  *)
TerminateEvents(i) ==
  LET tokens == {<<e, "scope">> : e \in IF i \in Scope THEN OnEvents[i] ELSE {}} \cap live
  IN  /\ Calling("terminateEvents", i)
      /\ IF <<i, "events">> \in live
         THEN /\ waiting' = CancelReception(<<i, "events">>)
              /\ \E order \in SetToSeqs(tokens) :
                   Then([n \in DOMAIN order |-> Call("terminateToken", order[n])]
                          \o <<Call("endToken", <<i, "events">>)>>)
         ELSE Then(<<>>) /\ UNCHANGED waiting
      /\ UNCHANGED <<state, pos, created, live, compensator, completions>>

(* Mutant: the reception stays registered. *)
TerminateTokenOnly(t) ==
  LET nested == IF t = BodyToken(t[1]) THEN NodeScope(t[1]) ELSE None
  IN  /\ Calling("terminateToken", t)
      /\ Then((IF nested = None THEN <<>> ELSE <<Call("terminate", nested)>>)
                \o <<Call("endToken", t)>>)
      /\ UNCHANGED data

(* terminateToken: terminate the activity, which is a nested scope or a    *)
(* receive whose reception is cancelled, then end the token.               *)
TerminateToken(t) ==
  LET nested == IF t = BodyToken(t[1]) THEN NodeScope(t[1]) ELSE None
  IN  /\ Calling("terminateToken", t)
      /\ waiting' = CancelReception(t)
      /\ Then((IF nested = None THEN <<>> ELSE <<Call("terminate", nested)>>)
                \o <<Call("endToken", t)>>)
      /\ UNCHANGED <<state, pos, created, live, compensator, completions>>

EndToken(t) ==
  /\ Calling("endToken", t)
  /\ live' = live \ EndedWith(t)
  /\ Then(<<>>)
  /\ UNCHANGED <<state, pos, created, waiting, compensator, completions>>

(* ScopeInstance.scopeTerminated, which is also how terminateChildren ends. *)
ScopeTerminated(i) ==
  /\ Calling("scopeTerminated", i)
  /\ Then(IF HasTerminableChildren(state, i) THEN <<>> ELSE <<Call("childrenTerminated", i)>>)
  /\ UNCHANGED data
-----------------------------------------------------------------------------
(***************************************************************************)
(* Handlers and compensation.                                              *)
(***************************************************************************)
(* Mutant: the handler token is not added to its parent. *)
ExecuteHandlerDetached(i) ==
  LET t == <<i, "handler">>
  IN  /\ Calling("executeHandler", i)
      /\ live' = live \cup {t}
      /\ waiting' = waiting \cup {t}
      /\ Then(<<>>)
      /\ UNCHANGED <<state, pos, created, compensator, completions>>

(* StateUtil.executeHandler: create the handler token and enter the        *)
(* activity.                                                               *)
ExecuteHandler(i) ==
  LET t == <<i, "handler">>
      receives == HandlerActivity[Definition(i)] = "receive"
  IN  /\ Calling("executeHandler", i)
      /\ created' = created \cup {t}
      /\ live' = live \cup {t}
      /\ waiting' = IF receives THEN waiting \cup {t} ELSE waiting
      /\ Then(IF receives THEN <<>> ELSE <<CompensateCall("compensateNext", i, ByActivity(i))>>)
      /\ UNCHANGED <<state, pos, compensator, completions>>

(* The scopes that a compensation requestor searches: an activity          *)
(* <compensate> those nested in `enclosing', which is its own scope at     *)
(* first and later the parent of the scope that was just compensated.      *)
SearchedBy(by, enclosing) ==
  LET what == HandlerActivity[Definition(by.who)]
  IN  CASE by.as = "scope" -> FindNestedScopes[Definition(by.who)]
        [] by.as = "activity" /\ what = "compensate" -> FindNestedScopes[Definition(enclosing)]
        [] OTHER -> FindNestedScopes[what] \cup {what}

(* Where the handler goes on when nothing is left to compensate:           *)
(* <compensate> takes the handler token of `enclosing', <compensateScope>  *)
(* looks for the one that it is the node of.                               *)
ResumedBy(by, enclosing) ==
  IF HandlerActivity[Definition(by.who)] = "compensate" THEN enclosing ELSE by.who

(* scopeCompensated of the requestors, and how they begin. *)
CompensateNext(i) ==
  LET by == Head(calls).by
      next == NextToCompensate(SearchedBy(by, i))
  IN  /\ Calling("compensateNext", i)
      /\ Then(<<CASE next # None -> CompensateCall("compensate", next, by)
                  [] next = None /\ by.as = "scope" -> Call("childrenCompensated", by.who)
                  [] OTHER -> CompensateCall("leaveHandler", ResumedBy(by, i), i)>>)
      /\ UNCHANGED data

(* Activity.leave at the end of a handler. *)
LeaveHandler(i) ==
  /\ Calling("leaveHandler", i)
  /\ Then(IF <<i, "handler">> \in live THEN <<Call("completed", i)>> ELSE <<>>)
  /\ UNCHANGED data
-----------------------------------------------------------------------------
Internal ==
  \/ Commit \/ Rollback
  \/ \E s \in Scope : Execute(s) \/ Leave(s)
  \/ \E i \in Instance :
       \/ AdvanceToScope(i) \/ AdvanceToReceive(i) \/ ExecuteHandler(i)
       \/ ActiveSignal(i) \/ FaultingSignal(i) \/ TerminatingSignal(i)
       \/ CompensatingSignal(i) \/ EndSignal(i)
       \/ TerminateChildren(i) \/ TerminateEvents(i) \/ ScopeTerminated(i)
       \/ CompensateNext(i) \/ LeaveHandler(i)
  \/ \E t \in Token : TerminateToken(t) \/ EndToken(t)

Next ==
  \/ Internal
  \/ Start
  \/ \E t \in Token : MessageReceived(t)
  \/ \E s \in Scope, e \in Event : EventReceived(s, e)

Spec == Init /\ [][Next]_vars

(***************************************************************************)
(* A transaction that has begun ends, and partners send what the process   *)
(* waits for in the end.                                                   *)
(***************************************************************************)
FairSpec ==
  /\ Spec
  /\ WF_vars(Internal) /\ WF_vars(Start)
  /\ \A t \in Token : WF_vars(MessageReceived(t))
-----------------------------------------------------------------------------
(***************************************************************************)
(* Properties.                                                             *)
(***************************************************************************)
Quiescent == calls = <<>> /\ saved = <<>>

(* Types of the database columns and of the calls. *)
TypeOK ==
  /\ state \in [Instance -> ScopeState \cup {"none"}]
  /\ pos \in [Instance -> Nat]
  /\ created \subseteq Token /\ live \subseteq created /\ waiting \cup orphaned \subseteq created
  /\ completions \in Seq(Instance) /\ IsInjective(completions)
  /\ \A n \in DOMAIN calls : calls[n].on \in Instance \cup Token

(* No signal reaches a scope in a state that throws on it, and no missing  *)
(* token is used, so that every message is processed.                      *)
NoTransactionFails == calls # <<>> => Accepts(Head(calls))

(* When the compensation of a scope begins, every sibling that completed   *)
(* after it has been compensated, or has faulted in its compensation.      *)
ReverseOrder ==
  [][\A c \in Scope : state[c] = "EA" /\ state'[c] \in Compensating =>
       \A d \in Scope :
         /\ Parent[d] = Parent[c]
         /\ {c, d} \subseteq ToSet(completions) /\ CompletedAt(c) < CompletedAt(d)
         => state[d] \in {"EC", "EF"}]_vars

(* A scope that has ended left nothing running inside: its nested scopes   *)
(* and event handlers have ended or are being compensated.                 *)
NothingRunsInEndedScopes ==
  Quiescent => \A p \in Instance : state[p] \in End =>
                 \A c \in Children(p) : state[c] \in End \cup Compensating \cup {"none"}

(* Between transactions no listener is registered for a token that has     *)
(* ended.                                                                  *)
ReceptionsHaveTokens == Quiescent => waiting \subseteq live

(* A scope that has faulted eventually sends Faulted or Exited to its      *)
(* parent.                                                                 *)
FaultedScopesFinish ==
  \A s \in Scope : state[s] \in Faulting ~> state[s] \in {"EF", "EX"}

(* A fault of a scope terminates the scopes that are active inside.        *)
FaultTerminatesChildren ==
  Quiescent => \A s \in Scope : state[s] \in Faulting =>
                 \A c \in ToSet(Body[s]) : state[c] \notin Active
=============================================================================
