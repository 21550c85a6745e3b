-------------------------- MODULE MCScopeInstance --------------------------
(***************************************************************************)
(* Process definitions for model checking ScopeInstance.                   *)
(***************************************************************************)
EXTENDS ScopeInstance, TLC

CONSTANTS g, a, b, c, d, e, k, n, m

(* g { a { b }, c, d } in sequence; the fault handler of g compensates. *)
NestedBody == (g :> <<a, c, d>>) @@ (a :> <<b>>) @@ [i \in Instance |-> <<>>]

(* g { a } with an event handler e { n { m { k } } }. *)
EventBody == (g :> <<a>>) @@ (e :> <<n>>) @@ (n :> <<m>>) @@ (m :> <<k>>) @@
             [i \in Instance |-> <<>>]
EventHandlers == (g :> a) @@ (n :> "compensate") @@ [s \in Scope |-> "receive"]

(* g { a } where a is a flow of b and c. *)
FlowBody == (g :> <<a>>) @@ (a :> <<b, c>>) @@ [i \in Instance |-> <<>>]

(* g { a } where a is a flow of b { n }, c and d. *)
WideBody == (g :> <<a>>) @@ (a :> <<b, c, d>>) @@ (b :> <<n>>) @@ [i \in Instance |-> <<>>]

GlobalCompensates == (g :> "compensate") @@ [t \in Scope |-> "receive"]
NoEvents == [s \in Scope |-> {}]
EventsOfGlobal == [s \in Scope |-> IF s = g THEN Event ELSE {}]
=============================================================================
