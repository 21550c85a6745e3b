----------------------------- MODULE AtomicJoin -----------------------------
(***************************************************************************)
(* What concurrent paths of execution promise the path they were created   *)
(* from: each one arrives once, in a step of its own, and the arrival that *)
(* makes Enough arrivals, and no other, lets the parent continue.          *)
(***************************************************************************)
EXTENDS Naturals, FiniteSets

CONSTANTS
  Path,        \* the concurrent paths: child tokens, or the tasks of a node
  NOutOfM      \* the arrivals that rule "n" asks for

VARIABLES
  rule,        \* which arrivals are enough
  arrived,     \* the paths that have arrived
  left         \* how often the parent has continued

vars == <<rule, arrived, left>>

Enough(S) ==
  \/ rule = "all" /\ S = Path
  \/ rule = "first" /\ S # {}
  \/ rule = "n" /\ Cardinality(S) >= NOutOfM

Init ==
  /\ rule \in {"all", "first", "n"}
  /\ arrived = {}
  /\ left = 0

Arrive(p) ==
  /\ p \notin arrived
  /\ arrived' = arrived \cup {p}
  /\ left' = IF left = 0 /\ Enough(arrived') THEN 1 ELSE left
  /\ UNCHANGED rule

Next == \E p \in Path : Arrive(p)

Spec == Init /\ [][Next]_vars
=============================================================================
