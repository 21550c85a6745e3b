------------------------ MODULE MCIntegrationControl ------------------------
(***************************************************************************)
(* Model checking IntegrationControl: a loop over a two-way receive a,     *)
(* whose second request is replied to after a receive c.                   *)
(***************************************************************************)
EXTENDS IntegrationControl

CONSTANTS a, c

LoopWaits == <<a, a, c>>
LoopReplies == <<{a}, {}, {a}>>
Sent == [b \in {a, c} |-> IF b = a THEN 2 ELSE 1]
Troubled(n, f, k) == [conflicts |-> n, failures |-> f, crashes |-> k]
ConflictOrFailureAndCrash == {Troubled(1, 0, 0), Troubled(0, 1, 1)}
OneConflict == {Troubled(1, 0, 0)}
=============================================================================
