------------------------- MODULE MCConcurrentTokens -------------------------
(***************************************************************************)
(* Model checking ConcurrentTokens.                                        *)
(***************************************************************************)
EXTENDS ConcurrentTokens, TLC

CONSTANTS p1, p2, p3
=============================================================================
