---------------------------- MODULE MCFlowLinks ----------------------------
(***************************************************************************)
(* Process definitions for model checking FlowLinks.                       *)
(***************************************************************************)
EXTENDS FlowLinks, TLC

Default(S, value) == [x \in S |-> value]

(* flow r (links l1 .. l4) {                                               *)
(*   a  -> l1, l4                                                          *)
(*   if i -> l3 { b (l1) -> l2 | flow g (link m) { e -> m | f (m and l4) } }*)
(*   sequence s (l2 or l3) { d (l2) ; pick p { flow h { u | v } | k } }    *)
(* }                                                                       *)
LinkActivity == {"r", "a", "i", "b", "g", "e", "f", "s", "d", "p", "h", "u", "v", "k"}
LinkKind ==
  ("r" :> "flow") @@ ("i" :> "if") @@ ("g" :> "flow") @@ ("s" :> "sequence") @@
  ("p" :> "pick") @@ ("h" :> "flow") @@ Default(LinkActivity, "basic")
LinkChildren ==
  ("r" :> <<"a", "i", "s">>) @@ ("i" :> <<"b", "g">>) @@ ("g" :> <<"e", "f">>) @@
  ("s" :> <<"d", "p">>) @@ ("p" :> <<"h", "k">>) @@ ("h" :> <<"u", "v">>) @@
  Default(LinkActivity, <<>>)
LinkLinks == ("r" :> {"l1", "l2", "l3", "l4"}) @@ ("g" :> {"m"}) @@ Default(LinkActivity, {})
LinkSources ==
  ("a" :> <<"l1", "l4">>) @@ ("b" :> <<"l2">>) @@ ("i" :> <<"l3">>) @@ ("e" :> <<"m">>) @@
  Default(LinkActivity, <<>>)
LinkTarget ==
  ("l1" :> "b") @@ ("l2" :> "d") @@ ("l3" :> "s") @@ ("l4" :> "f") @@ ("m" :> "f")

(* What the theorem on completion asks of a definition. *)
ASSUME LinksAreAcyclic == Acyclic
=============================================================================
