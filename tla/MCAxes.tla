--------------------------------- MODULE MCAxes --------------------------------
(* Instances of Axes for TLC.                                                  *)
EXTENDS Axes, TLC

MCId == 1..MaxId

(* A named theorem with a brace over its first word.                           *)
Theorem ==
    1 :> [text |-> <<101, 102>>, type |-> "theorem", names |-> 2 :> "named",
          braces |-> 3 :> {101}]

MCStarts == {Theorem}
================================================================================
