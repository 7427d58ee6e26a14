-------------------------------- MODULE MCOutline ------------------------------
(* Instances of Outline for TLC.                                               *)
EXTENDS Outline

MCUnit == 1..MaxUnit
MCPlace == 0..MaxUnit
MCLine == {Display} \cup Nat

U(parent, pos, kind, text) ==
    [parent |-> parent, pos |-> pos, kind |-> kind, type |-> NoType, text |-> text]

(* Two empty sections, and a notation home above an equation.                   *)
Sections == 1 :> U(Top, 0, "heading", <<101>>) @@ 2 :> U(Top, 1, "heading", <<102>>)
Home == 1 :> U(Top, 0, "config", <<101>>) @@ 2 :> U(Top, 1, "math", <<Display>>)

MCStarts == {Sections, Home}
================================================================================
