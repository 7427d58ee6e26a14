------------------------------- MODULE MCOwnership ------------------------------
(* Two days: a section with a paragraph and a paragraph after it; and one      *)
(* paragraph that can cite them.                                               *)
EXTENDS Ownership, TLC

CONSTANTS r1, r2

Requests == {r1, r2}

At(o, p, n) == [object |-> o, parent |-> p, pos |-> n, shows |-> None, cites |-> None]

TwoDays == 1 :> At(1, None, 0) @@ 2 :> At(1, 1, 0) @@ 3 :> At(1, None, 1) @@ 4 :> At(2, None, 0)

(* From the other day, and within the section.                                 *)
TypedMentions == {<<4, 2>>, <<1, 2>>}
================================================================================
