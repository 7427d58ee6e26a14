-------------------------------- MODULE MCInline -------------------------------
(* Instances of Inline for TLC.                                                *)
EXTENDS Inline

Expr(id, surface, cited) == [id |-> id, surface |-> surface, cited |-> cited]

Prose(text, atoms) == [kind |-> "prose", text |-> text, atoms |-> atoms, marks |-> {}]

(* An equation after a space, and a lone dollar.                               *)
FreshMath ==
    <<Prose(<<" ">>, <<[at |-> 1, expr |-> Expr(1, <<"x">>, FALSE)]>>),
      Prose(<<"$">>, << >>)>>

(* An equation other content refers to, before a digit.                        *)
CitedMath == <<Prose(<<"1">>, <<[at |-> 0, expr |-> Expr(1, <<"x">>, TRUE)]>>)>>

(* A displayed equation and a word.                                            *)
Display ==
    <<[kind |-> "math", expr |-> Expr(1, <<"x">>, FALSE)], Prose(<<"x">>, << >>)>>

MCStarts == {FreshMath, CitedMath, Display}
================================================================================
