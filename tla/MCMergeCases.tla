------------------------------ MODULE MCMergeCases -----------------------------
(* A small instance of MergeCases for TLC.                                     *)
EXTENDS MergeCases

Days == {<<[id |-> 1, text |-> 1], [id |-> 2, text |-> 2]>>,
         <<[id |-> 1, text |-> 1], [id |-> 2, text |-> 2], [id |-> 3, text |-> 3]>>}
================================================================================
