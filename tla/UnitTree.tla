-------------------------------- MODULE UnitTree -------------------------------
(* What the server promises about the units of one object: a forest that only  *)
(* changes by one accepted operation at a time, each at the next revision.     *)
(* It says nothing of who asks, when, or what becomes of a refused request.    *)
EXTENDS TreeOps

VARIABLES tree, revision

vars == <<tree, revision>>

TypeOK ==
    /\ IsContent(tree)
    /\ revision \in Nat

Init ==
    /\ IsContent(tree)
    /\ WellFormed(tree)
    /\ Acyclic(tree)
    /\ revision \in Nat

(* What changes, and the units that are gone, are the delta of the save.       *)
Save ==
    /\ IsContent(tree')
    /\ MaySave(tree, tree', DOMAIN tree \ DOMAIN tree')

Reparent ==
    \E u \in DOMAIN tree, p \in DOMAIN tree \cup {Top}, n \in Place :
        /\ MayReparent(tree, u, p)
        /\ tree' = Reparented(tree, u, p, n)

ToggleHeading ==
    \E u \in DOMAIN tree : MayToggle(tree, u) /\ tree' = Toggled(tree, u)

SetUnitType ==
    \E u \in DOMAIN tree, t \in Type \cup {NoType} :
        MayRetype(tree, u) /\ tree' = Retyped(tree, u, t)

Next ==
    /\ Save \/ Reparent \/ ToggleHeading \/ SetUnitType
    /\ revision' = revision + 1

Spec == Init /\ [][Next]_vars

--------------------------------------------------------------------------------
(* PROPERTIES                                                                  *)

(* Every parent is a heading of the object, no two siblings share a position   *)
(* and following parents always ends at the top: whatever operations are       *)
(* accepted, a day or note can be walked from its top and shows every unit     *)
(* once (projectToDoc's depth-first walk).                                     *)
Forest == WellFormed(tree) /\ Acyclic(tree)
================================================================================
