------------------------------- MODULE MCAutosave ------------------------------
(* Small instances of Autosave for TLC.                                        *)
EXTENDS Autosave, TLC

CONSTANTS m1, m2, m3, d1, d2

TwoMounts == {m1, m2}
ThreeMounts == {m1, m2, m3}
TwoDevices == (m1 :> d1 @@ m2 :> d2)
SameDevice == (m1 :> d1 @@ m2 :> d1)
Reopened == (m1 :> d1 @@ m2 :> d1 @@ m3 :> d2)

(* The two writers may be exchanged: their mounts and their devices together.  *)
Symmetric == {p \in Permutations({m1, m2, d1, d2}) :
                {p[m1], p[m2]} = {m1, m2}
                /\ p[d1] = TwoDevices[p[m1]] /\ p[d2] = TwoDevices[p[m2]]}
================================================================================
