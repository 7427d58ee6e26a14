----------------------------- MODULE MCContentStore ----------------------------
(* Small instances of ContentStore for TLC.                                    *)
EXTENDS ContentStore, TLC

CONSTANTS u1, u2, r1, r2

Units == {u1, u2}
Positions == {1}

(* Put u1 first; put u2 first (they collide when both stand there); delete u1. *)
Deltas ==
    {(u1 :> 1 @@ u2 :> Untouched), (u1 :> Untouched @@ u2 :> 1),
     (u1 :> Absent @@ u2 :> Untouched)}

OneDelta == {(u1 :> 1 @@ u2 :> Untouched)}

TwoRequests == {r1, r2}

Symmetric == Permutations(TwoRequests)
================================================================================
