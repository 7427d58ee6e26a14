------------------------------- MODULE MergeCases ------------------------------
(* Every way two writers of a day can drift apart from their common baseline:  *)
(* the server's content after other writers' saves, the document after the     *)
(* user's edits.  In each such state the properties below ask what flush and   *)
(* planMerge would make of it, against what a three-way merge has to be.       *)
EXTENDS Merge, FiniteSets

CONSTANTS
    Baselines,      \* the contents both sides start from
    Minted,         \* the first unit id and text that no baseline uses
    MaxSize         \* bound: the blocks of the baseline and the changes of both
                    \* sides together

(* A unit has its id to itself (it is its key), and what is minted is new.      *)
ASSUME CasesAssumption ==
    /\ Minted \in Nat /\ MaxSize \in Nat
    /\ \A b \in Baselines :
            /\ b \in Seq([id : 0..Minted - 1, text : 0..Minted - 1])
            /\ \A i, j \in DOMAIN b : b[i].id = b[j].id => i = j

VARIABLES
    baseline,   \* prior: the last content both sides saw
    server,     \* the content on the server now
    doc,        \* the document on screen now
    changes     \* how many changes there were: the last text and id minted

vars == <<baseline, server, doc, changes>>

Init ==
    /\ baseline \in Baselines
    /\ server = baseline
    /\ doc = baseline
    /\ changes = 0

Fresh == [id |-> Minted + changes, text |-> Minted + changes]

(* What one gesture makes of a list of blocks.                                 *)
Rewritten(blocks) == {[blocks EXCEPT ![i].text = Fresh.text] : i \in DOMAIN blocks}
Grown(blocks) == {InsertAt(blocks, i, Fresh) : i \in 1..Len(blocks) + 1}
Cut(blocks) == {RemoveAt(blocks, i) : i \in DOMAIN blocks}
Moved(blocks) == {InsertAt(RemoveAt(blocks, i), j, blocks[i]) : i, j \in DOMAIN blocks}

Gestures(blocks) == Rewritten(blocks) \cup Grown(blocks) \cup Cut(blocks) \cup Moved(blocks)

(* Only the pair (server, doc) matters: the others go first.                   *)
OthersSave ==
    /\ doc = baseline
    /\ server' \in Gestures(server)
    /\ UNCHANGED <<baseline, doc>>

UserEdits ==
    /\ doc' \in Gestures(doc)
    /\ UNCHANGED <<baseline, server>>

Next ==
    /\ Len(baseline) + changes < MaxSize
    /\ changes' = changes + 1
    /\ OthersSave \/ UserEdits

Spec == Init /\ [][Next]_vars

--------------------------------------------------------------------------------
(* PROPERTIES                                                                  *)

Mine == DeltaBetween(doc, baseline)
Merged == MergedUnits(baseline, server, Mine)
Mergeable(force) == ConflictReasons(baseline, server, Mine, force) = {}
Rebased == DeltaBetween(Merged, server)

IEdited(id) ==
    id \in Ids(doc) /\ id \in Ids(baseline) /\ TextOf(doc, id) # TextOf(baseline, id)

(* A delta reaches the server as it was meant.  A flush against an unmoved     *)
(* server is accepted and leaves the server with exactly the document; the      *)
(* rebased delta of a merge, with and without force, stores what planMerge put  *)
(* on the screen: the delta names every unit whose place or text moved.         *)
DeltasReachServer ==
    /\ CoreAccepts(baseline, Mine)
    /\ Saved(baseline, Mine) = doc
    /\ \A force \in BOOLEAN :
        Mergeable(force) =>
            /\ CoreAccepts(server, Rebased)
            /\ Saved(server, Rebased) = Merged

(* "If my changes and the server's touch DIFFERENT units, we keep BOTH": an     *)
(* unforced merge is the three-way merge.  It holds my new units and theirs,    *)
(* drops what either deleted, and takes each text from the side that changed    *)
(* it; no text changed by both is ever decided.  Their order is the server's.  *)
MergeIsThreeWay ==
    Mergeable(FALSE) =>
        LET deleted == (Ids(baseline) \ Ids(doc)) \cup (Ids(baseline) \ Ids(server))
        IN  /\ Len(Merged) = Cardinality(Ids(Merged))
            /\ Ids(Merged) = (Ids(doc) \cup Ids(server)) \ deleted
            /\ \A id \in Ids(Merged) :
                 /\ id \in Ids(baseline) =>
                        /\ ~IEdited(id) => TextOf(Merged, id) = TextOf(server, id)
                        /\ IEdited(id) =>
                            /\ TextOf(Merged, id) = TextOf(doc, id)
                            /\ TextOf(server, id) = TextOf(baseline, id)
                 /\ id \notin Ids(server) => TextOf(Merged, id) = TextOf(doc, id)
            /\ \A i, j \in DOMAIN Merged :
                    i < j /\ Merged[j].id \in Ids(server) =>
                        /\ Merged[i].id \in Ids(server)
                        /\ PositionOf(server, Merged[i].id) < PositionOf(server, Merged[j].id)

(* "Keep mine": my edits, additions and deletions all win, and what the others  *)
(* added is still there.                                                       *)
KeepMineKeepsMine ==
    Mergeable(TRUE) =>
        /\ \A id \in Ids(doc) :
                IEdited(id) \/ id \notin Ids(baseline) =>
                    id \in Ids(Merged) /\ TextOf(Merged, id) = TextOf(doc, id)
        /\ Ids(Merged) \cap (Ids(baseline) \ Ids(doc)) = {}
        /\ Ids(server) \ Ids(baseline) \subseteq Ids(Merged)
================================================================================
