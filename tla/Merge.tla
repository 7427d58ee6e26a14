---------------------------------- MODULE Merge --------------------------------
(* The pure content algebra of the editor's autosave: flushToContent           *)
(* (projection.ts) and planMerge (merge.ts), and what save_content (core) makes *)
(* of the delta they produce.  One flat day: every unit is top level, so the   *)
(* per-parent positions of the code are the positions in one sequence, and     *)
(* `isEditable` holds of every content.  A unit's kind, type and expression    *)
(* anchors are abstracted into its text.                                       *)
EXTENDS Integers, Sequences, SequencesExt

(* What is on screen is a sequence of blocks; what is stored are rows, units    *)
(* with their positions.                                                       *)
IdsOf(rows) == {u.id : u \in rows}

Ids(blocks) == IdsOf(ToSet(blocks))

Texts(blocks) == {b.text : b \in ToSet(blocks)}

TextIn(rows, id) == (CHOOSE u \in rows : u.id = id).text

TextOf(blocks, id) == TextIn(ToSet(blocks), id)

PositionOf(blocks, id) == CHOOSE i \in DOMAIN blocks : blocks[i].id = id

Numbered(blocks) ==
    [i \in DOMAIN blocks |-> [id |-> blocks[i].id, text |-> blocks[i].text, position |-> i]]

Rows(blocks) == ToSet(Numbered(blocks))

(* Rows in the order of their positions, which are given anew.                 *)
Nth(rows, i) == CHOOSE u \in rows : Cardinality({v \in rows : v.position <= u.position}) = i

Listed(rows) ==
    [i \in 1..Cardinality(rows) |-> [id |-> Nth(rows, i).id, text |-> Nth(rows, i).text]]

(* Mutant: a unit that only moved is not sent.                                 *)
SameTextIn(base, u) == u.id \in Ids(base) /\ TextOf(base, u.id) = u.text

(* The unit is in `base`, at the same position, with the same content.         *)
SameIn(base, u) == u \in Rows(base)

(* flushToContent(doc, prior) and diffUnits(target, base): what to upsert and   *)
(* what to delete to turn the one into the other.                              *)
DeltaBetween(doc, base) ==
    [upserts |-> {u \in Rows(doc) : ~SameIn(base, u)},
     deletes |-> Ids(base) \ Ids(doc)]

NoDelta == [upserts |-> {}, deletes |-> {}]

(* serverDiff(baseline, server): the ids of baseline the server changed, and   *)
(* the ones it deleted.                                                        *)
Changed(baseline, server) ==
    IdsOf({u \in Rows(server) : u.id \in Ids(baseline) /\ ~SameIn(baseline, u)})

Deleted(baseline, server) == Ids(baseline) \ Ids(server)

--------------------------------------------------------------------------------
(* planMerge.                                                                  *)

(* The unit as I edited it, at the server's place.                             *)
WithMine(u, edited) ==
    IF u.id \in IdsOf(edited) THEN [u EXCEPT !.text = TextIn(edited, u.id)] ELSE u

(* Mutant: a unit I edited and the server deleted is not brought back.         *)
MergedWithoutResurrected(baseline, server, mine) ==
    LET myNew == {u \in mine.upserts : u.id \notin Ids(baseline)}
        kept  == {u \in Rows(server) : u.id \notin mine.deletes}
    IN Listed({WithMine(u, mine.upserts) : u \in kept}) \o Listed(myNew)

(* Server order, less my deletes, with my content edits; then my new units;    *)
(* then (only possible under force) my edits of units the server deleted.      *)
MergedUnits(baseline, server, mine) ==
    LET myNew    == {u \in mine.upserts : u.id \notin Ids(baseline)}
        myEdited == mine.upserts \ myNew
        kept     == {u \in Rows(server) : u.id \notin mine.deletes}
    IN Listed({WithMine(u, myEdited) : u \in kept})
          \o Listed(myNew)
          \o Listed({u \in myEdited : u.id \notin Ids(server)})

(* Mutant: planMerge does not see that both sides edited a unit.               *)
ConflictReasonsBlindToEdits(baseline, server, mine, force) ==
    IF (IdsOf(mine.upserts) \ Ids(baseline)) \cap Ids(server) # {}
    THEN {"new-id-collision"} ELSE {}

(* Why planMerge refuses, if it does.  Keep mine (force) skips all but the first. *)
ConflictReasons(baseline, server, mine, force) ==
    LET myEdited == IdsOf(mine.upserts) \cap Ids(baseline)
        myNew    == IdsOf(mine.upserts) \ Ids(baseline)
        reason(name, units) == IF units = {} THEN {} ELSE {name}
    IN  reason("new-id-collision", myNew \cap Ids(server))
          \cup IF force THEN {} ELSE
               reason("both-edited-same-unit", myEdited \cap Changed(baseline, server))
          \cup reason("i-edited-server-deleted", myEdited \cap Deleted(baseline, server))
          \cup reason("i-deleted-server-edited", mine.deletes \cap Changed(baseline, server))

--------------------------------------------------------------------------------
(* save_content on the stored units: the upserts take their places, the deletes *)
(* go, and no two units may end up at one position.                            *)
Overlay(units, delta) ==
    {u \in Rows(units) : u.id \notin delta.deletes \cup IdsOf(delta.upserts)}
        \cup delta.upserts

CoreAccepts(units, delta) ==
    /\ delta.deletes \subseteq Ids(units)
    /\ \A u, v \in Overlay(units, delta) : u.position = v.position => u = v

Saved(units, delta) == Listed(Overlay(units, delta))
================================================================================
