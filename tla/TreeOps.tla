--------------------------------- MODULE TreeOps -------------------------------
(* The core's operations on the units of one object, as pure functions of its  *)
(* content (crates/core/src/ops.rs).  A content is a function from the ids of  *)
(* the units it has to records of parent, position among the parent's children,*)
(* kind, type and text.  Revision, provenance and links are in ContentStore;   *)
(* of the container kinds only the section heading is here (systems and other  *)
(* math containers are not), and every expression is keystone-safe.            *)
EXTENDS Integers, FiniteSets, Sequences

CONSTANTS
    Unit,       \* ids of units
    Top,        \* parent_unit_id = None
    Line,       \* a line of what a unit says
    Type,       \* unit types
    NoType,     \* type = None
    Place       \* positions a request may ask for

ASSUME TreeAssumption ==
    /\ Top \notin Unit
    /\ NoType \notin Type
    /\ Place \subseteq Nat
    /\ IsFiniteSet(Unit)

Text == Seq(Line)

Kind == {"prose", "heading", "math", "config"}

UnitRecord ==
    [parent : Unit \cup {Top}, pos : Nat, kind : Kind,
     type : Type \cup {NoType}, text : Text]

IsContent(c) == DOMAIN c \subseteq Unit /\ c \in [DOMAIN c -> UnitRecord]

Kids(c, p) == {u \in DOMAIN c : c[u].parent = p}

(* Parents are headings of this object, siblings have different positions.     *)
WellFormed(c) ==
    /\ \A u \in DOMAIN c :
            c[u].parent # Top =>
                c[u].parent \in DOMAIN c /\ c[c[u].parent].kind = "heading"
    /\ \A u, v \in DOMAIN c :
            c[u].parent = c[v].parent /\ c[u].pos = c[v].pos => u = v

(* No unit is its own ancestor: in every set of units some unit's parent is    *)
(* outside the set.                                                            *)
Acyclic(c) ==
    \A S \in SUBSET DOMAIN c : S # {} => \E u \in S : c[u].parent \notin S

(* The unit and everything below it: what every set that holds it and is       *)
(* closed under children has in common.                                        *)
Subtree(c, u) ==
    {v \in DOMAIN c :
        \A S \in SUBSET DOMAIN c :
            u \in S /\ (\A w \in DOMAIN c : c[w].parent \in S => w \in S) => v \in S}

(* Positions 0..n-1 for the units of S, in the order they have.                *)
Numbered(c, S) ==
    [v \in DOMAIN c |->
        IF v \in S
        THEN [c[v] EXCEPT !.pos = Cardinality({w \in S : c[w].pos < c[v].pos})]
        ELSE c[v]]

--------------------------------------------------------------------------------
(* reparent_unit: out of its old family, which closes up; room at `n` in the   *)
(* new one; and the new one closes up.                                         *)
Reparented(c, u, p, n) ==
    LET left == Numbered(c, Kids(c, c[u].parent) \ {u})
        room == [v \in DOMAIN c |->
                    IF v = u THEN [left[v] EXCEPT !.parent = p, !.pos = n]
                    ELSE IF c[v].parent = p /\ left[v].pos >= n
                    THEN [left[v] EXCEPT !.pos = @ + 1]
                    ELSE left[v]]
    IN  Numbered(room, Kids(c, p) \cup {u})

MayReparent(c, u, p) ==
    /\ u \in DOMAIN c
    /\ p # Top => p \in DOMAIN c \ Subtree(c, u) /\ c[p].kind = "heading"

(* toggle_heading on a prose unit.                                             *)
Promoted(c, u) == [c EXCEPT ![u].kind = "heading"]

(* Mutant: the body of a dissolved heading stays where it was.                 *)
DissolvedWithoutLift(c, u) == [c EXCEPT ![u].kind = "prose"]

(* toggle_heading on a heading: its children take places right after it among  *)
(* its own siblings.                                                           *)
Dissolved(c, u) ==
    LET kids     == Kids(c, u)
        siblings == Kids(c, c[u].parent)
        before(v) ==
            IF v \in kids
            THEN {w \in siblings : c[w].pos <= c[u].pos}
                    \cup {w \in kids : c[w].pos < c[v].pos}
            ELSE {w \in siblings : c[w].pos < c[v].pos}
                    \cup (IF c[v].pos > c[u].pos THEN kids ELSE {})
        prose    == [c EXCEPT ![u].kind = "prose"]
    IN  IF kids = {} THEN prose
        ELSE [v \in DOMAIN c |->
                IF v \in kids \cup siblings
                THEN [prose[v] EXCEPT !.parent = c[u].parent, !.pos = Cardinality(before(v))]
                ELSE prose[v]]

MayToggle(c, u) == u \in DOMAIN c /\ c[u].kind \in {"prose", "heading"}

Toggled(c, u) == IF c[u].kind = "prose" THEN Promoted(c, u) ELSE Dissolved(c, u)

(* set_unit_type                                                               *)
MayRetype(c, u) == u \in DOMAIN c

Retyped(c, u, t) == [c EXCEPT ![u].type = t]

--------------------------------------------------------------------------------
(* save_content: `ups` is a content of the units the editor sends, `dels` the  *)
(* ids it removes.                                                             *)
Saved(c, ups, dels) ==
    [u \in (DOMAIN c \cup DOMAIN ups) \ dels |-> IF u \in DOMAIN ups THEN ups[u] ELSE c[u]]

(* Of a unit it has only content and position may change.                      *)
FacetsKept(old, new) ==
    old.parent = new.parent /\ old.kind = new.kind /\ old.type = new.type

(* A new unit is untyped; a heading is never made here; a section's new body   *)
(* is prose or math.                                                           *)
NewUnitAllowed(c, r) ==
    /\ r.type = NoType
    /\ r.kind # "heading"
    /\ r.parent # Top =>
        /\ r.parent \in DOMAIN c
        /\ c[r.parent].kind = "heading"
        /\ r.kind \in {"prose", "math"}

Deletable(c, u) ==
    u \in DOMAIN c /\ c[u].type = NoType /\ c[u].kind # "heading"

MaySave(c, ups, dels) ==
    /\ DOMAIN ups \cap dels = {}
    /\ \A u \in DOMAIN ups :
            IF u \in DOMAIN c THEN FacetsKept(c[u], ups[u]) ELSE NewUnitAllowed(c, ups[u])
    /\ \A u \in dels : Deletable(c, u)
    /\ WellFormed(Saved(c, ups, dels))
================================================================================
