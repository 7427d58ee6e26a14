------------------------------ MODULE OutlineProofs ----------------------------
(* The units of one object stay a forest of sections, whatever operations the  *)
(* server accepts; and what an editor with its saves, merges, toggles and      *)
(* moves, interleaved with another device, does to the server are such         *)
(* operations; a merge loses no line of either side; and what the screen shows *)
(* when everything is saved is what is stored; and what it sends is not        *)
(* refused while nobody else writes.  For any day to start with, any number of *)
(* units, gestures, changes of the other device, requests that fail and        *)
(* retries.                                                                    *)
EXTENDS Outline, FiniteSetTheorems, SequenceTheorems, TLAPS

--------------------------------------------------------------------------------
(* The operations of the core.                                                 *)

(* Of two finite sets, one within the other but for x, the latter is larger.   *)
LEMMA StrictlyMore ==
    ASSUME NEW T, IsFiniteSet(T), NEW S \in SUBSET T, NEW x \in T \ S
    PROVE  Cardinality(S) # Cardinality(T)
  BY FS_Subset

(* A content has finitely many units.                                          *)
LEMMA FiniteContent ==
    ASSUME NEW c, IsContent(c)
    PROVE  /\ IsFiniteSet(DOMAIN c)
           /\ \A S \in SUBSET DOMAIN c : IsFiniteSet(S) /\ Cardinality(S) \in Nat
  <1>1. IsFiniteSet(DOMAIN c)
    BY FS_Subset, TreeAssumption DEF IsContent
  <1>2. \A S \in SUBSET DOMAIN c : IsFiniteSet(S)
    BY <1>1, FS_Subset
  <1> QED BY <1>1, <1>2, FS_CardinalityType

(* Numbering gives positions and changes nothing else.                         *)
LEMMA NumberedContent ==
    ASSUME NEW c, IsContent(c), NEW S \in SUBSET DOMAIN c
    PROVE  /\ IsContent(Numbered(c, S))
           /\ DOMAIN Numbered(c, S) = DOMAIN c
           /\ \A v \in DOMAIN c : /\ Numbered(c, S)[v].parent = c[v].parent
                                  /\ Numbered(c, S)[v].kind = c[v].kind
                                  /\ v \notin S => Numbered(c, S)[v] = c[v]
                                  /\ v \in S => Numbered(c, S)[v].pos =
                                        Cardinality({w \in S : c[w].pos < c[v].pos})
  <1> DEFINE at(v) == Cardinality({w \in S : c[w].pos < c[v].pos})
  <1>1. \A v \in DOMAIN c : at(v) \in Nat
    <2> TAKE v \in DOMAIN c
    <2>1. {w \in S : c[w].pos < c[v].pos} \in SUBSET DOMAIN c
      OBVIOUS
    <2> QED BY <2>1, FiniteContent
  <1>2. Numbered(c, S) = [v \in DOMAIN c |-> IF v \in S THEN [c[v] EXCEPT !.pos = at(v)] ELSE c[v]]
    BY DEF Numbered
  <1> HIDE DEF at
  <1>3. \A v \in DOMAIN c : c[v] \in UnitRecord
    BY DEF IsContent
  <1>4. \A v \in S : /\ [c[v] EXCEPT !.pos = at(v)] \in UnitRecord
                     /\ [c[v] EXCEPT !.pos = at(v)].parent = c[v].parent
                     /\ [c[v] EXCEPT !.pos = at(v)].kind = c[v].kind
                     /\ [c[v] EXCEPT !.pos = at(v)].pos = at(v)
    BY <1>1, <1>3 DEF UnitRecord
  <1>5. IsContent(Numbered(c, S)) /\ DOMAIN Numbered(c, S) = DOMAIN c
    BY <1>2, <1>3, <1>4 DEF IsContent
  <1>6. \A v \in DOMAIN c : /\ Numbered(c, S)[v].parent = c[v].parent
                            /\ Numbered(c, S)[v].kind = c[v].kind
                            /\ v \notin S => Numbered(c, S)[v] = c[v]
                            /\ v \in S => Numbered(c, S)[v].pos = at(v)
    BY <1>2, <1>4
  <1> QED BY <1>5, <1>6 DEF at

(* Units of a family with different positions have different ones afterwards.  *)
LEMMA NumberedApart ==
    ASSUME NEW c, IsContent(c), NEW S \in SUBSET DOMAIN c,
           \A v, w \in S : c[v].pos = c[w].pos => v = w
    PROVE  \A v, w \in S : Numbered(c, S)[v].pos = Numbered(c, S)[w].pos => v = w
  <1> DEFINE before(v) == {w \in S : c[w].pos < c[v].pos}
  <1>1. \A v \in S : c[v].pos \in Nat
    BY DEF IsContent, UnitRecord
  <1>2. ASSUME NEW v \in S, NEW w \in S, c[v].pos < c[w].pos
        PROVE  Cardinality(before(v)) # Cardinality(before(w))
    <2>1. before(v) \in SUBSET before(w)
      BY <1>1, <1>2
    <2>2. v \in before(w) \ before(v)
      BY <1>1, <1>2
    <2>3. IsFiniteSet(before(w))
      <3>1. before(w) \in SUBSET DOMAIN c
        OBVIOUS
      <3> QED BY <3>1, FiniteContent
    <2> QED BY <2>1, <2>2, <2>3, StrictlyMore
  <1>3. ASSUME NEW v \in S, NEW w \in S, v # w
        PROVE  Cardinality(before(v)) # Cardinality(before(w))
    <2>1. c[v].pos < c[w].pos \/ c[w].pos < c[v].pos
      BY <1>1, <1>3
    <2> QED BY <2>1, <1>2
  <1>4. \A v \in S : Numbered(c, S)[v].pos = Cardinality(before(v))
    BY NumberedContent
  <1> HIDE DEF before
  <1> QED BY <1>3, <1>4

--------------------------------------------------------------------------------
(* What is below a unit holds the unit, and the children of what it holds.     *)
LEMMA SubtreeClosed ==
    ASSUME NEW c, NEW u \in DOMAIN c
    PROVE  /\ u \in Subtree(c, u)
           /\ \A w \in DOMAIN c : c[w].parent \in Subtree(c, u) => w \in Subtree(c, u)
  <1> DEFINE Holds(S) == u \in S /\ \A w \in DOMAIN c : c[w].parent \in S => w \in S
  <1>1. \A v \in DOMAIN c : v \in Subtree(c, u) <=> \A S \in SUBSET DOMAIN c : Holds(S) => v \in S
    BY DEF Subtree
  <1>2. Subtree(c, u) \subseteq DOMAIN c
    BY DEF Subtree
  <1>3. ASSUME NEW w \in DOMAIN c, c[w].parent \in Subtree(c, u),
               NEW S \in SUBSET DOMAIN c, Holds(S)
        PROVE  w \in S
    BY <1>1, <1>2, <1>3
  <1> QED BY <1>1, <1>3

(* A content whose units have parents and kinds like those of another.         *)
LEMMA SameOutline ==
    ASSUME NEW c, NEW d, DOMAIN d = DOMAIN c, Acyclic(c),
           \A v \in DOMAIN c : d[v].parent = c[v].parent
    PROVE  Acyclic(d)
  BY DEF Acyclic

--------------------------------------------------------------------------------
(* What a move below p promises: of parents and kinds only the parent of u     *)
(* changes, and siblings have different positions.                             *)
MovedBelow(c, d, u, p) ==
    /\ DOMAIN d = DOMAIN c
    /\ \A v \in DOMAIN c : d[v].parent = IF v = u THEN p ELSE c[v].parent
    /\ \A v \in DOMAIN c : d[v].kind = c[v].kind
    /\ WellFormed(c) =>
        \A v, w \in DOMAIN c : d[v].parent = d[w].parent /\ d[v].pos = d[w].pos => v = w

(* reparent_unit keeps it.                                                     *)
LEMMA ReparentedMoves ==
    ASSUME NEW c, IsContent(c), NEW u \in DOMAIN c, NEW p \in DOMAIN c \cup {Top}, NEW n \in Place
    PROVE  /\ IsContent(Reparented(c, u, p, n))
           /\ MovedBelow(c, Reparented(c, u, p, n), u, p)
  <1> DEFINE old  == Kids(c, c[u].parent) \ {u}
             new  == Kids(c, p) \cup {u}
             left == Numbered(c, old)
             room == [v \in DOMAIN c |->
                        IF v = u THEN [left[v] EXCEPT !.parent = p, !.pos = n]
                        ELSE IF c[v].parent = p /\ left[v].pos >= n
                        THEN [left[v] EXCEPT !.pos = @ + 1]
                        ELSE left[v]]
             done == Numbered(room, new)
  <1>1. old \in SUBSET DOMAIN c /\ new \in SUBSET DOMAIN c
    BY DEF Kids
  <1>2. /\ IsContent(left) /\ DOMAIN left = DOMAIN c
        /\ \A v \in DOMAIN c : /\ left[v].parent = c[v].parent
                               /\ left[v].kind = c[v].kind
                               /\ v \notin old => left[v] = c[v]
    BY <1>1, NumberedContent
  <1>3. /\ \A v \in DOMAIN c : left[v] \in UnitRecord
        /\ p \in Unit \cup {Top}
        /\ n \in Nat
    BY <1>2, TreeAssumption DEF IsContent
  <1> HIDE DEF left
  <1>4. \A v \in DOMAIN c :
            /\ room[v] \in UnitRecord
            /\ room[v].kind = c[v].kind
            /\ room[v].parent = IF v = u THEN p ELSE c[v].parent
            /\ room[v].pos = IF v = u THEN n
                             ELSE IF c[v].parent = p /\ left[v].pos >= n THEN left[v].pos + 1
                             ELSE left[v].pos
    <2> TAKE v \in DOMAIN c
    <2>1. CASE v = u
      BY <2>1, <1>2, <1>3 DEF UnitRecord
    <2>2. CASE v # u /\ c[v].parent = p /\ left[v].pos >= n
      BY <2>2, <1>2, <1>3 DEF UnitRecord
    <2>3. CASE v # u /\ ~(c[v].parent = p /\ left[v].pos >= n)
      BY <2>3, <1>2, <1>3
    <2> QED BY <2>1, <2>2, <2>3
  <1>5. IsContent(room) /\ DOMAIN room = DOMAIN c
    <2>1. DOMAIN c \subseteq Unit
      BY DEF IsContent
    <2> QED BY <1>4, <2>1 DEF IsContent
  <1>6. Reparented(c, u, p, n) = done
    BY DEF Reparented, left
  <1> HIDE DEF room
  <1>7. /\ IsContent(done) /\ DOMAIN done = DOMAIN c
        /\ \A v \in DOMAIN c : /\ done[v].parent = room[v].parent
                               /\ done[v].kind = room[v].kind
                               /\ v \notin new => done[v] = room[v]
    <2>1. new \in SUBSET DOMAIN room
      BY <1>1, <1>5
    <2> HIDE DEF new
    <2>2. /\ IsContent(Numbered(room, new)) /\ DOMAIN Numbered(room, new) = DOMAIN room
          /\ \A v \in DOMAIN room : /\ Numbered(room, new)[v].parent = room[v].parent
                                    /\ Numbered(room, new)[v].kind = room[v].kind
                                    /\ v \notin new => Numbered(room, new)[v] = room[v]
      BY <1>5, <2>1, NumberedContent
    <2> QED BY <1>5, <2>2
  <1>8. ASSUME WellFormed(c), NEW v \in DOMAIN c, NEW w \in DOMAIN c,
               done[v].parent = done[w].parent, done[v].pos = done[w].pos
        PROVE  v = w
    <2>1. \A x, y \in DOMAIN c : c[x].parent = c[y].parent /\ c[x].pos = c[y].pos => x = y
      BY <1>8 DEF WellFormed
    <2>2. \A x, y \in old : left[x].pos = left[y].pos => x = y
      <3>1. \A x, y \in old : c[x].pos = c[y].pos => x = y
        BY <2>1 DEF Kids
      <3> QED BY <3>1, <1>1, NumberedApart DEF left
    <2>3. \A x, y \in DOMAIN c \ {u} :
              c[x].parent = c[y].parent /\ left[x].pos = left[y].pos => x = y
      <3> TAKE x, y \in DOMAIN c \ {u}
      <3> HAVE c[x].parent = c[y].parent /\ left[x].pos = left[y].pos
      <3>1. CASE c[x].parent = c[u].parent
        BY <3>1, <2>2 DEF Kids
      <3>2. CASE c[x].parent # c[u].parent
        BY <3>2, <2>1, <1>2 DEF Kids
      <3> QED BY <3>1, <3>2
    <2>4. \A x \in DOMAIN c : left[x].pos \in Nat
      BY <1>3 DEF UnitRecord
    <2>5. CASE v \in new /\ w \in new
      <3>1. \A x \in new \ {u} : c[x].parent = p
        BY DEF Kids
      <3>2. \A x, y \in new : room[x].pos = room[y].pos => x = y
        BY <3>1, <2>3, <2>4, <1>1, <1>3, <1>4
      <3>3. \A x, y \in new : done[x].pos = done[y].pos => x = y
        BY <3>2, <1>1, <1>5, NumberedApart
      <3> QED BY <3>3, <2>5, <1>8
    <2>6. CASE v \notin new \/ w \notin new
      <3>1. v \notin new /\ w \notin new
        BY <2>6, <1>4, <1>7, <1>8 DEF Kids
      <3>2. done[v] = room[v] /\ done[w] = room[w] /\ v # u /\ w # u
        BY <3>1, <1>7
      <3>3. c[v].parent # p /\ c[w].parent # p
        BY <3>1 DEF Kids
      <3>4. left[v].pos = left[w].pos /\ c[v].parent = c[w].parent
        BY <3>2, <3>3, <1>4, <1>8
      <3> QED BY <3>2, <3>4, <2>3
    <2> QED BY <2>5, <2>6
  <1>9. \A v \in DOMAIN c : /\ done[v].parent = IF v = u THEN p ELSE c[v].parent
                           /\ done[v].kind = c[v].kind
    BY <1>4, <1>7
  <1>10. WellFormed(c) => \A v, w \in DOMAIN c :
            done[v].parent = done[w].parent /\ done[v].pos = done[w].pos => v = w
    BY <1>8
  <1> HIDE DEF done
  <1> QED BY <1>6, <1>7, <1>9, <1>10 DEF MovedBelow

(* A unit that may go below p leaves a forest there.                           *)
LEMMA ReparentedForest ==
    ASSUME NEW c, IsContent(c), WellFormed(c), Acyclic(c),
           NEW u \in DOMAIN c, NEW p \in DOMAIN c \cup {Top}, NEW n \in Place,
           MayReparent(c, u, p)
    PROVE  WellFormed(Reparented(c, u, p, n)) /\ Acyclic(Reparented(c, u, p, n))
  <1> DEFINE d == Reparented(c, u, p, n)
  <1>1. /\ DOMAIN d = DOMAIN c
        /\ \A v \in DOMAIN c : d[v].parent = IF v = u THEN p ELSE c[v].parent
        /\ \A v \in DOMAIN c : d[v].kind = c[v].kind
        /\ \A v, w \in DOMAIN c : d[v].parent = d[w].parent /\ d[v].pos = d[w].pos => v = w
    <2>1. MovedBelow(c, d, u, p)
      BY ReparentedMoves
    <2> HIDE DEF d
    <2> QED BY <2>1 DEF MovedBelow
  <1> HIDE DEF d
  <1>2. WellFormed(d)
    <2>1. p # Top => p \in DOMAIN c /\ c[p].kind = "heading"
      BY DEF MayReparent
    <2>2. \A v \in DOMAIN c : c[v].parent # Top =>
              c[v].parent \in DOMAIN c /\ c[c[v].parent].kind = "heading"
      BY DEF WellFormed
    <2> QED BY <1>1, <2>1, <2>2 DEF WellFormed
  <1>3. Acyclic(d)
    <2> SUFFICES ASSUME NEW S \in SUBSET DOMAIN c, S # {}
                 PROVE  \E v \in S : d[v].parent \notin S
      BY <1>1 DEF Acyclic
    <2>1. CASE u \notin S
      BY <2>1, <1>1 DEF Acyclic
    <2>2. CASE u \in S /\ p \notin S
      BY <2>2, <1>1
    <2>3. CASE u \in S /\ p \in S
      <3> DEFINE T == S \ Subtree(c, u)
      <3>1. p # Top
        BY <2>3, TreeAssumption DEF IsContent
      <3>2. p \in T
        BY <2>3, <3>1 DEF MayReparent
      <3>3. PICK w \in T : c[w].parent \notin T
        BY <3>2 DEF Acyclic
      <3>4. w # u /\ c[w].parent \notin Subtree(c, u)
        BY <3>3, SubtreeClosed
      <3> QED BY <3>3, <3>4, <1>1
    <2> QED BY <2>1, <2>2, <2>3
  <1> QED BY <1>2, <1>3 DEF d

--------------------------------------------------------------------------------
(* toggle_heading on a paragraph: nobody is below it, or it may stay so.       *)
LEMMA PromotedForest ==
    ASSUME NEW c, IsContent(c), WellFormed(c), Acyclic(c), NEW u \in DOMAIN c
    PROVE  /\ IsContent(Promoted(c, u))
           /\ WellFormed(Promoted(c, u))
           /\ Acyclic(Promoted(c, u))
  <1> DEFINE d == Promoted(c, u)
  <1>1. \A v \in DOMAIN c : c[v] \in UnitRecord
    BY DEF IsContent
  <1>2. /\ DOMAIN d = DOMAIN c
        /\ \A v \in DOMAIN c : /\ d[v] \in UnitRecord
                               /\ d[v].parent = c[v].parent
                               /\ d[v].pos = c[v].pos
                               /\ d[v].kind = IF v = u THEN "heading" ELSE c[v].kind
    BY <1>1 DEF Promoted, UnitRecord, Kind
  <1> HIDE DEF d
  <1>3. IsContent(d)
    <2>1. d = [v \in DOMAIN d |-> d[v]]
      BY DEF d, Promoted
    <2> QED BY <1>2, <2>1 DEF IsContent
  <1>4. WellFormed(d)
    BY <1>2 DEF WellFormed
  <1>5. Acyclic(d)
    BY <1>2, SameOutline
  <1> QED BY <1>3, <1>4, <1>5 DEF d

(* What a dissolved heading u leaves: its children belong to its own parent,   *)
(* and siblings have different positions.                                      *)
LiftedFrom(c, d, u) ==
    /\ DOMAIN d = DOMAIN c
    /\ \A v \in DOMAIN c : d[v].parent = IF c[v].parent = u THEN c[u].parent ELSE c[v].parent
    /\ \A v \in DOMAIN c : d[v].kind = IF v = u THEN "prose" ELSE c[v].kind
    /\ \A v, w \in DOMAIN c : d[v].parent = d[w].parent /\ d[v].pos = d[w].pos => v = w

LEMMA DissolvedLifts ==
    ASSUME NEW c, IsContent(c), WellFormed(c), Acyclic(c), NEW u \in DOMAIN c
    PROVE  IsContent(Dissolved(c, u)) /\ LiftedFrom(c, Dissolved(c, u), u)
  <1> DEFINE kids     == Kids(c, u)
             siblings == Kids(c, c[u].parent)
             before(v) ==
                IF v \in kids
                THEN {w \in siblings : c[w].pos <= c[u].pos}
                        \cup {w \in kids : c[w].pos < c[v].pos}
                ELSE {w \in siblings : c[w].pos < c[v].pos}
                        \cup (IF c[v].pos > c[u].pos THEN kids ELSE {})
             prose    == [c EXCEPT ![u].kind = "prose"]
             d        == Dissolved(c, u)
  <1>1. \A v \in DOMAIN c : c[v] \in UnitRecord
    BY DEF IsContent
  <1>2. \A v \in DOMAIN c : /\ prose[v] \in UnitRecord
                            /\ prose[v].parent = c[v].parent
                            /\ prose[v].pos = c[v].pos
                            /\ prose[v].kind = IF v = u THEN "prose" ELSE c[v].kind
    BY <1>1 DEF UnitRecord, Kind
  <1>3. c[u].parent # u
    <2>1. {u} \in SUBSET DOMAIN c /\ {u} # {}
      OBVIOUS
    <2> QED BY <2>1 DEF Acyclic
  <1>4. \A x, y \in DOMAIN c : c[x].parent = c[y].parent /\ c[x].pos = c[y].pos => x = y
    BY DEF WellFormed
  <1>5. IsContent(prose) /\ DOMAIN prose = DOMAIN c
    <2>1. DOMAIN c \subseteq Unit
      BY DEF IsContent
    <2> QED BY <1>2, <2>1 DEF IsContent
  <1>6. CASE kids = {}
    <2>1. d = prose
      BY <1>6 DEF Dissolved
    <2>2. \A v \in DOMAIN c : c[v].parent # u
      BY <1>6 DEF Kids
    <2> HIDE DEF prose, d
    <2>3. LiftedFrom(c, d, u)
      BY <2>1, <2>2, <1>2, <1>4, <1>5 DEF LiftedFrom
    <2> QED BY <2>1, <2>3, <1>5 DEF d
  <1>7. CASE kids # {}
    <2>1. d = [v \in DOMAIN c |->
                IF v \in kids \cup siblings
                THEN [prose[v] EXCEPT !.parent = c[u].parent, !.pos = Cardinality(before(v))]
                ELSE prose[v]]
      BY <1>7 DEF Dissolved
    <2>2. \A v \in DOMAIN c : before(v) \in SUBSET DOMAIN c
      BY DEF Kids
    <2>3. \A v \in DOMAIN c : IsFiniteSet(before(v)) /\ Cardinality(before(v)) \in Nat
      BY <2>2, FiniteContent
    <2>4. ASSUME NEW v \in kids \cup siblings, NEW w \in kids \cup siblings, v # w
          PROVE  Cardinality(before(v)) # Cardinality(before(w))
      <3>1. /\ v \in DOMAIN c /\ w \in DOMAIN c /\ u \in siblings
            /\ c[v].pos \in Nat /\ c[w].pos \in Nat /\ c[u].pos \in Nat
            /\ \A x \in DOMAIN c : c[x].pos \in Nat
        BY <1>1 DEF Kids, UnitRecord
      <3>2. \A x \in kids : x \notin siblings
        BY <1>3 DEF Kids
      <3>3. ASSUME NEW x \in kids \cup siblings, NEW y \in kids \cup siblings,
                   before(x) \subseteq before(y), \E z : z \in before(y) \ before(x)
            PROVE  Cardinality(before(x)) # Cardinality(before(y))
        <4>1. IsFiniteSet(before(y))
          BY <2>3 DEF Kids
        <4> HIDE DEF before
        <4> QED BY <3>3, <4>1, StrictlyMore
      <3>4. ASSUME NEW x \in kids, NEW y \in kids, c[x].pos < c[y].pos
            PROVE  before(x) \subseteq before(y) /\ x \in before(y) \ before(x)
        BY <3>1, <3>2, <3>4 DEF Kids
      <3>5. ASSUME NEW x \in siblings, NEW y \in siblings, c[x].pos < c[y].pos
            PROVE  before(x) \subseteq before(y) /\ x \in before(y) \ before(x)
        BY <3>1, <3>2, <3>5 DEF Kids
      <3>6. ASSUME NEW x \in kids, NEW y \in siblings, c[y].pos <= c[u].pos
            PROVE  before(y) \subseteq before(x) /\ y \in before(x) \ before(y)
        BY <3>1, <3>2, <3>6 DEF Kids
      <3>7. ASSUME NEW x \in kids, NEW y \in siblings, c[y].pos > c[u].pos
            PROVE  before(x) \subseteq before(y) /\ x \in before(y) \ before(x)
        BY <3>1, <3>2, <3>7 DEF Kids
      <3>8. \A x, y \in kids \cup siblings :
                (x \in kids <=> y \in kids) => c[x].pos < c[y].pos \/ c[y].pos < c[x].pos \/ x = y
        BY <1>4, <3>1 DEF Kids
      <3>9. \A y \in siblings : c[y].pos <= c[u].pos \/ c[y].pos > c[u].pos
        BY <3>1 DEF Kids
      <3> HIDE DEF before, kids, siblings
      <3>10. CASE v \in kids /\ w \in kids
        BY <3>10, <3>8, <3>4, <3>3, <2>4
      <3>11. CASE v \in siblings /\ w \in siblings
        BY <3>11, <3>2, <3>8, <3>5, <3>3, <2>4
      <3>12. CASE v \in kids /\ w \in siblings
        BY <3>12, <3>9, <3>6, <3>7, <3>3
      <3>13. CASE v \in siblings /\ w \in kids
        BY <3>13, <3>9, <3>6, <3>7, <3>3
      <3> QED BY <3>10, <3>11, <3>12, <3>13
    <2>5. \A v \in DOMAIN c :
            /\ d[v] \in UnitRecord
            /\ d[v].kind = prose[v].kind
            /\ d[v].parent = IF v \in kids \cup siblings THEN c[u].parent ELSE c[v].parent
            /\ d[v].pos = IF v \in kids \cup siblings THEN Cardinality(before(v)) ELSE c[v].pos
      <3> HIDE DEF before, kids, siblings, prose, d
      <3> TAKE v \in DOMAIN c
      <3>1. c[u].parent \in Unit \cup {Top} /\ prose[v] \in UnitRecord
        BY <1>1, <1>2 DEF UnitRecord
      <3>2. CASE v \in kids \cup siblings
        BY <3>1, <3>2, <2>1, <2>3 DEF UnitRecord
      <3>3. CASE v \notin kids \cup siblings
        BY <3>1, <3>3, <2>1, <1>2
      <3> QED BY <3>2, <3>3
    <2>6. IsContent(d) /\ DOMAIN d = DOMAIN c
      <3>1. DOMAIN c \subseteq Unit
        BY DEF IsContent
      <3>2. d = [v \in DOMAIN c |-> d[v]]
        BY <2>1
      <3> HIDE DEF d
      <3> QED BY <2>5, <3>1, <3>2 DEF IsContent
    <2>7. \A v \in DOMAIN c : v \in kids \cup siblings
                <=> (IF c[v].parent = u THEN c[u].parent ELSE c[v].parent) = c[u].parent
      BY DEF Kids
    <2> HIDE DEF before, kids, siblings, prose, d
    <2>8. \A v \in DOMAIN c : d[v].parent = IF c[v].parent = u THEN c[u].parent ELSE c[v].parent
      BY <2>5, <2>7 DEF kids, siblings, Kids
    <2>9. \A v, w \in DOMAIN c : d[v].parent = d[w].parent /\ d[v].pos = d[w].pos => v = w
      <3> TAKE v, w \in DOMAIN c
      <3> HAVE d[v].parent = d[w].parent /\ d[v].pos = d[w].pos
      <3>1. v \in kids \cup siblings <=> w \in kids \cup siblings
        BY <2>7, <2>8
      <3>2. CASE v \in kids \cup siblings
        BY <3>1, <3>2, <2>4, <2>5
      <3>3. CASE v \notin kids \cup siblings
        BY <3>1, <3>3, <2>5, <1>4
      <3> QED BY <3>2, <3>3
    <2>10. LiftedFrom(c, d, u)
      BY <2>5, <2>6, <2>8, <2>9, <1>2 DEF LiftedFrom
    <2> QED BY <2>6, <2>10 DEF d
  <1> QED BY <1>6, <1>7

LEMMA DissolvedForest ==
    ASSUME NEW c, IsContent(c), WellFormed(c), Acyclic(c), NEW u \in DOMAIN c
    PROVE  WellFormed(Dissolved(c, u)) /\ Acyclic(Dissolved(c, u))
  <1> DEFINE d == Dissolved(c, u)
  <1>1. LiftedFrom(c, d, u)
    BY DissolvedLifts
  <1> HIDE DEF d
  <1>2. c[u].parent # u
    <2>1. {u} \in SUBSET DOMAIN c /\ {u} # {}
      OBVIOUS
    <2> QED BY <2>1 DEF Acyclic
  <1>3. WellFormed(d)
    BY <1>1, <1>2 DEF LiftedFrom, WellFormed
  <1>4. Acyclic(d)
    <2> SUFFICES ASSUME NEW S \in SUBSET DOMAIN c, S # {}
                 PROVE  \E v \in S : d[v].parent \notin S
      BY <1>1 DEF LiftedFrom, Acyclic
    <2>1. PICK w \in S \cup {u} : c[w].parent \notin S \cup {u}
      <3>1. S \cup {u} \in SUBSET DOMAIN c /\ S \cup {u} # {}
        OBVIOUS
      <3> QED BY <3>1 DEF Acyclic
    <2>2. CASE w \in S
      BY <2>1, <2>2, <1>1 DEF LiftedFrom
    <2>3. CASE w \notin S
      <3>1. PICK v \in S : c[v].parent \notin S
        BY DEF Acyclic
      <3> QED BY <3>1, <2>1, <2>3, <1>1 DEF LiftedFrom
    <2> QED BY <2>2, <2>3
  <1> QED BY <1>3, <1>4 DEF d

(* set_unit_type                                                               *)
LEMMA RetypedForest ==
    ASSUME NEW c, IsContent(c), WellFormed(c), Acyclic(c),
           NEW u \in DOMAIN c, NEW t \in Type \cup {NoType}
    PROVE  /\ IsContent(Retyped(c, u, t))
           /\ WellFormed(Retyped(c, u, t))
           /\ Acyclic(Retyped(c, u, t))
  <1> DEFINE d == Retyped(c, u, t)
  <1>1. \A v \in DOMAIN c : c[v] \in UnitRecord
    BY DEF IsContent
  <1>2. /\ DOMAIN d = DOMAIN c
        /\ \A v \in DOMAIN c : /\ d[v] \in UnitRecord
                               /\ d[v].parent = c[v].parent
                               /\ d[v].pos = c[v].pos
                               /\ d[v].kind = c[v].kind
    BY <1>1 DEF Retyped, UnitRecord
  <1> HIDE DEF d
  <1>3. IsContent(d)
    <2>1. d = [v \in DOMAIN d |-> d[v]]
      BY DEF d, Retyped
    <2> QED BY <1>2, <2>1 DEF IsContent
  <1>4. WellFormed(d)
    BY <1>2 DEF WellFormed
  <1>5. Acyclic(d)
    BY <1>2, SameOutline
  <1> QED BY <1>3, <1>4, <1>5 DEF d

(* A save keeps the parents of what was there and puts what is new under what  *)
(* was there: no cycle is closed.  That it is well formed, the core checks.    *)
LEMMA SavedForest ==
    ASSUME NEW c, IsContent(c), WellFormed(c), Acyclic(c),
           NEW d, IsContent(d), MaySave(c, d, DOMAIN c \ DOMAIN d)
    PROVE  WellFormed(d) /\ Acyclic(d)
  <1>1. WellFormed(d)
    <2>1. Saved(c, d, DOMAIN c \ DOMAIN d) = [u \in DOMAIN d |-> d[u]]
      BY DEF Saved
    <2>2. d = [u \in DOMAIN d |-> d[u]]
      BY DEF IsContent
    <2> QED BY <2>1, <2>2 DEF MaySave
  <1>2. Acyclic(d)
    <2> SUFFICES ASSUME NEW S \in SUBSET DOMAIN d, S # {}
                 PROVE  \E w \in S : d[w].parent \notin S
      BY DEF Acyclic
    <2>1. Top \notin S
      BY TreeAssumption DEF IsContent
    <2>2. CASE S \cap DOMAIN c = {}
      <3>1. PICK w \in S : w \notin DOMAIN c
        BY <2>2
      <3>2. d[w].parent = Top \/ d[w].parent \in DOMAIN c
        BY <3>1 DEF MaySave, NewUnitAllowed
      <3> QED BY <3>2, <2>1, <2>2
    <2>3. CASE S \cap DOMAIN c # {}
      <3>1. PICK w \in S \cap DOMAIN c : c[w].parent \notin S \cap DOMAIN c
        BY <2>3 DEF Acyclic
      <3>2. d[w].parent = c[w].parent
        BY <3>1 DEF MaySave, FacetsKept
      <3>3. c[w].parent = Top \/ c[w].parent \in DOMAIN c
        BY <3>1 DEF WellFormed
      <3> QED BY <3>1, <3>2, <3>3, <2>1
    <2> QED BY <2>2, <2>3
  <1> QED BY <1>1, <1>2

--------------------------------------------------------------------------------
(* UnitTree's operators are those of TreeOps.                                  *)
LEMMA SameKids ==
    ASSUME NEW c, NEW p
    PROVE  Tree!Kids(c, p) = Kids(c, p)
  BY DEF Tree!Kids, Kids

LEMMA SameCardinality ==
    ASSUME NEW S
    PROVE  Tree!Cardinality(S) = Cardinality(S)
  BY DEF Tree!Cardinality, Cardinality

LEMMA SameContent ==
    ASSUME NEW c
    PROVE  /\ Tree!IsContent(c) <=> IsContent(c)
           /\ Tree!WellFormed(c) <=> WellFormed(c)
           /\ Tree!Acyclic(c) <=> Acyclic(c)
  <1>1. Tree!IsContent(c) <=> IsContent(c)
    BY DEF Tree!IsContent, IsContent, Tree!UnitRecord, UnitRecord, Tree!Text, Text,
           Tree!Kind, Kind
  <1>2. Tree!WellFormed(c) <=> WellFormed(c)
    BY DEF Tree!WellFormed, WellFormed
  <1>3. Tree!Acyclic(c) <=> Acyclic(c)
    BY DEF Tree!Acyclic, Acyclic
  <1> QED BY <1>1, <1>2, <1>3

LEMMA SameNumbered ==
    ASSUME NEW c, NEW S
    PROVE  Tree!Numbered(c, S) = Numbered(c, S)
  <1> DEFINE at(v) == IF v \in S
                      THEN [c[v] EXCEPT !.pos = Cardinality({w \in S : c[w].pos < c[v].pos})]
                      ELSE c[v]
  <1>1. Tree!Numbered(c, S) = [v \in DOMAIN c |-> at(v)]
    BY SameCardinality DEF Tree!Numbered
  <1>2. Numbered(c, S) = [v \in DOMAIN c |-> at(v)]
    BY DEF Numbered
  <1> HIDE DEF at
  <1> QED BY <1>1, <1>2

LEMMA SameReparented ==
    ASSUME NEW c, NEW u, NEW p, NEW n
    PROVE  /\ Tree!Reparented(c, u, p, n) = Reparented(c, u, p, n)
           /\ Tree!MayReparent(c, u, p) <=> MayReparent(c, u, p)
  <1>1. Tree!Reparented(c, u, p, n) = Reparented(c, u, p, n)
    BY SameKids, SameNumbered, ZenonT(60) DEF Tree!Reparented, Reparented
  <1>2. Tree!Subtree(c, u) = Subtree(c, u)
    BY DEF Tree!Subtree, Subtree
  <1>3. Tree!MayReparent(c, u, p) <=> MayReparent(c, u, p)
    BY <1>2 DEF Tree!MayReparent, MayReparent
  <1> QED BY <1>1, <1>3

LEMMA SameToggled ==
    ASSUME NEW c, NEW u
    PROVE  /\ Tree!Toggled(c, u) = Toggled(c, u)
           /\ Tree!MayToggle(c, u) <=> MayToggle(c, u)
  <1> DEFINE kids     == Kids(c, u)
             siblings == Kids(c, c[u].parent)
             before(v) ==
                IF v \in kids
                THEN {w \in siblings : c[w].pos <= c[u].pos}
                        \cup {w \in kids : c[w].pos < c[v].pos}
                ELSE {w \in siblings : c[w].pos < c[v].pos}
                        \cup (IF c[v].pos > c[u].pos THEN kids ELSE {})
             prose    == [c EXCEPT ![u].kind = "prose"]
             under(v)  ==
                IF v \in Tree!Kids(c, u)
                THEN {w \in Tree!Kids(c, c[u].parent) : c[w].pos <= c[u].pos}
                        \cup {w \in Tree!Kids(c, u) : c[w].pos < c[v].pos}
                ELSE {w \in Tree!Kids(c, c[u].parent) : c[w].pos < c[v].pos}
                        \cup (IF c[v].pos > c[u].pos THEN Tree!Kids(c, u) ELSE {})
             put(v, n) == [prose[v] EXCEPT !.parent = c[u].parent, !.pos = n]
             lifted(v) == IF v \in kids \cup siblings THEN put(v, Cardinality(before(v)))
                          ELSE prose[v]
             there(v)  == IF v \in Tree!Kids(c, u) \cup Tree!Kids(c, c[u].parent)
                          THEN put(v, Tree!Cardinality(under(v)))
                          ELSE prose[v]
  <1>1. Tree!Dissolved(c, u) =
            IF Tree!Kids(c, u) = {} THEN prose ELSE [v \in DOMAIN c |-> there(v)]
    BY DEF Tree!Dissolved
  <1>2. Dissolved(c, u) = IF kids = {} THEN prose ELSE [v \in DOMAIN c |-> lifted(v)]
    BY DEF Dissolved
  <1>3. Tree!Kids(c, u) = kids /\ Tree!Kids(c, c[u].parent) = siblings
    BY SameKids
  <1>4. \A v : there(v) = lifted(v)
    <2> TAKE v
    <2>1. under(v) = before(v)
      BY <1>3
    <2> HIDE DEF under, before, put, kids, siblings, prose
    <2> QED BY <1>3, <2>1, SameCardinality
  <1> HIDE DEF there, lifted, prose, kids
  <1>5. Tree!Dissolved(c, u) = Dissolved(c, u)
    BY <1>1, <1>2, <1>3, <1>4
  <1> QED BY <1>5 DEF Tree!Toggled, Toggled, Tree!Promoted, Promoted, Tree!MayToggle, MayToggle

LEMMA SameRetyped ==
    ASSUME NEW c, NEW u, NEW t
    PROVE  Tree!Retyped(c, u, t) = Retyped(c, u, t)
  BY DEF Tree!Retyped, Retyped

LEMMA SameSaved ==
    ASSUME NEW c, NEW ups, NEW dels
    PROVE  Tree!MaySave(c, ups, dels) <=> MaySave(c, ups, dels)
  <1>1. Tree!Saved(c, ups, dels) = Saved(c, ups, dels)
    BY DEF Tree!Saved, Saved
  <1>2. \A old, new : Tree!FacetsKept(old, new) <=> FacetsKept(old, new)
    BY DEF Tree!FacetsKept, FacetsKept
  <1>3. \A r : Tree!NewUnitAllowed(c, r) <=> NewUnitAllowed(c, r)
    BY DEF Tree!NewUnitAllowed, NewUnitAllowed
  <1>4. \A u : Tree!Deletable(c, u) <=> Deletable(c, u)
    BY DEF Tree!Deletable, Deletable
  <1> QED BY <1>1, <1>2, <1>3, <1>4, SameContent DEF Tree!MaySave, MaySave

--------------------------------------------------------------------------------
(* UnitTree.                                                                   *)

Grown == IsContent(tree) /\ WellFormed(tree) /\ Acyclic(tree) /\ revision \in Nat

LEMMA GrownIs == Grown <=> Tree!TypeOK /\ Tree!Forest
  BY SameContent DEF Grown, Tree!TypeOK, Tree!Forest

LEMMA TreeKeeps == Grown /\ [Tree!Next]_Tree!vars => Grown'
  <1> SUFFICES ASSUME Grown, [Tree!Next]_Tree!vars
               PROVE  Grown'
    OBVIOUS
  <1>1. IsContent(tree) /\ WellFormed(tree) /\ Acyclic(tree) /\ revision \in Nat
    BY DEF Grown
  <1>2. CASE UNCHANGED Tree!vars
    BY <1>1, <1>2 DEF Tree!vars, Grown
  <1>3. CASE Tree!Next
    <2>1. revision' \in Nat
      BY <1>1, <1>3 DEF Tree!Next
    <2>2. CASE Tree!Save
      <3>1. IsContent(tree') /\ MaySave(tree, tree', DOMAIN tree \ DOMAIN tree')
        BY <2>2, SameContent, SameSaved DEF Tree!Save
      <3> QED BY <1>1, <2>1, <3>1, SavedForest DEF Grown
    <2>3. CASE Tree!Reparent
      <3>1. PICK u \in DOMAIN tree, p \in DOMAIN tree \cup {Top}, n \in Place :
                MayReparent(tree, u, p) /\ tree' = Reparented(tree, u, p, n)
        BY <2>3, SameReparented DEF Tree!Reparent
      <3>2. IsContent(tree') /\ WellFormed(tree') /\ Acyclic(tree')
        BY <1>1, <3>1, ReparentedMoves, ReparentedForest
      <3> QED BY <2>1, <3>2 DEF Grown
    <2>4. CASE Tree!ToggleHeading
      <3>1. PICK u \in DOMAIN tree : tree' = Toggled(tree, u)
        BY <2>4, SameToggled DEF Tree!ToggleHeading
      <3>2. IsContent(tree') /\ WellFormed(tree') /\ Acyclic(tree')
        BY <1>1, <3>1, PromotedForest, DissolvedLifts, DissolvedForest DEF Toggled
      <3> QED BY <2>1, <3>2 DEF Grown
    <2>5. CASE Tree!SetUnitType
      <3>1. PICK u \in DOMAIN tree, t \in Type \cup {NoType} : tree' = Retyped(tree, u, t)
        BY <2>5, SameRetyped DEF Tree!SetUnitType
      <3>2. IsContent(tree') /\ WellFormed(tree') /\ Acyclic(tree')
        BY <1>1, <3>1, RetypedForest
      <3> QED BY <2>1, <3>2 DEF Grown
    <2> QED BY <1>3, <2>2, <2>3, <2>4, <2>5 DEF Tree!Next
  <1> QED BY <1>2, <1>3

LEMMA TreeStarts == Tree!Init => Grown
  BY SameContent DEF Tree!Init, Grown

(* Whatever operations the server accepts, in whatever order they come, the    *)
(* units of a day or note have the type of a content (crates/core/src/ops.rs). *)
THEOREM TreeTypes == Tree!Spec => []Tree!TypeOK
  BY TreeStarts, TreeKeeps, GrownIs, PTL DEF Tree!Spec

(* Whatever operations the server accepts, in whatever order they come, every  *)
(* parent is a heading of the object, siblings have different positions and no *)
(* unit is its own ancestor (validate_content_well_formed and the guard of     *)
(* reparent_unit, crates/core/src/ops.rs; save_content has no guard of its own *)
(* against cycles, and needs none).                                            *)
THEOREM TreeForest == Tree!Spec => []Tree!Forest
  BY TreeStarts, TreeKeeps, GrownIs, PTL DEF Tree!Spec


--------------------------------------------------------------------------------
(* The walk.                                                                   *)

(* The headings above a unit: its parent, if that is one, and those above it.  *)
LEMMA AboveClosed ==
    ASSUME NEW c, NEW u
    PROVE  /\ Above(c, u) \subseteq Headings(c)
           /\ \A v \in Lineage(c, u) :
                c[v].parent \in Headings(c) => c[v].parent \in Above(c, u)
  <1> DEFINE Closed(S) ==
                \A v \in S \cup {u} : c[v].parent \in Headings(c) => c[v].parent \in S
  <1>1. \A h : h \in Above(c, u) <=>
                    h \in Headings(c) /\ \A S \in SUBSET Headings(c) : Closed(S) => h \in S
    BY DEF Above
  <1>2. ASSUME NEW v \in Lineage(c, u), c[v].parent \in Headings(c),
               NEW S \in SUBSET Headings(c), Closed(S)
        PROVE  c[v].parent \in S
    <2>1. v \in S \cup {u}
      BY <1>1, <1>2 DEF Lineage
    <2> QED BY <2>1, <1>2
  <1> QED BY <1>1, <1>2

LEMMA AboveLeast ==
    ASSUME NEW c, NEW u, NEW S \in SUBSET Headings(c),
           \A v \in S \cup {u} : c[v].parent \in Headings(c) => c[v].parent \in S
    PROVE  Above(c, u) \subseteq S
  BY DEF Above

LEMMA AboveGrows ==
    ASSUME NEW c, NEW u, NEW v \in Lineage(c, u)
    PROVE  Above(c, v) \subseteq Above(c, u) /\ Lineage(c, v) \subseteq Lineage(c, u)
  <1>1. Above(c, v) \subseteq Above(c, u)
    BY AboveClosed, AboveLeast DEF Lineage
  <1> QED BY <1>1 DEF Lineage

LEMMA AboveStep ==
    ASSUME NEW c, NEW u
    PROVE  Above(c, u) = IF c[u].parent \in Headings(c) THEN Lineage(c, c[u].parent) ELSE {}
  <1>1. CASE c[u].parent \in Headings(c)
    <2> DEFINE p == c[u].parent
    <2>1. p \in Lineage(c, u)
      BY <1>1, AboveClosed DEF Lineage
    <2>2. Lineage(c, p) \subseteq Above(c, u)
      BY <2>1, <1>1, AboveClosed, AboveGrows DEF Lineage
    <2>3. Lineage(c, p) \in SUBSET Headings(c)
      BY <1>1, AboveClosed DEF Lineage
    <2>4. \A v \in Lineage(c, p) \cup {u} :
                c[v].parent \in Headings(c) => c[v].parent \in Lineage(c, p)
      BY AboveClosed DEF Lineage
    <2> HIDE DEF p
    <2>5. Above(c, u) \subseteq Lineage(c, p)
      BY <2>3, <2>4, AboveLeast
    <2> QED BY <2>2, <2>5, <1>1 DEF p
  <1>2. CASE c[u].parent \notin Headings(c)
    <2>1. {} \in SUBSET Headings(c)
      OBVIOUS
    <2>2. \A v \in {} \cup {u} : c[v].parent \in Headings(c) => c[v].parent \in {}
      BY <1>2
    <2>3. Above(c, u) \subseteq {}
      BY <2>1, <2>2, AboveLeast
    <2> QED BY <2>3, <1>2
  <1> QED BY <1>1, <1>2

(* No unit of a forest is above itself.                                        *)
LEMMA AboveOthers ==
    ASSUME NEW c, Acyclic(c), NEW u
    PROVE  u \notin Above(c, u)
  <1> SUFFICES ASSUME u \in Above(c, u)
               PROVE  FALSE
    OBVIOUS
  <1> DEFINE S == {v \in Above(c, u) : u \in Above(c, v)}
  <1>1. S \in SUBSET DOMAIN c /\ S # {}
    BY AboveClosed DEF Headings
  <1>2. PICK v \in S : c[v].parent \notin S
    BY <1>1 DEF Acyclic
  <1>3. u \in Lineage(c, c[v].parent) /\ c[v].parent \in Headings(c)
    BY <1>2, AboveStep
  <1>4. c[v].parent \in Above(c, u)
    BY <1>2, <1>3, AboveClosed DEF Lineage
  <1> QED BY <1>2, <1>3, <1>4 DEF Lineage

(* Of two units on the way up from a third one is above the other.             *)
LEMMA LineageChain ==
    ASSUME NEW c, NEW u, NEW a \in Lineage(c, u), NEW b \in Lineage(c, u)
    PROVE  a = b \/ a \in Above(c, b) \/ b \in Above(c, a)
  <1> DEFINE S == {y \in Above(c, u) : y \in Above(c, a) \/ a \in Lineage(c, y)}
  <1>1. S \in SUBSET Headings(c)
    BY AboveClosed
  <1>2. ASSUME NEW v \in S \cup {u}, c[v].parent \in Headings(c)
        PROVE  c[v].parent \in S
    <2>1. v \in Lineage(c, u) /\ (v \in Above(c, a) \/ a \in Lineage(c, v))
      BY DEF Lineage
    <2>2. c[v].parent \in Above(c, u)
      BY <2>1, <1>2, AboveClosed
    <2>3. CASE v \in Above(c, a) \/ v = a
      BY <2>2, <2>3, <1>2, AboveClosed DEF Lineage
    <2>4. CASE a \in Above(c, v)
      BY <2>2, <2>4, <1>2, AboveStep
    <2> QED BY <2>1, <2>3, <2>4 DEF Lineage
  <1>3. Above(c, u) \subseteq S
    BY <1>1, <1>2, AboveLeast
  <1> QED BY <1>3 DEF Lineage

(* On the way up from a unit no two have the same parent.                      *)
LEMMA LineageApart ==
    ASSUME NEW c, Acyclic(c), NEW u, NEW a \in Lineage(c, u), NEW b \in Lineage(c, u),
           c[a].parent = c[b].parent
    PROVE  a = b
  <1>1. Above(c, a) = Above(c, b)
    BY AboveStep
  <1> QED BY <1>1, LineageChain, AboveOthers

(* What is above a unit is the parent of something on the way up from it.      *)
LEMMA AboveIsParent ==
    ASSUME NEW c, NEW u, NEW h \in Above(c, u)
    PROVE  \E b \in Lineage(c, u) : c[b].parent = h
  <1> DEFINE S == {x \in Above(c, u) : \E b \in Lineage(c, u) : c[b].parent = x}
  <1>1. S \in SUBSET Headings(c)
    BY AboveClosed
  <1>2. \A v \in S \cup {u} : c[v].parent \in Headings(c) => c[v].parent \in S
    BY AboveClosed DEF Lineage
  <1>3. Above(c, u) \subseteq S
    BY <1>1, <1>2, AboveLeast
  <1> QED BY <1>3

--------------------------------------------------------------------------------
(* Siblings have different positions.                                          *)
Apart(c) ==
    \A u, v \in DOMAIN c : c[u].parent = c[v].parent /\ c[u].pos = c[v].pos => u = v

(* A unit the walk comes to has an ancestor at the top, or is there.           *)
LEMMA ReachedFromTop ==
    ASSUME NEW c, IsContent(c), NEW u \in Reached(c)
    PROVE  \A a \in Lineage(c, u) : c[a].parent \in Headings(c) \/ c[a].parent = Top
  <1>1. PICK r \in Lineage(c, u) : c[r].parent = Top
    BY DEF Reached
  <1>2. Top \notin Headings(c)
    BY TreeAssumption DEF Headings, IsContent
  <1>3. ASSUME NEW a \in Lineage(c, u), c[a].parent \notin Headings(c)
        PROVE  a = r
    BY <1>1, <1>2, <1>3, AboveStep, LineageChain
  <1> QED BY <1>1, <1>3

LEMMA LineageInContent ==
    ASSUME NEW c, NEW u \in DOMAIN c
    PROVE  Lineage(c, u) \subseteq DOMAIN c
  BY AboveClosed DEF Lineage, Headings

(* The walk never comes to two units at once.                                  *)
LEMMA PrecedesTotal ==
    ASSUME NEW c, IsContent(c), Acyclic(c), Apart(c),
           NEW u \in Reached(c), NEW v \in Reached(c), u # v
    PROVE  Precedes(c, u, v) \/ Precedes(c, v, u)
  <1> SUFFICES ASSUME u \notin Above(c, v), v \notin Above(c, u)
               PROVE  Precedes(c, u, v) \/ Precedes(c, v, u)
    BY DEF Precedes
  <1> DEFINE L == Lineage(c, u) \ Lineage(c, v)
  <1>1. u \in DOMAIN c /\ v \in DOMAIN c
    BY DEF Reached
  <1>2. u \in L /\ L \in SUBSET DOMAIN c
    BY <1>1, LineageInContent DEF Lineage
  <1>3. PICK a \in L : c[a].parent \notin L
    BY <1>2 DEF Acyclic
  <1>4. \E b \in Lineage(c, v) : c[a].parent = c[b].parent
    <2>1. CASE c[a].parent \in Headings(c)
      <3>1. c[a].parent \in Above(c, u)
        BY <1>3, <2>1, AboveClosed
      <3>2. c[a].parent \in Above(c, v)
        BY <3>1, <1>3 DEF Lineage
      <3> QED BY <3>2, AboveIsParent
    <2>2. CASE c[a].parent \notin Headings(c)
      <3>1. c[a].parent = Top
        BY <1>3, <2>2, ReachedFromTop
      <3>2. \E b \in Lineage(c, v) : c[b].parent = Top
        BY DEF Reached
      <3> QED BY <3>1, <3>2
    <2> QED BY <2>1, <2>2
  <1>5. PICK b \in Lineage(c, v) : c[a].parent = c[b].parent
    BY <1>4
  <1>6. a \in DOMAIN c /\ b \in DOMAIN c
    BY <1>1, <1>3, LineageInContent
  <1>7. c[a].pos \in Nat /\ c[b].pos \in Nat
    BY <1>6 DEF IsContent, UnitRecord
  <1>8. a # b
    BY <1>3
  <1>9. c[a].pos < c[b].pos \/ c[b].pos < c[a].pos
    BY <1>5, <1>6, <1>7, <1>8 DEF Apart
  <1> QED BY <1>3, <1>5, <1>9 DEF Precedes

LEMMA PrecedesOthers ==
    ASSUME NEW c, IsContent(c), Acyclic(c), NEW u \in DOMAIN c
    PROVE  ~Precedes(c, u, u)
  <1>1. \A a, b \in Lineage(c, u) : c[a].parent = c[b].parent => ~(c[a].pos < c[b].pos)
    <2> TAKE a, b \in Lineage(c, u)
    <2> HAVE c[a].parent = c[b].parent
    <2>1. a = b
      BY LineageApart
    <2>2. c[a].pos \in Nat
      BY LineageInContent DEF IsContent, UnitRecord
    <2> QED BY <2>1, <2>2
  <1> QED BY <1>1, AboveOthers DEF Precedes

LEMMA PrecedesTransitive ==
    ASSUME NEW c, IsContent(c), Acyclic(c),
           NEW x \in DOMAIN c, NEW y \in DOMAIN c, NEW z \in DOMAIN c,
           Precedes(c, x, y), Precedes(c, y, z)
    PROVE  Precedes(c, x, z)
  <1> DEFINE Beside(a, b) == c[a].parent = c[b].parent /\ c[a].pos < c[b].pos
  <1>1. \A a, b : Beside(a, b) => Above(c, a) = Above(c, b)
    BY AboveStep
  <1>2. CASE x \in Above(c, y) /\ y \in Above(c, z)
    BY <1>2, AboveGrows DEF Precedes, Lineage
  <1>3. ASSUME x \in Above(c, y),
               NEW a \in Lineage(c, y), NEW b \in Lineage(c, z), Beside(a, b)
        PROVE  Precedes(c, x, z)
    <2>1. a \in Lineage(c, x) \/ x \in Above(c, a)
      BY <1>3, LineageChain DEF Lineage
    <2>2. x \in Above(c, a) => x \in Above(c, z)
      BY <1>1, <1>3, AboveGrows
    <2> QED BY <2>1, <2>2, <1>3 DEF Precedes
  <1>4. ASSUME y \in Above(c, z),
               NEW a \in Lineage(c, x), NEW b \in Lineage(c, y), Beside(a, b)
        PROVE  Precedes(c, x, z)
    <2>1. b \in Lineage(c, z)
      BY <1>4, AboveGrows DEF Lineage
    <2> QED BY <2>1, <1>4 DEF Precedes
  <1>5. ASSUME NEW a \in Lineage(c, x), NEW b \in Lineage(c, y), Beside(a, b),
               NEW e \in Lineage(c, y), NEW d \in Lineage(c, z), Beside(e, d)
        PROVE  Precedes(c, x, z)
    <2>1. CASE b = e
      <3>1. c[a].pos \in Nat /\ c[b].pos \in Nat /\ c[d].pos \in Nat
        BY LineageInContent DEF IsContent, UnitRecord
      <3>2. Beside(a, d)
        BY <2>1, <3>1, <1>5
      <3> QED BY <3>2 DEF Precedes
    <2>2. CASE b \in Above(c, e)
      <3>1. b \in Lineage(c, z)
        BY <2>2, <1>1, <1>5, AboveGrows DEF Lineage
      <3> QED BY <3>1, <1>5 DEF Precedes
    <2>3. CASE e \in Above(c, b)
      <3>1. e \in Lineage(c, x)
        BY <2>3, <1>1, <1>5, AboveGrows DEF Lineage
      <3> QED BY <3>1, <1>5 DEF Precedes
    <2> QED BY <2>1, <2>2, <2>3, LineageChain
  <1> QED BY <1>2, <1>3, <1>4, <1>5 DEF Precedes


(* Different places for all the members of a set: each is someone's.           *)
LEMMA EveryPlace ==
    ASSUME NEW S, IsFiniteSet(S), NEW rank \in [S -> 0..(Cardinality(S) - 1)],
           \A x, y \in S : rank[x] = rank[y] => x = y
    PROVE  \A n \in 0..(Cardinality(S) - 1) : \E x \in S : rank[x] = n
  <1> DEFINE T == 0..(Cardinality(S) - 1)
  <1>1. Cardinality(S) \in Nat
    BY FS_CardinalityType
  <1>2. IsFiniteSet(T) /\ Cardinality(T) = Cardinality(S)
    BY <1>1, FS_Interval
  <1>3. rank \in Injection(S, T)
    BY DEF Injection, IsInjective
  <1>4. rank \in Surjection(S, T)
    BY <1>2, <1>3, FS_Injection
  <1> QED BY <1>4 DEF Surjection

(* A ranking lists the members of a set, each once.                            *)
LEMMA RankedLists ==
    ASSUME NEW S, IsFiniteSet(S), NEW rank \in [S -> 0..(Cardinality(S) - 1)],
           \A x, y \in S : rank[x] = rank[y] => x = y
    PROVE  /\ Ranked(S, rank) \in Seq(S)
           /\ Len(Ranked(S, rank)) = Cardinality(S)
           /\ \A n \in 1..Cardinality(S) :
                Ranked(S, rank)[n] \in S /\ rank[Ranked(S, rank)[n]] = n - 1
           /\ \A x \in S : Ranked(S, rank)[rank[x] + 1] = x
  <1> DEFINE nth(n) == CHOOSE x \in S : rank[x] = n - 1
             list   == [n \in 1..Cardinality(S) |-> nth(n)]
  <1>1. Cardinality(S) \in Nat
    BY FS_CardinalityType
  <1>2. \A n \in 1..Cardinality(S) : nth(n) \in S /\ rank[nth(n)] = n - 1
    <2> TAKE n \in 1..Cardinality(S)
    <2>1. n - 1 \in 0..(Cardinality(S) - 1)
      BY <1>1
    <2>2. \E x \in S : rank[x] = n - 1
      BY <2>1, EveryPlace
    <2> QED BY <2>2
  <1>3. Ranked(S, rank) = << >> \o list
    BY DEF Ranked, Tuple
  <1> HIDE DEF nth
  <1>4. list \in Seq(S) /\ Len(list) = Cardinality(S)
    BY <1>1, <1>2
  <1>5. Ranked(S, rank) = list
    BY <1>3, <1>4, ConcatEmptySeq
  <1>6. \A n \in 1..Cardinality(S) : list[n] = nth(n)
    OBVIOUS
  <1>7. \A x \in S : list[rank[x] + 1] = x
    <2> TAKE x \in S
    <2>1. rank[x] + 1 \in 1..Cardinality(S) /\ rank[x] \in Int
      BY <1>1
    <2>2. nth(rank[x] + 1) \in S /\ rank[nth(rank[x] + 1)] = rank[x]
      BY <1>2, <2>1
    <2> QED BY <2>1, <2>2, <1>6
  <1> HIDE DEF list
  <1> QED BY <1>2, <1>4, <1>5, <1>6, <1>7

(* How many come before: smaller, for those who do, than how many there are.   *)
LEMMA BeforeRanks ==
    ASSUME NEW S, IsFiniteSet(S), NEW before \in [S -> SUBSET S],
           \A x \in S : x \notin before[x],
           \A x, y \in S : x \in before[y] => before[x] \subseteq before[y],
           \A x, y \in S : x # y => x \in before[y] \/ y \in before[x]
    PROVE  /\ \A x \in S : Cardinality(before[x]) \in 0..(Cardinality(S) - 1)
           /\ \A x, y \in S : x \in before[y] => Cardinality(before[x]) < Cardinality(before[y])
           /\ \A x, y \in S : Cardinality(before[x]) = Cardinality(before[y]) => x = y
  <1>1. Cardinality(S) \in Nat
    BY FS_CardinalityType
  <1>2. ASSUME NEW x \in S
        PROVE  IsFiniteSet(before[x]) /\ Cardinality(before[x]) \in Nat
    BY FS_Subset, FS_CardinalityType
  <1>3. ASSUME NEW x \in S
        PROVE  Cardinality(before[x]) < Cardinality(S)
    <2>1. before[x] \in SUBSET S /\ x \in S \ before[x]
      OBVIOUS
    <2>2. Cardinality(before[x]) <= Cardinality(S) /\ Cardinality(before[x]) # Cardinality(S)
      BY <2>1, FS_Subset
    <2> QED BY <2>2, <1>1, <1>2
  <1>4. ASSUME NEW x \in S, NEW y \in S, x \in before[y]
        PROVE  Cardinality(before[x]) < Cardinality(before[y])
    <2>1. before[x] \in SUBSET before[y] /\ x \in before[y] \ before[x]
      BY <1>4
    <2>2. Cardinality(before[x]) <= Cardinality(before[y])
                /\ Cardinality(before[x]) # Cardinality(before[y])
      BY <2>1, <1>2, FS_Subset
    <2> QED BY <2>2, <1>2
  <1>5. ASSUME NEW x \in S, NEW y \in S, Cardinality(before[x]) = Cardinality(before[y])
        PROVE  x = y
    BY <1>2, <1>4, <1>5
  <1> QED BY <1>1, <1>2, <1>3, <1>4, <1>5

LEMMA AscendingLists ==
    ASSUME NEW n \in Nat, NEW S, S \subseteq 0..n
    PROVE  /\ IsFiniteSet(S) /\ Cardinality(S) \in Nat
           /\ Ascending(S) \in Seq(S)
           /\ Len(Ascending(S)) = Cardinality(S)
           /\ \A x \in S : \E k \in 1..Cardinality(S) : Ascending(S)[k] = x
           /\ \A k, l \in 1..Cardinality(S) : k < l => Ascending(S)[k] < Ascending(S)[l]
  <1> DEFINE before == [x \in S |-> {j \in S : j < x}]
             rank   == [x \in S |-> Cardinality({j \in S : j < x})]
  <1>0. \A x \in S : x \in Int
    OBVIOUS
  <1>1. IsFiniteSet(S) /\ Cardinality(S) \in Nat
    <2>1. IsFiniteSet(0..n)
      BY FS_Interval
    <2> QED BY <2>1, FS_Subset, FS_CardinalityType
  <1>2. before \in [S -> SUBSET S]
    OBVIOUS
  <1>3. \A x \in S : rank[x] = Cardinality(before[x])
    OBVIOUS
  <1>4. \A x, y \in S : x \in before[y] <=> x < y
    OBVIOUS
  <1>5. Ascending(S) = Ranked(S, rank)
    BY DEF Ascending
  <1>6. rank = [x \in S |-> rank[x]]
    OBVIOUS
  <1> HIDE DEF before, rank
  <1>7. /\ \A x \in S : rank[x] \in 0..(Cardinality(S) - 1)
        /\ \A x, y \in S : x < y => rank[x] < rank[y]
        /\ \A x, y \in S : rank[x] = rank[y] => x = y
    <2>1. /\ \A x \in S : x \notin before[x]
          /\ \A x, y \in S : x # y => x \in before[y] \/ y \in before[x]
      BY <1>0, <1>4
    <2>2. \A x, y \in S : x \in before[y] => before[x] \subseteq before[y]
      <3> TAKE x, y \in S
      <3> HAVE x \in before[y]
      <3>1. \A z \in S : z \in before[x] => z \in before[y]
        BY <1>0, <1>4
      <3> QED BY <3>1, <1>2
    <2>3. /\ \A x \in S : Cardinality(before[x]) \in 0..(Cardinality(S) - 1)
          /\ \A x, y \in S : x \in before[y] => Cardinality(before[x]) < Cardinality(before[y])
          /\ \A x, y \in S : Cardinality(before[x]) = Cardinality(before[y]) => x = y
      BY <1>1, <1>2, <2>1, <2>2, BeforeRanks
    <2> QED BY <2>3, <1>3, <1>4
  <1>8. rank \in [S -> 0..(Cardinality(S) - 1)]
    BY <1>6, <1>7
  <1> DEFINE list == Ranked(S, rank)
  <1>9. /\ list \in Seq(S)
        /\ Len(list) = Cardinality(S)
        /\ \A k \in 1..Cardinality(S) : list[k] \in S /\ rank[list[k]] = k - 1
        /\ \A x \in S : list[rank[x] + 1] = x
    BY <1>1, <1>7, <1>8, RankedLists
  <1> HIDE DEF list
  <1>10. ASSUME NEW k \in 1..Cardinality(S), NEW l \in 1..Cardinality(S), k < l
         PROVE  list[k] < list[l]
    <2>1. rank[list[k]] < rank[list[l]]
      BY <1>1, <1>9, <1>10
    <2>2. list[k] \in S /\ list[l] \in S
      BY <1>9
    <2>3. PICK x \in S : x = list[k]
      BY <2>2
    <2>4. PICK y \in S : y = list[l]
      BY <2>2
    <2>5. rank[x] < rank[y] /\ rank[x] \in Int /\ rank[y] \in Int
      BY <2>1, <2>3, <2>4, <1>1, <1>7
    <2>6. ~(y < x) /\ x # y
      BY <2>5, <1>7
    <2>7. x < y
      BY <2>6, <1>0
    <2> QED BY <2>3, <2>4, <2>7
  <1>11. \A x \in S : \E k \in 1..Cardinality(S) : list[k] = x
    <2> TAKE x \in S
    <2>1. rank[x] + 1 \in 1..Cardinality(S)
      BY <1>1, <1>7
    <2> QED BY <2>1, <1>9
  <1> QED BY <1>1, <1>5, <1>9, <1>10, <1>11 DEF list

(* The largest of some places of a sequence.                                   *)
LEMMA MaxIs ==
    ASSUME NEW n \in Nat, NEW S, S \subseteq 0..n, S # {}
    PROVE  Max(S) \in S /\ \A x \in S : x <= Max(S)
  <1> DEFINE list == Ascending(S)
             k    == Cardinality(S)
  <1>0. \A x \in S : x \in Int
    OBVIOUS
  <1>1. /\ k \in Nat /\ list \in Seq(S) /\ Len(list) = k
        /\ \A x \in S : \E j \in 1..k : list[j] = x
        /\ \A i, j \in 1..k : i < j => list[i] < list[j]
    BY AscendingLists
  <1> HIDE DEF list, k
  <1>2. k \in 1..k
    <2>1. PICK x \in S : TRUE
      OBVIOUS
    <2>2. PICK j \in 1..k : list[j] = x
      BY <1>1, <2>1
    <2> QED BY <2>2, <1>1
  <1>3. list[k] \in S
    BY <1>1, <1>2, ElementOfSeq
  <1>4. \A x \in S : list[k] >= x
    <2> TAKE x \in S
    <2>1. PICK j \in 1..k : list[j] = x
      BY <1>1
    <2>2. j = k \/ j < k
      BY <1>1
    <2>3. ASSUME j < k
          PROVE  list[j] < list[k]
      <3>1. \A i, m : i \in 1..k /\ m \in 1..k /\ i < m => list[i] < list[m]
        BY <1>1
      <3>2. j \in 1..k /\ k \in 1..k
        BY <1>2
      <3> QED BY <3>1, <3>2, <2>3, Zenon
    <2>4. x = list[k] \/ x < list[k]
      BY <2>1, <2>2, <2>3
    <2>5. x \in Int /\ list[k] \in Int
      BY <1>0, <1>3
    <2> QED BY <2>4, <2>5
  <1>5. \E x \in S : \A y \in S : x >= y
    BY <1>3, <1>4
  <1> QED BY <1>5 DEF Max

--------------------------------------------------------------------------------
(* The walk lists the units it comes to, each once, and each after those that  *)
(* precede it.                                                                 *)
LEMMA WalkLists ==
    ASSUME NEW c, IsContent(c), Acyclic(c), Apart(c)
    PROVE  /\ Walk(c) \in Seq(Reached(c))
           /\ \A u \in Reached(c) : \E n \in 1..Len(Walk(c)) : Walk(c)[n] = u
           /\ \A m, n \in 1..Len(Walk(c)) :
                m < n => Precedes(c, Walk(c)[m], Walk(c)[n]) /\ Walk(c)[m] # Walk(c)[n]
  <1> DEFINE S      == Reached(c)
             before == [x \in S |-> {v \in S : Precedes(c, v, x)}]
             rank   == [x \in S |-> Cardinality({v \in S : Precedes(c, v, x)})]
  <1>1. S \in SUBSET DOMAIN c
    BY DEF Reached
  <1>2. IsFiniteSet(S) /\ Cardinality(S) \in Nat
    BY <1>1, FiniteContent, FS_Subset, FS_CardinalityType
  <1>3. before \in [S -> SUBSET S] /\ \A x \in S : rank[x] = Cardinality(before[x])
    OBVIOUS
  <1>4. \A x, y \in S : x \in before[y] <=> Precedes(c, x, y)
    OBVIOUS
  <1>5. Walk(c) = Ranked(S, rank)
    BY DEF Walk
  <1>6. rank = [x \in S |-> rank[x]]
    OBVIOUS
  <1> HIDE DEF before, rank
  <1>7. \A x \in S : x \notin before[x]
    BY <1>1, <1>4, PrecedesOthers
  <1>8. \A x, y \in S : x # y => x \in before[y] \/ y \in before[x]
    BY <1>4, PrecedesTotal
  <1>9. \A x, y \in S : x \in before[y] => before[x] \subseteq before[y]
    BY <1>1, <1>3, <1>4, PrecedesTransitive
  <1> HIDE DEF S
  <1>10. /\ \A x \in S : rank[x] \in 0..(Cardinality(S) - 1)
         /\ \A x, y \in S : x \in before[y] => rank[x] < rank[y]
         /\ \A x, y \in S : rank[x] = rank[y] => x = y
    <2>1. /\ \A x \in S : Cardinality(before[x]) \in 0..(Cardinality(S) - 1)
          /\ \A x, y \in S : x \in before[y] => Cardinality(before[x]) < Cardinality(before[y])
          /\ \A x, y \in S : Cardinality(before[x]) = Cardinality(before[y]) => x = y
      BY <1>2, <1>3, <1>7, <1>8, <1>9, BeforeRanks
    <2> QED BY <2>1, <1>3
  <1>11. rank \in [S -> 0..(Cardinality(S) - 1)]
    BY <1>6, <1>10
  <1> DEFINE list == Ranked(S, rank)
  <1>12. /\ list \in Seq(S)
         /\ Len(list) = Cardinality(S)
         /\ \A k \in 1..Cardinality(S) : list[k] \in S /\ rank[list[k]] = k - 1
         /\ \A x \in S : list[rank[x] + 1] = x
    BY <1>2, <1>10, <1>11, RankedLists
  <1> HIDE DEF list
  <1>13. \A x \in S : rank[x] \in Int /\ rank[x] + 1 \in 1..Cardinality(S)
    BY <1>2, <1>10
  <1>14. ASSUME NEW m \in 1..Len(list), NEW n \in 1..Len(list), m < n
         PROVE  Precedes(c, list[m], list[n]) /\ list[m] # list[n]
    <2>1. list[m] \in S /\ list[n] \in S /\ rank[list[m]] < rank[list[n]]
      BY <1>2, <1>12, <1>14
    <2>2. list[n] \notin before[list[m]] /\ list[m] # list[n]
      BY <2>1, <1>10, <1>13
    <2> QED BY <2>1, <2>2, <1>4, <1>8
  <1>15. \A x \in S : \E n \in 1..Len(list) : list[n] = x
    BY <1>12, <1>13
  <1> QED BY <1>5, <1>12, <1>14, <1>15 DEF list, S

--------------------------------------------------------------------------------
(* The document.                                                               *)

(* Blocks with ids among the first n.                                          *)
Block(n) ==
    [id : 1..n \cup {NoUnit}, parent : Unit \cup {Top}, heading : BOOLEAN, hashes : Int,
     config : BOOLEAN, text : Text]

(* No two blocks have the same id, and one without is a line to type on.       *)
Stamps(d) ==
    /\ \A i, j \in DOMAIN d : d[i].id = d[j].id => i = j
    /\ \A i \in DOMAIN d : d[i].id = NoUnit => d[i] = LineText

LEMMA IdsAreUnits ==
    ASSUME NEW n \in 0..MaxUnit
    PROVE  1..n \subseteq Unit /\ n \in Nat /\ NoUnit \notin 1..n
  BY OutlineAssumption

LEMMA BlockGrows ==
    ASSUME NEW n \in Nat, NEW m \in Nat, n <= m
    PROVE  Block(n) \subseteq Block(m)
  BY DEF Block

(* A set of blocks is editable if a gesture does not lead out of it: it may    *)
(* change the text and the `#`s of a block and split a piece off it.           *)
Editable(B) ==
    /\ \E n \in Nat : B \subseteq Block(n)
    /\ \A b \in B : \A t \in Text, h \in Int :
        /\ [b EXCEPT !.text = t] \in B
        /\ [b EXCEPT !.hashes = h] \in B
        /\ [b EXCEPT !.text = t, !.hashes = h] \in B
        /\ Piece(b, t) \in B
        /\ [Piece(b, t) EXCEPT !.hashes = h] \in B

LEMMA LineTextIsBlock ==
    ASSUME NEW n \in Nat
    PROVE  LineText \in Block(n)
  BY EmptySeq DEF LineText, Block, Text

LEMMA PieceIs ==
    ASSUME NEW n \in Nat, NEW b \in Block(n), NEW t \in Text
    PROVE  /\ Piece(b, t) \in Block(n)
           /\ Piece(b, t).id = NoUnit /\ ~Piece(b, t).config
           /\ Piece(b, t).parent = b.parent /\ ~Piece(b, t).heading
  <1>1. PICK l \in Block(n) : l = LineText
    BY LineTextIsBlock
  <1>2. b.parent \in Unit \cup {Top}
    BY DEF Block
  <1>3. l.id = NoUnit /\ ~l.config /\ ~l.heading
    BY <1>1 DEF LineText
  <1> DEFINE p == [l EXCEPT !.parent = b.parent, !.text = t]
  <1>4. p \in Block(n) /\ p.id = l.id /\ p.config = l.config /\ p.parent = b.parent /\ p.heading = l.heading
    BY <1>2 DEF Block
  <1>5. Piece(b, t) = p
    BY <1>1 DEF Piece
  <1> QED BY <1>3, <1>4, <1>5

LEMMA BlocksEditable ==
    ASSUME NEW n \in Nat
    PROVE  Editable(Block(n))
  <1>1. ASSUME NEW b \in Block(n), NEW t \in Text, NEW h \in Int
        PROVE  /\ [b EXCEPT !.text = t] \in Block(n)
               /\ [b EXCEPT !.hashes = h] \in Block(n)
               /\ [b EXCEPT !.text = t, !.hashes = h] \in Block(n)
    BY DEF Block
  <1>2. ASSUME NEW b \in Block(n), NEW t \in Text, NEW h \in Int
        PROVE  Piece(b, t) \in Block(n) /\ [Piece(b, t) EXCEPT !.hashes = h] \in Block(n)
    <2> DEFINE p == Piece(b, t)
    <2>1. p \in Block(n) /\ t \in Text
      BY PieceIs
    <2> HIDE DEF p
    <2>2. [p EXCEPT !.hashes = h] \in Block(n)
      BY <2>1, <1>1
    <2> QED BY <2>1, <2>2 DEF p
  <1> QED BY <1>1, <1>2 DEF Editable

(* Blocks of a document, changed.                                              *)
LEMMA BlockIs ==
    ASSUME NEW B, Editable(B), NEW b \in B
    PROVE  b.text \in Seq(Line) /\ b.text \in Text /\ Len(b.text) \in Nat /\ b.hashes \in Int
  <1>1. PICK n \in Nat : b \in Block(n)
    BY DEF Editable
  <1>2. b.text \in Seq(Line) /\ b.hashes \in Int
    BY <1>1 DEF Block, Text
  <1> QED BY <1>2, LenProperties DEF Text

LEMMA BlockWithText ==
    ASSUME NEW B, Editable(B), NEW b \in B, NEW t \in Text
    PROVE  [b EXCEPT !.text = t] \in B /\ Piece(b, t) \in B
  <1>1. 0 \in Int
    OBVIOUS
  <1> QED BY <1>1 DEF Editable

LEMMA BlockWith ==
    ASSUME NEW B, Editable(B), NEW b \in B, NEW t \in Text, NEW h \in Int
    PROVE  /\ [b EXCEPT !.text = t] \in B
           /\ [b EXCEPT !.hashes = h] \in B
           /\ [b EXCEPT !.text = t, !.hashes = h] \in B
           /\ Piece(b, t) \in B
           /\ [Piece(b, t) EXCEPT !.hashes = h] \in B
  BY DEF Editable

LEMMA Cut ==
    ASSUME NEW S, NEW s \in Seq(S), NEW m \in Int, NEW n \in Int, 1 <= m, n <= Len(s)
    PROVE  /\ SubSeq(s, m, n) \in Seq(S)
           /\ Len(SubSeq(s, m, n)) = IF m <= n THEN n - m + 1 ELSE 0
           /\ \A i \in 1..(n - m + 1) : SubSeq(s, m, n)[i] = s[m + i - 1]
  <1>1. \A i \in m..n : s[i] \in S
    BY ElementOfSeq
  <1> QED BY <1>1, SubSeqProperties

LEMMA SplicedKeeps ==
    ASSUME NEW S, NEW s \in Seq(S), NEW i \in 1..Len(s), NEW p \in Seq(S)
    PROVE  Spliced(s, i, p) \in Seq(S)
  <1>1. SubSeq(s, 1, i - 1) \in Seq(S) /\ SubSeq(s, i + 1, Len(s)) \in Seq(S)
    BY Cut
  <1> QED BY <1>1, ConcatProperties DEF Spliced

LEMMA RemoveAtKeeps ==
    ASSUME NEW S, NEW s \in Seq(S), NEW i \in 1..Len(s)
    PROVE  /\ RemoveAt(s, i) \in Seq(S)
           /\ Len(RemoveAt(s, i)) = Len(s) - 1
  <1> DEFINE a == SubSeq(s, 1, i - 1)
             b == SubSeq(s, i + 1, Len(s))
  <1>1. /\ a \in Seq(S) /\ b \in Seq(S)
        /\ Len(a) = i - 1 /\ Len(b) = Len(s) - i
    BY Cut
  <1>2. RemoveAt(s, i) = a \o b
    BY DEF RemoveAt
  <1> HIDE DEF a, b
  <1>3. a \o b \in Seq(S) /\ Len(a \o b) = Len(a) + Len(b)
    BY <1>1, ConcatProperties
  <1> QED BY <1>1, <1>2, <1>3

LEMMA ExtremesOfTwo ==
    ASSUME NEW a \in Int, NEW b \in Int
    PROVE  /\ Max({a, b}) = IF a >= b THEN a ELSE b
           /\ Min({a, b}) = IF a <= b THEN a ELSE b
  <1>1. \E x \in {a, b} : \A y \in {a, b} : x >= y
    OBVIOUS
  <1>2. Max({a, b}) \in {a, b} /\ \A y \in {a, b} : Max({a, b}) >= y
    BY <1>1 DEF Max
  <1>3. \E x \in {a, b} : \A y \in {a, b} : x =< y
    OBVIOUS
  <1>4. Min({a, b}) \in {a, b} /\ \A y \in {a, b} : Min({a, b}) =< y
    BY <1>3 DEF Min
  <1> QED BY <1>2, <1>4

LEMMA LinesAre ==
    ASSUME NEW B, Editable(B), NEW b \in B, NEW k \in LinesOf(b)
    PROVE  /\ k \in Nat /\ 1 <= k /\ k - 1 <= Len(b.text)
           /\ b.text # << >> => k \in 1..Len(b.text)
           /\ LinesBefore(b, k) \in Text
           /\ LineAt(b, k) \in Text
           /\ LinesAfter(b, k) \in Text
  <1>1. b.text \in Seq(Line)
    BY BlockIs
  <1>2. Len(b.text) \in Nat /\ (b.text # << >> => Len(b.text) # 0)
    BY <1>1, EmptySeq, LenProperties
  <1>3. k \in 1..(IF 1 >= Len(b.text) THEN 1 ELSE Len(b.text))
    BY <1>2, ExtremesOfTwo DEF LinesOf
  <1>4. k \in Nat /\ 1 <= k /\ k - 1 <= Len(b.text)
    BY <1>2, <1>3
  <1>5. LinesBefore(b, k) \in Text
    BY <1>1, <1>2, <1>4, Cut DEF LinesBefore, Text
  <1>6. LinesAfter(b, k) \in Text
    BY <1>1, <1>2, <1>4, Cut DEF LinesAfter, Text
  <1>7. LineAt(b, k) \in Text
    <2> DEFINE m == Min({k, Len(b.text)})
    <2>0. m = IF k <= Len(b.text) THEN k ELSE Len(b.text)
      <3>1. k \in Int /\ Len(b.text) \in Int
        BY <1>2, <1>4
      <3> QED BY <3>1, ExtremesOfTwo
    <2> HIDE DEF m
    <2>1. m \in Int /\ m <= Len(b.text)
      BY <2>0, <1>2, <1>4
    <2>2. SubSeq(b.text, k, m) \in Seq(Line)
      BY <1>1, <1>4, <2>1, Cut
    <2> QED BY <2>2 DEF LineAt, m, Text
  <1> QED BY <1>2, <1>3, <1>4, <1>5, <1>6, <1>7

LEMMA LineOutKeeps ==
    ASSUME NEW B, Editable(B), NEW b \in B, NEW k \in LinesOf(b),
           NEW line \in Text, NEW h \in Int
    PROVE  LineOut(b, k, line, h) \in Seq(B)
  <1> DEFINE own    == IF k = 1 THEN [b EXCEPT !.text = line, !.hashes = h]
                       ELSE [Piece(b, line) EXCEPT !.hashes = h]
             first  == [b EXCEPT !.text = LinesBefore(b, k)]
             rest   == Piece(b, LinesAfter(b, k))
             before == IF k = 1 THEN << >> ELSE <<first>>
             after  == IF LinesAfter(b, k) = << >> THEN << >> ELSE <<rest>>
  <1>1. own \in B /\ first \in B /\ rest \in B
    BY BlockWith, LinesAre
  <1> HIDE DEF own, first, rest
  <1>2. before \in Seq(B) /\ <<own>> \in Seq(B) /\ after \in Seq(B)
    BY <1>1
  <1>3. LineOut(b, k, line, h) = before \o <<own>> \o after
    BY DEF LineOut, own, first, rest
  <1> HIDE DEF before, after
  <1>4. (before \o <<own>>) \o after \in Seq(B)
    BY <1>2, ConcatProperties
  <1> QED BY <1>3, <1>4

(* A gesture keeps it a document.                                              *)
(* The text of the i-th block is gone, and the `#`s but h.                     *)
Emptied(d, i, h) == [d EXCEPT ![i].text = << >>, ![i].hashes = h]

LEMMA TypingKeeps ==
    ASSUME NEW B, Editable(B), NEW d \in Seq(B), NEW i \in DOMAIN d
    PROVE  /\ \A k \in LinesOf(d[i]), x \in Line : Typed(d, i, k, x) \in Seq(B)
           /\ \A x \in Line : SoftLine(d, i, x) \in Seq(B)
           /\ \A k \in LinesOf(d[i]), h \in Int : HeadingCue(d, i, k, h) \in Seq(B)
           /\ {Display} \subseteq Line =>
                \A k \in LinesOf(d[i]) : DisplayCue(d, i, k) \in Seq(B)
           /\ \A h \in Int : Rehashed(d, i, h) \in Seq(B)
           /\ \A h \in Int : Emptied(d, i, h) \in Seq(B)
  <1>1. DOMAIN d = 1..Len(d) /\ i \in 1..Len(d) /\ d[i] \in B
    BY LenProperties, ElementOfSeq
  <1>2. d[i].text \in Seq(Line)
    BY <1>1, BlockIs
  <1>3. ASSUME NEW k \in LinesOf(d[i]), NEW x \in Line
        PROVE  Typed(d, i, k, x) \in Seq(B)
    <2> DEFINE t == IF d[i].text = << >> THEN <<x>> ELSE [d[i].text EXCEPT ![k] = x]
    <2>1. t \in Text
      <3>1. d[i].text # << >> => [d[i].text EXCEPT ![k] = x] \in Seq(Line)
        BY <1>1, <1>2, LinesAre, ExceptSeq
      <3> QED BY <3>1 DEF Text
    <2> HIDE DEF t
    <2>2. [d[i] EXCEPT !.text = t] \in B
      BY <1>1, <2>1, BlockWithText
    <2>3. [d EXCEPT ![i] = [d[i] EXCEPT !.text = t]] \in Seq(B)
      BY <1>1, <2>2, ExceptSeq
    <2>4. Typed(d, i, k, x) = [d EXCEPT ![i] = [d[i] EXCEPT !.text = t]]
      BY DEF Typed, t
    <2> QED BY <2>3, <2>4
  <1>4. ASSUME NEW x \in Line
        PROVE  SoftLine(d, i, x) \in Seq(B)
    <2> DEFINE t == Append(d[i].text, x)
    <2>1. t \in Text
      BY <1>2, AppendProperties DEF Text
    <2> HIDE DEF t
    <2>2. [d[i] EXCEPT !.text = t] \in B
      BY <1>1, <2>1, BlockWithText
    <2>3. [d EXCEPT ![i] = [d[i] EXCEPT !.text = t]] \in Seq(B)
      BY <1>1, <2>2, ExceptSeq
    <2>4. SoftLine(d, i, x) = [d EXCEPT ![i] = [d[i] EXCEPT !.text = t]]
      BY DEF SoftLine, t
    <2> QED BY <2>3, <2>4
  <1>5. ASSUME NEW k \in LinesOf(d[i]), NEW h \in Int
        PROVE  HeadingCue(d, i, k, h) \in Seq(B)
    <2>1. LineOut(d[i], k, LineAt(d[i], k), h) \in Seq(B)
      BY <1>1, LinesAre, LineOutKeeps
    <2> QED BY <1>1, <2>1, SplicedKeeps DEF HeadingCue
  <1>6. ASSUME {Display} \subseteq Line, NEW k \in LinesOf(d[i])
        PROVE  DisplayCue(d, i, k) \in Seq(B)
    <2>1. <<Display>> \in Text
      BY <1>6 DEF Text
    <2>2. LineOut(d[i], k, <<Display>>, 0) \in Seq(B)
      BY <1>1, <2>1, LineOutKeeps
    <2> QED BY <1>1, <2>2, SplicedKeeps DEF DisplayCue
  <1>7. ASSUME NEW h \in Int
        PROVE  Rehashed(d, i, h) \in Seq(B)
    <2>1. d[i].text \in Text /\ [d[i] EXCEPT !.hashes = h] \in B
      BY <1>1, <1>2, BlockWith DEF Text
    <2>2. [d EXCEPT ![i] = [d[i] EXCEPT !.hashes = h]] \in Seq(B)
      BY <1>1, <2>1, ExceptSeq
    <2> QED BY <2>2 DEF Rehashed
  <1>8. ASSUME NEW h \in Int
        PROVE  Emptied(d, i, h) \in Seq(B)
    <2>1. << >> \in Text
      BY EmptySeq DEF Text
    <2>2. [d[i] EXCEPT !.text = << >>, !.hashes = h] \in B
      BY <1>1, <2>1, BlockWith
    <2>3. [d EXCEPT ![i] = [d[i] EXCEPT !.text = << >>, !.hashes = h]] \in Seq(B)
      BY <1>1, <2>2, ExceptSeq
    <2>4. Emptied(d, i, h) = [d EXCEPT ![i] = [d[i] EXCEPT !.text = << >>, !.hashes = h]]
      BY <1>1 DEF Emptied
    <2> QED BY <2>3, <2>4
  <1> QED BY <1>3, <1>4, <1>5, <1>6, <1>7, <1>8

LEMMA SplittingKeeps ==
    ASSUME NEW B, Editable(B), NEW d \in Seq(B), NEW i \in DOMAIN d
    PROVE  /\ \A k \in 0..Len(d[i].text) : SplitAfter(d, i, k) \in Seq(B)
           /\ SplitBeforeHashes(d, i) \in Seq(B)
           /\ \A at \in {1, Len(d) + 1} : Pasted(d, i, at) \in Seq(B)
  <1>1. DOMAIN d = 1..Len(d) /\ i \in 1..Len(d) /\ d[i] \in B /\ Len(d) \in Nat
    BY LenProperties, ElementOfSeq
  <1>2. d[i].text \in Seq(Line) /\ d[i].hashes \in Int /\ Len(d[i].text) \in Nat
    BY <1>1, BlockIs
  <1>3. ASSUME NEW a \in B, NEW b \in B
        PROVE  Spliced(d, i, <<a, b>>) \in Seq(B)
    <2>1. <<a, b>> \in Seq(B)
      OBVIOUS
    <2> QED BY <2>1, <1>1, SplicedKeeps
  <1>4. ASSUME NEW k \in 0..Len(d[i].text)
        PROVE  SplitAfter(d, i, k) \in Seq(B)
    <2>1. SubSeq(d[i].text, 1, k) \in Text /\ LinesAfter(d[i], k) \in Text
      BY <1>2, Cut DEF Text, LinesAfter
    <2> DEFINE t == SubSeq(d[i].text, 1, k)
               r == LinesAfter(d[i], k)
    <2> HIDE DEF t, r
    <2>2. t \in Text /\ r \in Text
      BY <2>1 DEF t, r
    <2>3. [d[i] EXCEPT !.text = t] \in B /\ Piece(d[i], r) \in B
      BY <1>1, <2>2, BlockWithText
    <2> QED BY <2>3, <1>3 DEF SplitAfter, t, r
  <1>5. SplitBeforeHashes(d, i) \in Seq(B)
    <2>1. << >> \in Text /\ d[i].text \in Text
      BY <1>2, EmptySeq DEF Text
    <2> DEFINE t == << >>
               h == 0
    <2>2. t \in Text /\ h \in Int
      BY <2>1
    <2>3. [Piece(d[i], d[i].text) EXCEPT !.hashes = d[i].hashes] \in B
      BY <1>1, <1>2, <2>1, BlockWith
    <2> HIDE DEF t, h
    <2>4. [d[i] EXCEPT !.text = t, !.hashes = h] \in B
      BY <1>1, <2>2, BlockWith
    <2> QED BY <2>3, <2>4, <1>3 DEF SplitBeforeHashes, t, h
  <1>6. ASSUME NEW at \in {1, Len(d) + 1}
        PROVE  Pasted(d, i, at) \in Seq(B)
    <2> DEFINE a == SubSeq(d, 1, at - 1)
               b == SubSeq(d, at, Len(d))
    <2>1. a \in Seq(B) /\ b \in Seq(B)
      BY <1>1, Cut
    <2>2. <<d[i]>> \in Seq(B)
      BY <1>1
    <2>3. Pasted(d, i, at) = a \o <<d[i]>> \o b
      BY DEF Pasted, InsertAt
    <2> HIDE DEF a, b
    <2>4. (a \o <<d[i]>>) \o b \in Seq(B)
      BY <2>1, <2>2, ConcatProperties
    <2> QED BY <2>3, <2>4
  <1> QED BY <1>4, <1>5, <1>6

LEMMA ShiftedKeeps ==
    ASSUME NEW B, Editable(B), NEW d \in Seq(B), NEW i \in DOMAIN d, NEW h \in Int
    PROVE  Shifted(d, i, h) \in Seq(B)
  <1> DEFINE down(j) == d[j].heading /\ (j = i \/ d[j].id \in Below(d, d[i].id))
             new(j)  == IF down(j) THEN [d[j] EXCEPT !.hashes = @ + h] ELSE d[j]
  <1>1. DOMAIN d = 1..Len(d) /\ Len(d) \in Nat
    BY LenProperties
  <1>2. \A j \in 1..Len(d) : new(j) \in B
    <2> TAKE j \in 1..Len(d)
    <2>1. d[j] \in B
      BY ElementOfSeq
    <2>2. d[j].text \in Text /\ d[j].hashes + h \in Int
      BY <2>1, BlockIs
    <2>3. [d[j] EXCEPT !.hashes = @ + h] \in B
      BY <2>1, <2>2, BlockWith
    <2> QED BY <2>1, <2>3
  <1>3. Shifted(d, i, h) = [j \in 1..Len(d) |-> new(j)]
    BY <1>1 DEF Shifted
  <1> HIDE DEF new
  <1> QED BY <1>1, <1>2, <1>3, IsASeq

LEMMA JoiningKeeps ==
    ASSUME NEW B, Editable(B), NEW d \in Seq(B), NEW i \in DOMAIN d
    PROVE  /\ RemoveAt(d, i) \in Seq(B)
           /\ i > 1 => MergedBack(d, i) \in Seq(B)
           /\ i < Len(d) => MergedForward(d, i) \in Seq(B)
  <1>1. DOMAIN d = 1..Len(d) /\ i \in 1..Len(d) /\ d[i] \in B /\ Len(d) \in Nat
    BY LenProperties, ElementOfSeq
  <1>2. \A j \in 1..Len(d) : RemoveAt(d, j) \in Seq(B) /\ Len(RemoveAt(d, j)) = Len(d) - 1
    BY RemoveAtKeeps
  <1>3. ASSUME NEW j \in 2..Len(d)
        PROVE  Joined(d, j) \in Seq(B)
    <2>1. d[j] \in B /\ d[j - 1] \in B
      BY <1>1, ElementOfSeq
    <2>2. d[j].text \in Seq(Line) /\ d[j - 1].text \in Seq(Line)
      BY <2>1, BlockIs
    <2>3. d[j - 1].text \o d[j].text \in Text
      BY <2>2, ConcatProperties DEF Text
    <2> DEFINE t == d[j - 1].text \o d[j].text
               b == [d[j - 1] EXCEPT !.text = t]
               r == RemoveAt(d, j)
    <2> HIDE DEF t
    <2>4. b \in B
      <3>1. t \in Text
        BY <2>3 DEF t
      <3> QED BY <2>1, <3>1, BlockWithText
    <2>5. Joined(d, j) = Spliced(r, j - 1, <<b>>)
      BY DEF Joined, t
    <2> HIDE DEF b, r
    <2>6. <<b>> \in Seq(B)
      BY <2>4
    <2>7. r \in Seq(B) /\ Len(r) = Len(d) - 1
      BY <1>2 DEF r
    <2>8. j - 1 \in 1..Len(r)
      BY <1>1, <2>7
    <2>9. Spliced(r, j - 1, <<b>>) \in Seq(B)
      BY <2>6, <2>7, <2>8, SplicedKeeps
    <2> QED BY <2>5, <2>9
  <1>4. i > 1 => i - 1 \in 1..Len(d) /\ i \in 2..Len(d)
    BY <1>1
  <1>5. i < Len(d) => i + 1 \in 2..Len(d)
    BY <1>1
  <1>6. i > 1 => MergedBack(d, i) \in Seq(B)
    BY <1>2, <1>3, <1>4 DEF MergedBack
  <1>7. i < Len(d) => MergedForward(d, i) \in Seq(B)
    BY <1>1, <1>2, <1>3, <1>5 DEF MergedForward
  <1> QED BY <1>1, <1>2, <1>6, <1>7

LEMMA LeastIs ==
    ASSUME NEW n \in Nat, NEW S, S \subseteq 0..n, S # {}
    PROVE  \E x \in S : \A y \in S : x <= y
  <1> DEFINE T == {n - x : x \in S}
  <1>1. \A x \in S : x \in Int /\ x <= n /\ n - x \in 0..n
    OBVIOUS
  <1>2. T \subseteq 0..n /\ T # {}
    BY <1>1
  <1>3. \A x \in S : n - x \in T
    OBVIOUS
  <1>4. \A t \in T : \E x \in S : t = n - x
    OBVIOUS
  <1> HIDE DEF T
  <1>5. PICK m \in T : \A t \in T : t <= m
    BY <1>2, MaxIs
  <1>6. PICK x \in S : m = n - x
    BY <1>4
  <1>7. \A y \in S : x <= y
    <2> TAKE y \in S
    <2>1. n - y <= n - x
      BY <1>3, <1>5, <1>6
    <2> QED BY <2>1, <1>1
  <1> QED BY <1>7

(* Alt-Up and Alt-Down.                                                        *)
LEMMA RunEndIs ==
    ASSUME NEW B, NEW d \in Seq(B), NEW i \in DOMAIN d
    PROVE  RunEnd(d, i) \in i..Len(d)
  <1> DEFINE S == {j \in i..Len(d) : \A k \in (i + 1)..j : d[k].id \in Below(d, d[i].id)}
  <1>1. Len(d) \in Nat /\ i \in 1..Len(d)
    BY LenProperties
  <1>2. S \subseteq 0..Len(d) /\ S \subseteq i..Len(d)
    BY <1>1
  <1>3. i \in S
    BY <1>1
  <1>4. RunEnd(d, i) = Max(S)
    BY DEF RunEnd
  <1> HIDE DEF S
  <1>5. Max(S) \in S
    BY <1>1, <1>2, <1>3, MaxIs
  <1> QED BY <1>2, <1>4, <1>5

LEMMA ItemsAre ==
    ASSUME NEW B, NEW d \in Seq(B), NEW i \in DOMAIN d, NEW folded
    PROVE  \A item \in Items(d, i, folded) :
                /\ item[1] \in 1..Len(d) /\ item[2] \in 1..Len(d) /\ item[1] <= item[2]
                /\ Len(d) \in Nat
  <1>1. Len(d) \in Nat /\ DOMAIN d = 1..Len(d)
    BY LenProperties
  <1>2. \A j \in DOMAIN d : RunEnd(d, j) \in 1..Len(d) /\ j <= RunEnd(d, j) /\ j \in 1..Len(d)
    BY <1>1, RunEndIs
  <1>3. ASSUME NEW item \in Items(d, i, folded)
        PROVE  \E j \in DOMAIN d : item = <<j, RunEnd(d, j)>> \/ item = <<j, j>>
    <2>1. CASE d[i].config
      BY <2>1, <1>3 DEF Items
    <2>2. CASE ~d[i].config
      BY <2>2, <1>3 DEF Items
    <2> QED BY <2>1, <2>2
  <1>4. ASSUME NEW item \in Items(d, i, folded)
        PROVE  item[1] \in 1..Len(d) /\ item[2] \in 1..Len(d) /\ item[1] <= item[2]
    <2>1. PICK j \in DOMAIN d : item = <<j, RunEnd(d, j)>> \/ item = <<j, j>>
      BY <1>3
    <2> QED BY <2>1, <1>1, <1>2
  <1> QED BY <1>1, <1>4

LEMMA ItemOfIs ==
    ASSUME NEW B, NEW d \in Seq(B), NEW i \in DOMAIN d, NEW folded,
           \E item \in Items(d, i, folded) : item[1] = i
    PROVE  ItemOf(d, i, folded) \in Items(d, i, folded)
  <1>1. \E item \in Items(d, i, folded) : item[1] <= i /\ i <= item[2]
    BY ItemsAre
  <1> QED BY <1>1 DEF ItemOf

LEMMA MovingKeeps ==
    ASSUME NEW B, NEW d \in Seq(B), NEW i \in DOMAIN d, NEW folded,
           \E item \in Items(d, i, folded) : item[1] = i
    PROVE  /\ ItemsBelow(d, i, folded) # {} => MovedDown(d, i, folded) \in Seq(B)
           /\ ItemsAbove(d, i, folded) # {} => MovedUp(d, i, folded) \in Seq(B)
  <1> DEFINE item == ItemOf(d, i, folded)
  <1>1. /\ item[1] \in 1..Len(d) /\ item[2] \in 1..Len(d) /\ item[1] <= item[2]
        /\ Len(d) \in Nat
    BY ItemOfIs, ItemsAre
  <1>2. \A a, b \in Int : 1 <= a /\ b <= Len(d) => SubSeq(d, a, b) \in Seq(B)
    BY Cut
  <1>3. ASSUME ItemsBelow(d, i, folded) # {}
        PROVE  MovedDown(d, i, folded) \in Seq(B)
    <2> DEFINE S  == ItemsBelow(d, i, folded)
               to == CHOOSE t \in S : \A s \in S : t[1] <= s[1]
    <2>1. \A t \in S : t[1] \in 1..Len(d) /\ t[2] \in 1..Len(d) /\ t[1] <= t[2]
      BY ItemsAre DEF ItemsBelow
    <2>2. {t[1] : t \in S} \subseteq 0..Len(d) /\ {t[1] : t \in S} # {}
      BY <2>1, <1>1, <1>3
    <2>3. PICK x \in {t[1] : t \in S} : \A y \in {t[1] : t \in S} : x <= y
      BY <2>2, <1>1, LeastIs
    <2>4. \E t \in S : \A s \in S : t[1] <= s[1]
      BY <2>3
    <2>5. to \in S
      BY <2>4
    <2>6. to[2] \in 1..Len(d)
      BY <2>1, <2>5
    <2> DEFINE p == SubSeq(d, 1, item[1] - 1)
               q == SubSeq(d, item[2] + 1, to[2])
               r == SubSeq(d, item[1], item[2])
               s == SubSeq(d, to[2] + 1, Len(d))
    <2>7. MovedDown(d, i, folded) = p \o q \o r \o s
      BY DEF MovedDown
    <2> HIDE DEF item, to
    <2>8. p \in Seq(B) /\ q \in Seq(B) /\ r \in Seq(B) /\ s \in Seq(B)
      <3>1. PICK a, b \in 1..Len(d) : a = item[1] /\ b = item[2]
        BY <1>1
      <3>2. PICK e, g \in 1..Len(d) : e = to[1] /\ g = to[2]
        BY <2>1, <2>5
      <3>3. /\ a \in Int /\ b \in Int /\ e \in Int /\ g \in Int /\ Len(d) \in Int
            /\ 1 <= a /\ a - 1 <= Len(d) /\ b <= Len(d) /\ 1 <= b + 1
            /\ 1 <= e /\ e - 1 <= Len(d) /\ g <= Len(d) /\ 1 <= g + 1
        BY <1>1
      <3>4. d \in Seq(B)
        OBVIOUS
      <3>5. SubSeq(d, 1, a - 1) \in Seq(B) /\ SubSeq(d, 1, e - 1) \in Seq(B)
        BY <3>3, <3>4, Cut
      <3>6. SubSeq(d, a, b) \in Seq(B) /\ SubSeq(d, e, a - 1) \in Seq(B)
        BY <3>3, <3>4, Cut
      <3>7. SubSeq(d, b + 1, g) \in Seq(B) /\ SubSeq(d, b + 1, Len(d)) \in Seq(B)
        BY <3>3, <3>4, Cut
      <3>8. SubSeq(d, g + 1, Len(d)) \in Seq(B)
        BY <3>3, <3>4, Cut
      <3> QED BY <3>1, <3>2, <3>5, <3>6, <3>7, <3>8
    <2> HIDE DEF p, q, r, s
    <2>10. p \o q \in Seq(B)
      BY <2>8, ConcatProperties
    <2>11. (p \o q) \o r \in Seq(B)
      BY <2>8, <2>10, ConcatProperties
    <2>12. ((p \o q) \o r) \o s \in Seq(B)
      BY <2>8, <2>11, ConcatProperties
    <2> QED BY <2>7, <2>12
  <1>4. ASSUME ItemsAbove(d, i, folded) # {}
        PROVE  MovedUp(d, i, folded) \in Seq(B)
    <2> DEFINE S  == ItemsAbove(d, i, folded)
               to == CHOOSE t \in S : \A s \in S : t[1] >= s[1]
    <2>1. \A t \in S : t[1] \in 1..Len(d) /\ t[2] \in 1..Len(d) /\ t[1] <= t[2]
      BY ItemsAre DEF ItemsAbove
    <2>2. {t[1] : t \in S} \subseteq 0..Len(d) /\ {t[1] : t \in S} # {}
      BY <2>1, <1>1, <1>4
    <2>3. PICK x \in {t[1] : t \in S} : \A y \in {t[1] : t \in S} : y <= x
      BY <2>2, <1>1, MaxIs
    <2>4. \E t \in S : \A s \in S : t[1] >= s[1]
      <3>1. PICK t \in S : t[1] = x
        BY <2>3
      <3>2. \A s \in S : s[1] <= t[1]
        BY <2>3, <3>1
      <3> QED BY <3>2, <2>1
    <2>5. to \in S
      BY <2>4
    <2>6. to[1] \in 1..Len(d)
      BY <2>1, <2>5
    <2> DEFINE p == SubSeq(d, 1, to[1] - 1)
               q == SubSeq(d, item[1], item[2])
               r == SubSeq(d, to[1], item[1] - 1)
               s == SubSeq(d, item[2] + 1, Len(d))
    <2>7. MovedUp(d, i, folded) = p \o q \o r \o s
      BY DEF MovedUp
    <2> HIDE DEF item, to
    <2>8. p \in Seq(B) /\ q \in Seq(B) /\ r \in Seq(B) /\ s \in Seq(B)
      <3>1. PICK a, b \in 1..Len(d) : a = item[1] /\ b = item[2]
        BY <1>1
      <3>2. PICK e, g \in 1..Len(d) : e = to[1] /\ g = to[2]
        BY <2>1, <2>5
      <3>3. /\ a \in Int /\ b \in Int /\ e \in Int /\ g \in Int /\ Len(d) \in Int
            /\ 1 <= a /\ a - 1 <= Len(d) /\ b <= Len(d) /\ 1 <= b + 1
            /\ 1 <= e /\ e - 1 <= Len(d) /\ g <= Len(d) /\ 1 <= g + 1
        BY <1>1
      <3>4. d \in Seq(B)
        OBVIOUS
      <3>5. SubSeq(d, 1, a - 1) \in Seq(B) /\ SubSeq(d, 1, e - 1) \in Seq(B)
        BY <3>3, <3>4, Cut
      <3>6. SubSeq(d, a, b) \in Seq(B) /\ SubSeq(d, e, a - 1) \in Seq(B)
        BY <3>3, <3>4, Cut
      <3>7. SubSeq(d, b + 1, g) \in Seq(B) /\ SubSeq(d, b + 1, Len(d)) \in Seq(B)
        BY <3>3, <3>4, Cut
      <3>8. SubSeq(d, g + 1, Len(d)) \in Seq(B)
        BY <3>3, <3>4, Cut
      <3> QED BY <3>1, <3>2, <3>5, <3>6, <3>7, <3>8
    <2> HIDE DEF p, q, r, s
    <2>10. p \o q \in Seq(B)
      BY <2>8, ConcatProperties
    <2>11. (p \o q) \o r \in Seq(B)
      BY <2>8, <2>10, ConcatProperties
    <2>12. ((p \o q) \o r) \o s \in Seq(B)
      BY <2>8, <2>11, ConcatProperties
    <2> QED BY <2>7, <2>12
  <1> QED BY <1>3, <1>4

--------------------------------------------------------------------------------
(* The plugins.                                                                *)

LEMMA TupleIs ==
    ASSUME NEW S, NEW s \in Seq(S)
    PROVE  Tuple(s) = s
  BY ConcatEmptySeq DEF Tuple

(* How many places before the i-th, of some.                                   *)
LEMMA CountBefore ==
    ASSUME NEW n \in Nat, NEW S, S \subseteq 1..n
    PROVE  /\ Cardinality(S) \in 0..n
           /\ \A i \in 1..(n + 1) : Cardinality({j \in 1..(i - 1) : j \in S}) \in 0..(i - 1)
           /\ \A i, k \in 1..(n + 1) : i \in S /\ i < k =>
                Cardinality({j \in 1..(i - 1) : j \in S}) < Cardinality({j \in 1..(k - 1) : j \in S})
           /\ \A i \in S : Cardinality({j \in 1..(i - 1) : j \in S}) < Cardinality(S)
  <1> DEFINE before(i) == {j \in 1..(i - 1) : j \in S}
  <1>1. IsFiniteSet(1..n) /\ Cardinality(1..n) = n
    BY FS_Interval
  <1>2. IsFiniteSet(S) /\ Cardinality(S) \in 0..n
    <2>1. S \in SUBSET (1..n)
      OBVIOUS
    <2>2. IsFiniteSet(S) /\ Cardinality(S) <= n
      BY <1>1, <2>1, FS_Subset
    <2>3. Cardinality(S) \in Nat
      BY <2>2, FS_CardinalityType
    <2> QED BY <2>2, <2>3
  <1>3. ASSUME NEW i \in 1..(n + 1)
        PROVE  IsFiniteSet(before(i)) /\ Cardinality(before(i)) \in 0..(i - 1)
    <2>1. IsFiniteSet(1..(i - 1)) /\ Cardinality(1..(i - 1)) = i - 1
      BY FS_Interval
    <2>2. before(i) \in SUBSET (1..(i - 1))
      OBVIOUS
    <2> HIDE DEF before
    <2> QED BY <2>1, <2>2, FS_Subset, FS_CardinalityType
  <1>4. ASSUME NEW i \in 1..(n + 1), NEW k \in 1..(n + 1), i \in S, i < k
        PROVE  Cardinality(before(i)) < Cardinality(before(k))
    <2>1. before(i) \in SUBSET before(k) /\ i \in before(k) \ before(i)
      BY <1>4
    <2>2. /\ IsFiniteSet(before(k))
          /\ Cardinality(before(k)) \in Int /\ Cardinality(before(i)) \in Int
      BY <1>3
    <2> HIDE DEF before
    <2>3. Cardinality(before(i)) <= Cardinality(before(k))
                /\ Cardinality(before(i)) # Cardinality(before(k))
      BY <2>1, <2>2, FS_Subset
    <2> QED BY <2>2, <2>3
  <1>5. ASSUME NEW i \in S
        PROVE  Cardinality(before(i)) < Cardinality(S)
    <2>1. before(n + 1) = S
      <3>1. n + 1 - 1 = n
        OBVIOUS
      <3>2. before(n + 1) = {j \in 1..n : j \in S}
        BY <3>1
      <3> HIDE DEF before
      <3> QED BY <3>2
    <2>2. i \in 1..(n + 1) /\ n + 1 \in 1..(n + 1) /\ i < n + 1
      OBVIOUS
    <2> HIDE DEF before
    <2>3. Cardinality(before(i)) < Cardinality(before(n + 1))
      BY <2>2, <1>4
    <2> QED BY <2>1, <2>3
  <1> QED BY <1>2, <1>3, <1>4, <1>5

LEMMA StampedIs ==
    ASSUME NEW n \in Nat, NEW d \in Seq(Block(n))
    PROVE  LET s == Stamped(d, n)
               m == n + Unstamped(d)
           IN  /\ Unstamped(d) \in Nat
               /\ s \in Seq(Block(m)) /\ Len(s) = Len(d)
               /\ \A i \in 1..Len(d) :
                    /\ s[i].id \in 1..m
                    /\ ~NeedsId(d, i) => s[i].id = d[i].id /\ d[i].id # NoUnit
                    /\ NeedsId(d, i) => s[i].id > n
                    /\ s[i].parent = d[i].parent /\ s[i].heading = d[i].heading
                    /\ s[i].hashes = d[i].hashes
                    /\ s[i].config = d[i].config /\ s[i].text = d[i].text
               /\ \A i, j \in 1..Len(d) : s[i].id = s[j].id => i = j
  <1> DEFINE s      == Stamped(d, n)
             m      == n + Unstamped(d)
             N      == {i \in 1..Len(d) : NeedsId(d, i)}
             at(i)  == Cardinality({j \in 1..(i - 1) : j \in N})
             new(i) == IF NeedsId(d, i) THEN [d[i] EXCEPT !.id = n + 1 + at(i)] ELSE d[i]
  <1>1. DOMAIN d = 1..Len(d) /\ Len(d) \in Nat
    BY LenProperties
  <1>2. \A i \in 1..Len(d) : {j \in 1..(i - 1) : NeedsId(d, j)} = {j \in 1..(i - 1) : j \in N}
    BY <1>1
  <1>3. s = [i \in 1..Len(d) |-> new(i)]
    BY <1>1, <1>2 DEF Stamped, Earlier
  <1>4. Unstamped(d) = Cardinality(N)
    BY <1>1 DEF Unstamped
  <1>5. N \subseteq 1..Len(d) /\ \A i \in 1..Len(d) : i \in N <=> NeedsId(d, i)
    OBVIOUS
  <1> HIDE DEF N
  <1>6. /\ Cardinality(N) \in Nat
        /\ \A i \in 1..Len(d) : at(i) \in Nat
        /\ \A i, k \in 1..Len(d) : i \in N /\ i < k => at(i) < at(k)
        /\ \A i \in N : at(i) < Cardinality(N)
    <2>1. \A i \in 1..Len(d) : i \in 1..(Len(d) + 1)
      BY <1>1
    <2>2. Cardinality(N) \in 0..Len(d)
      BY <1>1, <1>5, CountBefore
    <2>3. \A i \in 1..(Len(d) + 1) : at(i) \in 0..(i - 1)
      BY <1>1, <1>5, CountBefore
    <2>4. \A i, k \in 1..(Len(d) + 1) : i \in N /\ i < k => at(i) < at(k)
      BY <1>1, <1>5, CountBefore
    <2>5. \A i \in N : at(i) < Cardinality(N)
      BY <1>1, <1>5, CountBefore
    <2> HIDE DEF at
    <2>6. Cardinality(N) \in Nat
      BY <2>2, <1>1
    <2>7. \A i \in 1..Len(d) : at(i) \in Nat
      <3> TAKE i \in 1..Len(d)
      <3>1. at(i) \in 0..(i - 1)
        BY <2>1, <2>3
      <3> QED BY <3>1, <1>1
    <2>8. \A i, k \in 1..Len(d) : i \in N /\ i < k => at(i) < at(k)
      BY <2>1, <2>4
    <2> QED BY <2>5, <2>6, <2>7, <2>8
  <1> HIDE DEF at
  <1>7. Unstamped(d) \in Nat /\ m \in Nat /\ n <= m
    BY <1>4, <1>6
  <1>8. \A i \in 1..Len(d) : d[i] \in Block(n)
    BY ElementOfSeq
  <1>9. ASSUME NEW i \in 1..Len(d), NeedsId(d, i)
        PROVE  /\ new(i) \in Block(m)
               /\ new(i).id = n + 1 + at(i) /\ new(i).id \in 1..m /\ new(i).id > n
               /\ new(i).parent = d[i].parent /\ new(i).heading = d[i].heading
               /\ new(i).hashes = d[i].hashes
               /\ new(i).config = d[i].config /\ new(i).text = d[i].text
    <2> DEFINE u == n + 1 + at(i)
    <2>1. i \in N
      BY <1>5, <1>9
    <2>2. at(i) \in Nat /\ at(i) < Cardinality(N) /\ Cardinality(N) \in Nat
      BY <2>1, <1>6
    <2>3. u \in 1..m /\ u > n
      BY <2>2, <1>4
    <2>4. new(i) = [d[i] EXCEPT !.id = u]
      BY <1>9
    <2>5. d[i] \in Block(m)
      BY <1>7, <1>8, BlockGrows
    <2> HIDE DEF u, m
    <2>6. [d[i] EXCEPT !.id = u] \in Block(m)
      BY <2>3, <2>5 DEF Block
    <2>7. LET b == [d[i] EXCEPT !.id = u] IN
                /\ b.id = u /\ b.parent = d[i].parent /\ b.heading = d[i].heading
                /\ b.hashes = d[i].hashes /\ b.config = d[i].config /\ b.text = d[i].text
      BY <2>5 DEF Block
    <2> HIDE DEF new
    <2> QED BY <2>3, <2>4, <2>6, <2>7 DEF u
  <1>10. ASSUME NEW i \in 1..Len(d), ~NeedsId(d, i)
         PROVE  new(i) = d[i] /\ new(i) \in Block(m) /\ new(i).id \in 1..n /\ new(i).id \in 1..m
                    /\ d[i].id # NoUnit
    <2>1. new(i) = d[i] /\ d[i] \in Block(n) /\ d[i] \in Block(m)
      BY <1>7, <1>8, <1>10, BlockGrows
    <2>2. d[i].id # NoUnit
      BY <1>10 DEF NeedsId
    <2>3. d[i].id \in 1..n
      BY <2>1, <2>2 DEF Block
    <2>4. d[i].id \in 1..m
      BY <2>3, <1>7
    <2> QED BY <2>1, <2>2, <2>3, <2>4
  <1> HIDE DEF new, m
  <1>11. \A i \in 1..Len(d) : new(i) \in Block(m)
    BY <1>9, <1>10
  <1>12. s \in Seq(Block(m)) /\ Len(s) = Len(d) /\ \A i \in 1..Len(d) : s[i] = new(i)
    <2>1. [i \in 1..Len(d) |-> new(i)] \in Seq(Block(m))
      BY <1>1, <1>11, IsASeq
    <2> QED BY <1>1, <1>3, <2>1
  <1> HIDE DEF s
  <1>13. ASSUME NEW i \in 1..Len(d), NEW j \in 1..Len(d), i < j
         PROVE  s[i].id # s[j].id
    <2>1. CASE ~NeedsId(d, j)
      <3>1. s[j].id = d[j].id /\ d[j].id \in 1..n
        BY <2>1, <1>10, <1>12
      <3>2. d[i].id # d[j].id
        <4>1. i \in 1..(j - 1)
          BY <1>1, <1>13
        <4> QED BY <2>1, <4>1 DEF NeedsId
      <3>3. NeedsId(d, i) => s[i].id > n
        BY <1>9, <1>12
      <3>4. ~NeedsId(d, i) => s[i].id = d[i].id
        BY <1>10, <1>12
      <3> QED BY <3>1, <3>2, <3>3, <3>4
    <2>2. CASE NeedsId(d, j) /\ ~NeedsId(d, i)
      <3>1. s[j].id > n /\ s[i].id \in 1..n
        BY <2>2, <1>9, <1>10, <1>12
      <3>2. s[j].id \in Int
        BY <2>2, <1>9, <1>12
      <3> QED BY <3>1, <3>2
    <2>3. CASE NeedsId(d, j) /\ NeedsId(d, i)
      <3>1. s[j].id = n + 1 + at(j) /\ s[i].id = n + 1 + at(i)
        BY <2>3, <1>9, <1>12
      <3>2. at(i) < at(j) /\ at(i) \in Nat /\ at(j) \in Nat
        BY <2>3, <1>5, <1>6, <1>13
      <3> QED BY <3>1, <3>2
    <2> QED BY <2>1, <2>2, <2>3
  <1>14. \A i, j \in 1..Len(d) : s[i].id = s[j].id => i = j
    <2> TAKE i, j \in 1..Len(d)
    <2>1. i < j \/ j < i \/ i = j
      OBVIOUS
    <2> QED BY <2>1, <1>13
  <1>15. \A i \in 1..Len(d) :
            /\ s[i].id \in 1..m
            /\ ~NeedsId(d, i) => s[i].id = d[i].id /\ d[i].id # NoUnit
            /\ NeedsId(d, i) => s[i].id > n
            /\ s[i].parent = d[i].parent /\ s[i].heading = d[i].heading
            /\ s[i].hashes = d[i].hashes
            /\ s[i].config = d[i].config /\ s[i].text = d[i].text
    BY <1>9, <1>10, <1>12
  <1> QED BY <1>7, <1>12, <1>14, <1>15 DEF s, m

LEMMA BlockWithHeading ==
    ASSUME NEW n, NEW b \in Block(n), NEW h \in BOOLEAN
    PROVE  LET x == [b EXCEPT !.heading = h] IN
                /\ x \in Block(n) /\ x.heading = h
                /\ x.id = b.id /\ x.parent = b.parent /\ x.hashes = b.hashes
                /\ x.config = b.config /\ x.text = b.text
  BY DEF Block

LEMMA BlockWithParent ==
    ASSUME NEW n, NEW b \in Block(n), NEW p \in Unit \cup {Top}
    PROVE  LET x == [b EXCEPT !.parent = p] IN
                /\ x \in Block(n) /\ x.parent = p
                /\ x.id = b.id /\ x.heading = b.heading /\ x.hashes = b.hashes
                /\ x.config = b.config /\ x.text = b.text
  BY DEF Block

(* headingRecognize: only what counts as a heading changes.                    *)
LEMMA RecognizedIs ==
    ASSUME NEW n, NEW s \in Seq(Block(n))
    PROVE  LET r == Recognized(s) IN
           /\ r \in Seq(Block(n)) /\ Len(r) = Len(s)
           /\ \A i \in 1..Len(s) :
                /\ r[i].id = s[i].id /\ r[i].parent = s[i].parent /\ r[i].hashes = s[i].hashes
                /\ r[i].config = s[i].config /\ r[i].text = s[i].text
                /\ s[i].config => r[i].heading = s[i].heading
                /\ ~s[i].config =>
                    (r[i].heading <=> s[i].hashes > 0 /\ (s[i].heading \/ Len(s[i].text) <= 1))
  <1> DEFINE r      == Recognized(s)
             h(i)   == s[i].hashes > 0 /\ (s[i].heading \/ Len(s[i].text) <= 1)
             new(i) == IF s[i].config THEN s[i] ELSE [s[i] EXCEPT !.heading = h(i)]
  <1>1. DOMAIN s = 1..Len(s) /\ Len(s) \in Nat
    BY LenProperties
  <1>2. r = [i \in 1..Len(s) |-> new(i)]
    BY <1>1 DEF Recognized
  <1>3. \A i \in 1..Len(s) : s[i] \in Block(n)
    BY ElementOfSeq
  <1>4. \A i \in 1..Len(s) : h(i) \in BOOLEAN
    OBVIOUS
  <1>5. ASSUME NEW i \in 1..Len(s)
        PROVE  /\ new(i) \in Block(n)
               /\ new(i).id = s[i].id /\ new(i).parent = s[i].parent
               /\ new(i).hashes = s[i].hashes
               /\ new(i).config = s[i].config /\ new(i).text = s[i].text
               /\ s[i].config => new(i).heading = s[i].heading
               /\ ~s[i].config => new(i).heading = h(i)
    <2> HIDE DEF h
    <2>1. CASE s[i].config
      BY <2>1, <1>3
    <2>2. CASE ~s[i].config
      <3>1. new(i) = [s[i] EXCEPT !.heading = h(i)]
        BY <2>2
      <3> HIDE DEF new
      <3>2. s[i] \in Block(n) /\ h(i) \in BOOLEAN
        BY <1>3, <1>4
      <3> QED BY <2>2, <3>1, <3>2, BlockWithHeading
    <2> QED BY <2>1, <2>2
  <1> HIDE DEF new
  <1>6. r \in Seq(Block(n)) /\ Len(r) = Len(s) /\ \A i \in 1..Len(s) : r[i] = new(i)
    <2>1. [i \in 1..Len(s) |-> new(i)] \in Seq(Block(n))
      BY <1>1, <1>5, IsASeq
    <2> QED BY <1>1, <1>2, <2>1
  <1> HIDE DEF r
  <1>7. \A i \in 1..Len(s) :
            /\ r[i].id = s[i].id /\ r[i].parent = s[i].parent /\ r[i].hashes = s[i].hashes
            /\ r[i].config = s[i].config /\ r[i].text = s[i].text
            /\ s[i].config => r[i].heading = s[i].heading
            /\ ~s[i].config => (r[i].heading <=> h(i))
    <2> HIDE DEF h
    <2> QED BY <1>5, <1>6
  <1> QED BY <1>6, <1>7 DEF r

(* The section a block is in: the last of the headings that are open there.    *)
Section(d, i) == IF OpenAt(d, i) = {} THEN Top ELSE d[Max(OpenAt(d, i))].id

LEMMA OpenIs ==
    ASSUME NEW n, NEW s \in Seq(Block(n)), NEW i \in 1..Len(s), OpenAt(s, i) # {}
    PROVE  LET h == Max(OpenAt(s, i)) IN
           /\ h \in OpenAt(s, i) /\ h \in 1..(i - 1) /\ h \in 1..Len(s) /\ s[h].heading
           /\ \A j \in OpenAt(s, i) : j <= h
  <1> DEFINE h == Max(OpenAt(s, i))
  <1>1. Len(s) \in Nat
    BY LenProperties
  <1>2. OpenAt(s, i) \subseteq 0..Len(s)
    BY <1>1 DEF OpenAt
  <1>3. h \in OpenAt(s, i) /\ \A j \in OpenAt(s, i) : j <= h
    BY <1>1, <1>2, MaxIs
  <1>4. h \in 1..(i - 1) /\ s[h].heading
    <2> HIDE DEF h
    <2> QED BY <1>3 DEF OpenAt
  <1> QED BY <1>1, <1>3, <1>4

(* headingResection: only the parents change.                                  *)
LEMMA ResectionedIs ==
    ASSUME NEW n, NEW s \in Seq(Block(n)), \A i \in 1..Len(s) : s[i].id \in Unit
    PROVE  LET q == Resectioned(s) IN
           /\ q \in Seq(Block(n)) /\ Len(q) = Len(s)
           /\ \A i \in 1..Len(s) :
                /\ q[i].id = s[i].id /\ q[i].heading = s[i].heading /\ q[i].hashes = s[i].hashes
                /\ q[i].config = s[i].config /\ q[i].text = s[i].text
                /\ s[i].config => q[i].parent = s[i].parent
                /\ ~s[i].config => q[i].parent = Section(s, i)
  <1> DEFINE q      == Resectioned(s)
             new(i) == IF s[i].config THEN s[i] ELSE [s[i] EXCEPT !.parent = Section(s, i)]
  <1>1. DOMAIN s = 1..Len(s) /\ Len(s) \in Nat
    BY LenProperties
  <1>2. q = [i \in 1..Len(s) |-> new(i)]
    BY <1>1 DEF Resectioned, Section
  <1>3. \A i \in 1..Len(s) : s[i] \in Block(n)
    BY ElementOfSeq
  <1>4. \A i \in 1..Len(s) : Section(s, i) \in Unit \cup {Top}
    BY OpenIs DEF Section
  <1>5. ASSUME NEW i \in 1..Len(s)
        PROVE  /\ new(i) \in Block(n)
               /\ new(i).id = s[i].id /\ new(i).heading = s[i].heading
               /\ new(i).hashes = s[i].hashes
               /\ new(i).config = s[i].config /\ new(i).text = s[i].text
               /\ s[i].config => new(i).parent = s[i].parent
               /\ ~s[i].config => new(i).parent = Section(s, i)
    <2>1. CASE s[i].config
      BY <2>1, <1>3
    <2>2. CASE ~s[i].config
      <3>1. new(i) = [s[i] EXCEPT !.parent = Section(s, i)]
        BY <2>2
      <3> HIDE DEF new
      <3>2. s[i] \in Block(n) /\ Section(s, i) \in Unit \cup {Top}
        BY <1>3, <1>4
      <3> QED BY <2>2, <3>1, <3>2, BlockWithParent
    <2> QED BY <2>1, <2>2
  <1> HIDE DEF new
  <1>6. q \in Seq(Block(n)) /\ Len(q) = Len(s) /\ \A i \in 1..Len(s) : q[i] = new(i)
    <2>1. [i \in 1..Len(s) |-> new(i)] \in Seq(Block(n))
      BY <1>1, <1>5, IsASeq
    <2> QED BY <1>1, <1>2, <2>1
  <1> HIDE DEF q
  <1> QED BY <1>5, <1>6 DEF q

(* What the plugins make of a document.                                        *)
LEMMA SettledIs ==
    ASSUME NEW n \in Nat, NEW d \in Seq(Block(n)), n + Unstamped(d) <= MaxUnit
    PROVE  LET q == Settled(d, n)
               m == n + Unstamped(d)
           IN  /\ m \in 0..MaxUnit /\ n <= m
               /\ q \in Seq(Block(m)) /\ Len(q) = Len(d)
               /\ \A i \in 1..Len(d) :
                    /\ q[i].id \in 1..m
                    /\ ~NeedsId(d, i) => q[i].id = d[i].id /\ d[i].id # NoUnit
                    /\ NeedsId(d, i) => q[i].id > n
                    /\ q[i].hashes = d[i].hashes
                    /\ q[i].config = d[i].config /\ q[i].text = d[i].text
                    /\ d[i].config =>
                            q[i].heading = d[i].heading /\ q[i].parent = d[i].parent
                    /\ ~d[i].config =>
                        (q[i].heading <=> d[i].hashes > 0 /\ (d[i].heading \/ Len(d[i].text) <= 1))
                    /\ ~d[i].config => q[i].parent = Section(q, i)
               /\ \A i, j \in 1..Len(d) : q[i].id = q[j].id => i = j
  <1> DEFINE m == n + Unstamped(d)
             s == Stamped(d, n)
             r == Recognized(s)
             q == Resectioned(r)
  <1>1. Tuple(d) = d
    BY TupleIs
  <1>2. /\ Unstamped(d) \in Nat /\ m \in 0..MaxUnit /\ n <= m
        /\ s \in Seq(Block(m)) /\ Len(s) = Len(d)
        /\ \A i \in 1..Len(d) :
            /\ s[i].id \in 1..m
            /\ ~NeedsId(d, i) => s[i].id = d[i].id /\ d[i].id # NoUnit
            /\ NeedsId(d, i) => s[i].id > n
            /\ s[i].parent = d[i].parent /\ s[i].heading = d[i].heading
            /\ s[i].hashes = d[i].hashes
            /\ s[i].config = d[i].config /\ s[i].text = d[i].text
        /\ \A i, j \in 1..Len(d) : s[i].id = s[j].id => i = j
    BY StampedIs, OutlineAssumption
  <1> HIDE DEF s, m
  <1>3. /\ r \in Seq(Block(m)) /\ Len(r) = Len(s)
        /\ \A i \in 1..Len(s) :
            /\ r[i].id = s[i].id /\ r[i].parent = s[i].parent /\ r[i].hashes = s[i].hashes
            /\ r[i].config = s[i].config /\ r[i].text = s[i].text
            /\ s[i].config => r[i].heading = s[i].heading
            /\ ~s[i].config =>
                (r[i].heading <=> s[i].hashes > 0 /\ (s[i].heading \/ Len(s[i].text) <= 1))
    BY <1>2, RecognizedIs
  <1> HIDE DEF r
  <1>4. \A i \in 1..Len(r) : r[i].id \in Unit
    BY <1>2, <1>3, IdsAreUnits
  <1>5. /\ q \in Seq(Block(m)) /\ Len(q) = Len(r)
        /\ \A i \in 1..Len(r) :
            /\ q[i].id = r[i].id /\ q[i].heading = r[i].heading /\ q[i].hashes = r[i].hashes
            /\ q[i].config = r[i].config /\ q[i].text = r[i].text
            /\ r[i].config => q[i].parent = r[i].parent
            /\ ~r[i].config => q[i].parent = Section(r, i)
    BY <1>3, <1>4, ResectionedIs
  <1> HIDE DEF q
  <1>6. Settled(d, n) = q
    <2>1. Tuple(s) = s /\ Tuple(r) = r /\ Tuple(q) = q
      BY <1>2, <1>3, <1>5, TupleIs
    <2> QED BY <1>1, <2>1 DEF Settled, s, r, q
  <1>7. Len(d) \in Nat
    BY LenProperties
  <1>8. ASSUME NEW i \in 1..Len(d)
        PROVE  Section(q, i) = Section(r, i)
    <2>1. \A j \in 1..Len(d) :
            /\ q[j].id = r[j].id /\ q[j].heading = r[j].heading /\ q[j].hashes = r[j].hashes
            /\ q[j].config = r[j].config /\ (r[j].config => q[j].parent = r[j].parent)
      BY <1>2, <1>3, <1>5
    <2>2. \A j \in 1..(i - 1) : j \in 1..Len(d) /\ \A k \in (j + 1)..(i - 1) : k \in 1..Len(d)
      BY <1>7
    <2>3. OpenAt(q, i) = OpenAt(r, i)
      BY <2>1, <2>2 DEF OpenAt
    <2>4. CASE OpenAt(r, i) = {}
      BY <2>3, <2>4 DEF Section
    <2>5. CASE OpenAt(r, i) # {}
      <3>1. r \in Seq(Block(m)) /\ i \in 1..Len(r) /\ Len(r) = Len(d)
        BY <1>2, <1>3
      <3>2. Max(OpenAt(r, i)) \in 1..Len(r)
        BY <3>1, <2>5, OpenIs
      <3> QED BY <2>1, <2>3, <2>5, <3>1, <3>2 DEF Section
    <2> QED BY <2>4, <2>5
  <1>9. \A i \in 1..Len(d) :
            /\ q[i].id \in 1..m
            /\ ~NeedsId(d, i) => q[i].id = d[i].id /\ d[i].id # NoUnit
            /\ NeedsId(d, i) => q[i].id > n
            /\ q[i].hashes = d[i].hashes
            /\ q[i].config = d[i].config /\ q[i].text = d[i].text
            /\ d[i].config => q[i].heading = d[i].heading /\ q[i].parent = d[i].parent
            /\ ~d[i].config =>
                (q[i].heading <=> d[i].hashes > 0 /\ (d[i].heading \/ Len(d[i].text) <= 1))
            /\ ~d[i].config => q[i].parent = Section(q, i)
    <2> TAKE i \in 1..Len(d)
    <2>1. q[i].id = r[i].id /\ r[i].id = s[i].id
      BY <1>2, <1>3, <1>5
    <2>2. /\ q[i].hashes = d[i].hashes
          /\ q[i].config = d[i].config /\ q[i].text = d[i].text
          /\ s[i].config = d[i].config /\ r[i].config = d[i].config
      BY <1>2, <1>3, <1>5
    <2>3. d[i].config => q[i].heading = d[i].heading /\ q[i].parent = d[i].parent
      BY <2>2, <1>2, <1>3, <1>5
    <2>4. ~d[i].config =>
                (q[i].heading <=> d[i].hashes > 0 /\ (d[i].heading \/ Len(d[i].text) <= 1))
      <3>1. q[i].heading = r[i].heading
        BY <1>2, <1>3, <1>5
      <3>2. /\ s[i].hashes = d[i].hashes /\ s[i].heading = d[i].heading
            /\ s[i].text = d[i].text /\ s[i].config = d[i].config
        BY <1>2
      <3>3. ~s[i].config =>
                (r[i].heading <=> s[i].hashes > 0 /\ (s[i].heading \/ Len(s[i].text) <= 1))
        BY <1>2, <1>3
      <3> QED BY <3>1, <3>2, <3>3
    <2>5. ~d[i].config => q[i].parent = Section(q, i)
      BY <2>2, <1>2, <1>3, <1>5, <1>8
    <2> QED BY <1>2, <2>1, <2>2, <2>3, <2>4, <2>5
  <1>10. \A i, j \in 1..Len(d) : q[i].id = q[j].id => i = j
    <2>1. \A i \in 1..Len(d) : q[i].id = s[i].id
      BY <1>2, <1>3, <1>5
    <2> QED BY <1>2, <2>1
  <1>11. m \in 0..MaxUnit /\ n <= m /\ q \in Seq(Block(m)) /\ Len(q) = Len(d)
    BY <1>2, <1>3, <1>5
  <1> QED BY <1>6, <1>9, <1>10, <1>11 DEF m

(* The blocks of a content on the screen.                                      *)
LEMMA ShownIs ==
    ASSUME NEW n \in 0..MaxUnit, NEW c, IsContent(c), DOMAIN c \subseteq 1..n, NEW u \in DOMAIN c
    PROVE  /\ Shown(c, u) \in Block(n)
           /\ Shown(c, u).id = u /\ Shown(c, u).parent = c[u].parent
           /\ Shown(c, u).heading <=> c[u].kind = "heading"
           /\ Shown(c, u).config <=> c[u].kind = "config"
           /\ Shown(c, u).text = c[u].text
           /\ Shown(c, u).hashes = IF c[u].kind = "heading" THEN 1 + Cardinality(Above(c, u)) ELSE 0
           /\ Cardinality(Above(c, u)) \in Nat
  <1>1. Above(c, u) \in SUBSET DOMAIN c
    BY AboveClosed DEF Headings
  <1>2. Cardinality(Above(c, u)) \in Nat
    BY <1>1, FiniteContent
  <1>3. c[u] \in UnitRecord
    BY DEF IsContent
  <1>4. c[u].parent \in Unit \cup {Top} /\ c[u].text \in Text
    BY <1>3 DEF UnitRecord
  <1> DEFINE h == IF c[u].kind = "heading" THEN 1 + Cardinality(Above(c, u)) ELSE 0
  <1>5. h \in Int
    BY <1>2
  <1>6. u \in 1..n \cup {NoUnit}
    OBVIOUS
  <1>7. Shown(c, u) =
            [id |-> u, parent |-> c[u].parent, heading |-> c[u].kind = "heading", hashes |-> h,
             config |-> c[u].kind = "config", text |-> c[u].text]
    BY DEF Shown
  <1>8. Shown(c, u).hashes = h
    BY <1>7
  <1> HIDE DEF h
  <1>9. Shown(c, u) \in Block(n)
    BY <1>4, <1>5, <1>6, <1>7 DEF Block
  <1>10. LET x == [id |-> u, parent |-> c[u].parent, heading |-> c[u].kind = "heading", hashes |-> h,
                   config |-> c[u].kind = "config", text |-> c[u].text]
         IN  /\ x.id = u /\ x.parent = c[u].parent /\ x.text = c[u].text
             /\ x.heading = (c[u].kind = "heading") /\ x.config = (c[u].kind = "config")
    OBVIOUS
  <1>11. /\ Shown(c, u).id = u /\ Shown(c, u).parent = c[u].parent /\ Shown(c, u).text = c[u].text
         /\ Shown(c, u).heading = (c[u].kind = "heading")
         /\ Shown(c, u).config = (c[u].kind = "config")
    BY <1>7, <1>10
  <1> QED BY <1>2, <1>8, <1>9, <1>11 DEF h

LEMMA ProjectShows ==
    ASSUME NEW n \in 0..MaxUnit, NEW c, IsContent(c), Acyclic(c), Apart(c), DOMAIN c \subseteq 1..n
    PROVE  LET P == ProjectToDoc(c)
               w == Walk(c)
           IN  /\ P \in Seq(Block(n)) /\ Stamps(P)
               /\ Len(w) \in Nat /\ Len(P) \in {Len(w), Len(w) + 1}
               /\ \A k \in 1..Len(w) :
                    w[k] \in Reached(c) /\ w[k] \in DOMAIN c /\ P[k] = Shown(c, w[k])
               /\ Len(P) = Len(w) + 1 => P[Len(P)] = LineText
  <1> DEFINE P      == ProjectToDoc(c)
             w      == Walk(c)
             new(k) == Shown(c, w[k])
             blocks == [k \in 1..Len(w) |-> new(k)]
  <1>1. w \in Seq(Reached(c)) /\ \A j, k \in 1..Len(w) : j < k => w[j] # w[k]
    BY WalkLists
  <1> HIDE DEF w
  <1>2. DOMAIN w = 1..Len(w) /\ Len(w) \in Nat
    BY <1>1, LenProperties
  <1>3. \A k \in 1..Len(w) : w[k] \in Reached(c)
    BY <1>1, ElementOfSeq
  <1>4. Reached(c) \subseteq DOMAIN c
    BY DEF Reached
  <1>5. \A k \in 1..Len(w) : w[k] \in DOMAIN c
    BY <1>3, <1>4
  <1>6. \A k \in 1..Len(w) : new(k) \in Block(n) /\ new(k).id = w[k]
    BY <1>5, ShownIs
  <1>7. /\ ProjectToDoc(c) =
                IF Tuple(blocks) = << >> \/ IsDisplay(Last(Tuple(blocks))) \/ Last(Tuple(blocks)).config
                THEN Append(Tuple(blocks), LineText) ELSE Tuple(blocks)
    BY <1>2 DEF ProjectToDoc, w
  <1> HIDE DEF new
  <1>8. blocks \in Seq(Block(n)) /\ Len(blocks) = Len(w) /\ \A k \in 1..Len(w) : blocks[k] = new(k)
    <2>1. [k \in 1..Len(w) |-> new(k)] \in Seq(Block(n))
      BY <1>2, <1>6, IsASeq
    <2> QED BY <1>2, <2>1
  <1> HIDE DEF blocks
  <1>9. Tuple(blocks) = blocks
    BY <1>8, TupleIs
  <1>10. P = blocks \/ P = Append(blocks, LineText)
    BY <1>7, <1>9
  <1> HIDE DEF P
  <1>11. LineText \in Block(n) /\ n \in Nat
    BY LineTextIsBlock, OutlineAssumption
  <1>12. /\ P \in Seq(Block(n)) /\ Len(P) \in {Len(w), Len(w) + 1}
         /\ \A k \in 1..Len(w) : P[k] = blocks[k]
         /\ Len(P) = Len(w) + 1 => P[Len(P)] = LineText
    <2>1. CASE P = blocks
      <3>0. Len(P) = Len(w)
        BY <2>1, <1>8
      <3>1. Len(P) = Len(w) /\ Len(w) # Len(w) + 1
        BY <3>0, <1>2
      <3>2. P \in Seq(Block(n)) /\ \A k \in 1..Len(w) : P[k] = blocks[k]
        BY <2>1, <1>8
      <3> QED BY <3>1, <3>2
    <2>2. CASE P = Append(blocks, LineText)
      <3>1. /\ Append(blocks, LineText) \in Seq(Block(n))
            /\ Len(Append(blocks, LineText)) = Len(w) + 1
            /\ \A k \in 1..Len(w) : Append(blocks, LineText)[k] = blocks[k]
            /\ Append(blocks, LineText)[Len(w) + 1] = LineText
        BY <1>2, <1>8, <1>11, AppendProperties
      <3> QED BY <2>2, <3>1
    <2> QED BY <1>10, <2>1, <2>2
  <1>13. \A k \in 1..Len(w) : P[k] = Shown(c, w[k]) /\ P[k].id = w[k]
    BY <1>6, <1>8, <1>12 DEF new
  <1>14. \A k \in 1..Len(w) : P[k].id # NoUnit
    BY <1>5, <1>13, IdsAreUnits
  <1>15. LineText.id = NoUnit
    BY DEF LineText
  <1>16. DOMAIN P = 1..Len(P)
    BY <1>12, LenProperties
  <1>17. \A i \in 1..Len(P) : i \in 1..Len(w) \/ (i = Len(w) + 1 /\ P[i] = LineText)
    <2> TAKE i \in 1..Len(P)
    <2>1. CASE Len(P) = Len(w)
      BY <2>1
    <2>2. CASE Len(P) = Len(w) + 1
      <3>1. i \in 1..Len(w) \/ i = Len(P)
        BY <2>2, <1>2
      <3> QED BY <2>2, <3>1, <1>12
    <2> QED BY <1>12, <2>1, <2>2
  <1>18. Stamps(P)
    <2>1. ASSUME NEW i \in 1..Len(P), NEW j \in 1..Len(P), P[i].id = P[j].id
          PROVE  i = j
      <3>1. CASE i \in 1..Len(w) /\ j \in 1..Len(w)
        <4>1. w[i] = w[j]
          BY <2>1, <3>1, <1>13
        <4>2. i < j \/ j < i \/ i = j
          BY <1>2, <3>1
        <4> QED BY <4>1, <4>2, <3>1, <1>1
      <3>2. CASE i \notin 1..Len(w) \/ j \notin 1..Len(w)
        <4>1. \A k \in 1..Len(P) : k \notin 1..Len(w) => k = Len(w) + 1 /\ P[k].id = NoUnit
          BY <1>15, <1>17
        <4>2. i \notin 1..Len(w) /\ j \notin 1..Len(w)
          BY <2>1, <3>2, <4>1, <1>14
        <4> QED BY <4>1, <4>2
      <3> QED BY <3>1, <3>2
    <2>2. \A i \in 1..Len(P) : P[i].id = NoUnit => P[i] = LineText
      BY <1>14, <1>17
    <2> QED BY <1>16, <2>1, <2>2 DEF Stamps
  <1> QED BY <1>2, <1>3, <1>5, <1>12, <1>13, <1>18 DEF P, w

(* Gestures laid over a document give headings and sections to blocks.         *)
LEMMA OverlaidIs ==
    ASSUME NEW n, NEW d \in Seq(Block(n)), NEW m, NEW keep \in SUBSET Block(m)
    PROVE  LET o == Overlaid(d, keep) IN
           /\ o \in Seq(Block(n)) /\ Len(o) = Len(d)
           /\ \A i \in 1..Len(d) :
                /\ o[i].id = d[i].id /\ o[i].hashes = d[i].hashes
                /\ o[i].config = d[i].config /\ o[i].text = d[i].text
                /\ \/ o[i] = d[i] /\ (d[i].config \/ \A b \in keep : b.id # d[i].id)
                   \/ /\ ~d[i].config
                      /\ \E b \in keep : /\ b.id = d[i].id
                                         /\ o[i].heading = b.heading /\ o[i].parent = b.parent
  <1> DEFINE o       == Overlaid(d, keep)
             hit(i)  == \E b \in keep : b.id = d[i].id /\ ~d[i].config
             of(i)   == CHOOSE b \in keep : b.id = d[i].id
             laid(i) == [d[i] EXCEPT !.heading = of(i).heading, !.parent = of(i).parent]
             new(i)  == IF hit(i) THEN laid(i) ELSE d[i]
  <1>1. DOMAIN d = 1..Len(d) /\ Len(d) \in Nat
    BY LenProperties
  <1>2. o = [i \in 1..Len(d) |-> new(i)]
    BY <1>1 DEF Overlaid
  <1>3. \A i \in 1..Len(d) : d[i] \in Block(n)
    BY ElementOfSeq
  <1>4. ASSUME NEW i \in 1..Len(d), hit(i)
        PROVE  of(i) \in keep /\ of(i).id = d[i].id /\ of(i) \in Block(m) /\ ~d[i].config
    <2>1. \E b \in keep : b.id = d[i].id
      BY <1>4
    <2>2. of(i) \in keep /\ of(i).id = d[i].id
      BY <2>1
    <2> QED BY <2>2, <1>4
  <1> HIDE DEF of
  <1>5. ASSUME NEW i \in 1..Len(d), hit(i)
        PROVE  /\ laid(i) \in Block(n)
               /\ laid(i).id = d[i].id /\ laid(i).hashes = d[i].hashes
               /\ laid(i).config = d[i].config /\ laid(i).text = d[i].text
               /\ laid(i).heading = of(i).heading /\ laid(i).parent = of(i).parent
    <2>1. of(i).heading \in BOOLEAN /\ of(i).parent \in Unit \cup {Top}
      BY <1>4, <1>5 DEF Block
    <2>2. d[i] \in Block(n)
      BY <1>3
    <2> QED BY <2>1, <2>2 DEF Block
  <1> HIDE DEF laid
  <1>6. ASSUME NEW i \in 1..Len(d)
        PROVE  /\ new(i) \in Block(n)
               /\ new(i).id = d[i].id /\ new(i).hashes = d[i].hashes
               /\ new(i).config = d[i].config /\ new(i).text = d[i].text
               /\ \/ new(i) = d[i] /\ (d[i].config \/ \A b \in keep : b.id # d[i].id)
                  \/ /\ ~d[i].config
                     /\ \E b \in keep : /\ b.id = d[i].id
                                        /\ new(i).heading = b.heading /\ new(i).parent = b.parent
    <2>1. CASE hit(i)
      <3>1. new(i) = laid(i)
        BY <2>1
      <3> HIDE DEF new, hit
      <3>2. \E b \in keep : /\ b.id = d[i].id
                            /\ new(i).heading = b.heading /\ new(i).parent = b.parent
        BY <2>1, <3>1, <1>4, <1>5
      <3>3. ~d[i].config
        BY <2>1, <1>4
      <3> QED BY <2>1, <3>1, <3>2, <3>3, <1>5
    <2>2. CASE ~hit(i)
      <3>1. new(i) = d[i] /\ (d[i].config \/ \A b \in keep : b.id # d[i].id)
        BY <2>2
      <3> QED BY <3>1, <1>3
    <2> QED BY <2>1, <2>2
  <1> HIDE DEF new
  <1>7. o \in Seq(Block(n)) /\ Len(o) = Len(d) /\ \A i \in 1..Len(d) : o[i] = new(i)
    <2>1. [i \in 1..Len(d) |-> new(i)] \in Seq(Block(n))
      BY <1>1, <1>6, IsASeq
    <2> QED BY <1>1, <1>2, <2>1
  <1> HIDE DEF o
  <1> QED BY <1>6, <1>7 DEF o

--------------------------------------------------------------------------------
(* What a flush sends.                                                         *)

Sent(d, c) == {i \in 1..Len(d) : SentKind(d[i], c) # "none"}

Flipped(d, c) == {i \in 1..Len(d) : IsFlip(d[i], c)}

(* The unit that the i-th block is sent as.                                    *)
SentId(d, c, n, i) ==
    IF IsFlip(d[i], c) THEN n + 1 + Cardinality({j \in 1..(i - 1) : j \in Flipped(d, c)})
    ELSE d[i].id

LEMMA SentKinds ==
    ASSUME NEW n, NEW b \in Block(n), NEW c, IsContent(c)
    PROVE  /\ SentKind(b, c) \in Kind \cup {"none"}
           /\ SentKind(b, c) = "heading" => IsEdit(b, c)
           /\ IsEdit(b, c) => b.id \in DOMAIN c /\ c[b.id].kind = SentKind(b, c)
           /\ IsFlip(b, c) <=> SentKind(b, c) # "none" /\ ~IsEdit(b, c) /\ b.id \in DOMAIN c
           /\ Family(b, c) = Top \/ IsEdit(b, c) \/ Family(b, c) \in Headings(c)
           /\ IsEdit(b, c) => Family(b, c) = c[b.id].parent
           /\ b.config /\ ~IsEdit(b, c) => Family(b, c) = Top
           /\ Family(b, c) \in Unit \cup {Top}
           /\ b = LineText => SentKind(b, c) = "none" \/ NoUnit \in DOMAIN c
  <1>1. SentKind(b, c) \in Kind \cup {"none"}
    BY DEF SentKind, Kind, KindIn
  <1>2. SentKind(b, c) = "heading" => KindIn(c, b.id) = "heading"
    BY DEF SentKind
  <1>3. SentKind(b, c) = "heading" => IsEdit(b, c)
    BY <1>2 DEF IsEdit
  <1>4. IsEdit(b, c) => b.id \in DOMAIN c /\ c[b.id].kind = SentKind(b, c)
    BY DEF IsEdit, KindIn
  <1>5. \A p : KindIn(c, p) = "heading" => p \in Headings(c)
    BY DEF KindIn, Headings
  <1>6. Family(b, c) = Top \/ IsEdit(b, c) \/ Family(b, c) \in Headings(c)
    BY <1>5 DEF Family
  <1>7. IsEdit(b, c) => Family(b, c) = c[b.id].parent
    BY DEF Family
  <1>8. b.config /\ ~IsEdit(b, c) => Family(b, c) = Top
    BY DEF Family
  <1>9. Headings(c) \subseteq Unit /\ \A u \in DOMAIN c : c[u].parent \in Unit \cup {Top}
    BY DEF Headings, IsContent, UnitRecord
  <1>10. Family(b, c) \in Unit \cup {Top}
    BY <1>4, <1>6, <1>7, <1>9
  <1>11. b = LineText => SentKind(b, c) = "none" \/ NoUnit \in DOMAIN c
    <2> SUFFICES ASSUME b = LineText, NoUnit \notin DOMAIN c
                 PROVE  SentKind(b, c) = "none"
      OBVIOUS
    <2>1. ~b.config /\ b.text = << >> /\ b.id = NoUnit
      BY DEF LineText
    <2>2. ~IsDisplay(b)
      BY <2>1 DEF IsDisplay
    <2>3. KindIn(c, b.id) = "none"
      BY <2>1 DEF KindIn
    <2> QED BY <2>1, <2>2, <2>3 DEF SentKind
  <1> QED BY <1>1, <1>3, <1>4, <1>6, <1>7, <1>8, <1>10, <1>11 DEF IsFlip

(* Different blocks are sent as different units.                               *)
LEMMA SentIds ==
    ASSUME NEW n \in 0..MaxUnit, NEW d \in Seq(Block(n)), Stamps(d),
           NEW c, IsContent(c), DOMAIN c \subseteq 1..n
    PROVE  /\ Flips(d, c) \in Nat
           /\ \A i \in Sent(d, c) :
                /\ d[i].id \in 1..n
                /\ SentId(d, c, n, i) \in 1..(n + Flips(d, c))
                /\ IsFlip(d[i], c) <=> SentId(d, c, n, i) > n
                /\ ~IsFlip(d[i], c) => SentId(d, c, n, i) = d[i].id
           /\ \A i, j \in Sent(d, c) : SentId(d, c, n, i) = SentId(d, c, n, j) => i = j
  <1> DEFINE F     == Flipped(d, c)
             at(i) == Cardinality({j \in 1..(i - 1) : j \in F})
             id(i) == SentId(d, c, n, i)
  <1>1. DOMAIN d = 1..Len(d) /\ Len(d) \in Nat /\ n \in Nat
    BY LenProperties, OutlineAssumption
  <1>2. \A i \in 1..Len(d) : d[i] \in Block(n)
    BY ElementOfSeq
  <1>3. Flips(d, c) = Cardinality(F)
    BY <1>1 DEF Flips, Flipped
  <1>4. F \subseteq 1..Len(d) /\ \A i \in 1..Len(d) : i \in F <=> IsFlip(d[i], c)
    BY DEF Flipped
  <1>5. Sent(d, c) \subseteq 1..Len(d) /\ \A i \in Sent(d, c) : SentKind(d[i], c) # "none"
    BY DEF Sent
  <1> HIDE DEF F
  <1>6. \A i \in 1..Len(d) : id(i) = IF i \in F THEN n + 1 + at(i) ELSE d[i].id
    BY <1>4 DEF SentId, F
  <1> HIDE DEF id
  <1>7. \A i \in 1..Len(d) : i \in 1..(Len(d) + 1)
    BY <1>1
  <1>8. /\ Cardinality(F) \in 0..Len(d)
        /\ \A i \in 1..(Len(d) + 1) : at(i) \in 0..(i - 1)
        /\ \A i, k \in 1..(Len(d) + 1) : i \in F /\ i < k => at(i) < at(k)
        /\ \A i \in F : at(i) < Cardinality(F)
    BY <1>1, <1>4, CountBefore
  <1> HIDE DEF at
  <1>9. Cardinality(F) \in Nat /\ \A i \in F : at(i) \in Nat
    <2>1. \A i \in F : at(i) \in 0..(i - 1) /\ i \in Int
      BY <1>4, <1>7, <1>8
    <2> QED BY <2>1, <1>1, <1>8
  <1>10. NoUnit \notin DOMAIN c
    BY IdsAreUnits
  <1>11. ASSUME NEW i \in Sent(d, c)
         PROVE  d[i].id \in 1..n
    <2>1. i \in 1..Len(d) /\ SentKind(d[i], c) # "none" /\ d[i] \in Block(n)
      BY <1>2, <1>5
    <2>2. d[i] # LineText
      BY <2>1, <1>10, SentKinds
    <2>3. d[i].id # NoUnit
      BY <2>1, <2>2, <1>1 DEF Stamps
    <2> QED BY <2>1, <2>3 DEF Block
  <1>12. ASSUME NEW i \in Sent(d, c)
         PROVE  /\ id(i) \in 1..(n + Cardinality(F))
                /\ i \in F => id(i) = n + 1 + at(i) /\ id(i) > n
                /\ i \notin F => id(i) = d[i].id /\ id(i) \in 1..n
    <2>1. i \in 1..Len(d) /\ d[i].id \in 1..n
      BY <1>5, <1>11
    <2>2. CASE i \in F
      <3>1. id(i) = n + 1 + at(i) /\ at(i) \in Nat /\ at(i) < Cardinality(F)
        BY <2>1, <2>2, <1>6, <1>8, <1>9
      <3> QED BY <2>2, <3>1, <1>1, <1>9
    <2>3. CASE i \notin F
      <3>1. id(i) = d[i].id
        BY <2>1, <2>3, <1>6
      <3> QED BY <2>1, <2>3, <3>1, <1>1, <1>9
    <2> QED BY <2>2, <2>3
  <1>13. ASSUME NEW i \in Sent(d, c), NEW j \in Sent(d, c), i < j
         PROVE  id(i) # id(j)
    <2>0. i \in 1..Len(d) /\ j \in 1..Len(d)
      BY <1>5
    <2>1. CASE i \in F /\ j \in F
      <3>1. at(i) < at(j)
        BY <2>0, <2>1, <1>7, <1>8, <1>13
      <3>2. at(i) \in Nat /\ at(j) \in Nat
        BY <2>1, <1>9
      <3>3. id(i) = n + 1 + at(i) /\ id(j) = n + 1 + at(j)
        BY <2>1, <1>12
      <3> QED BY <3>1, <3>2, <3>3, <1>1
    <2>2. CASE i \notin F /\ j \notin F
      <3>1. id(i) = d[i].id /\ id(j) = d[j].id
        BY <2>2, <1>12
      <3>2. i # j
        BY <2>0, <1>1, <1>13
      <3> QED BY <2>0, <3>1, <3>2, <1>1 DEF Stamps
    <2>3. CASE i \in F /\ j \notin F
      <3>1. id(i) > n /\ id(i) \in Int /\ id(j) \in 1..n
        BY <2>3, <1>12
      <3> QED BY <3>1, <1>1
    <2>4. CASE i \notin F /\ j \in F
      <3>1. id(j) > n /\ id(j) \in Int /\ id(i) \in 1..n
        BY <2>4, <1>12
      <3> QED BY <3>1, <1>1
    <2> QED BY <2>1, <2>2, <2>3, <2>4
  <1>14. \A i, j \in Sent(d, c) : id(i) = id(j) => i = j
    <2> TAKE i, j \in Sent(d, c)
    <2>1. i < j \/ j < i \/ i = j
      BY <1>5, <1>1
    <2> QED BY <2>1, <1>13
  <1>15. \A i \in Sent(d, c) : IsFlip(d[i], c) <=> i \in F
    BY <1>4, <1>5
  <1>16. \A i \in Sent(d, c) : i \notin F => ~(id(i) > n)
    BY <1>12, <1>1
  <1>17. ASSUME NEW i \in Sent(d, c)
         PROVE  /\ d[i].id \in 1..n
                /\ id(i) \in 1..(n + Flips(d, c))
                /\ IsFlip(d[i], c) <=> id(i) > n
                /\ ~IsFlip(d[i], c) => id(i) = d[i].id
    BY <1>3, <1>11, <1>12, <1>15, <1>16
  <1> QED BY <1>3, <1>9, <1>14, <1>17 DEF id

(* The blocks sent with one parent are numbered in their order.                *)
LEMMA SlotIs ==
    ASSUME NEW n, NEW d \in Seq(Block(n)), NEW c
    PROVE  /\ \A i \in 1..Len(d) : Slot(d, c, i) \in Nat
           /\ \A i, j \in Sent(d, c) :
                i < j /\ Family(d[i], c) = Family(d[j], c) => Slot(d, c, i) < Slot(d, c, j)
  <1>1. Len(d) \in Nat
    BY LenProperties
  <1> DEFINE S(p) == {j \in Sent(d, c) : Family(d[j], c) = p}
  <1>2. ASSUME NEW i \in 1..Len(d)
        PROVE  Slot(d, c, i) = Cardinality({j \in 1..(i - 1) : j \in S(Family(d[i], c))})
    <2>1. {j \in 1..(i - 1) : SentKind(d[j], c) # "none" /\ Family(d[j], c) = Family(d[i], c)}
            = {j \in 1..(i - 1) : j \in S(Family(d[i], c))}
      <3>1. \A j \in 1..(i - 1) : j \in 1..Len(d)
        BY <1>1
      <3> QED BY <3>1 DEF Sent
    <2> HIDE DEF S
    <2> QED BY <2>1 DEF Slot, Earlier
  <1>3. \A p : S(p) \subseteq 1..Len(d)
    BY DEF Sent
  <1>4. ASSUME NEW i \in 1..Len(d)
        PROVE  Slot(d, c, i) \in Nat
    <2> DEFINE F == S(Family(d[i], c))
    <2>1. F \subseteq 1..Len(d) /\ i \in 1..(Len(d) + 1)
      BY <1>1, <1>3
    <2> HIDE DEF S, F
    <2>2. Cardinality({j \in 1..(i - 1) : j \in F}) \in 0..(i - 1)
      BY <1>1, <2>1, CountBefore
    <2> QED BY <1>2, <2>2 DEF F
  <1>5. ASSUME NEW i \in Sent(d, c), NEW j \in Sent(d, c), i < j,
               Family(d[i], c) = Family(d[j], c)
        PROVE  Slot(d, c, i) < Slot(d, c, j)
    <2> DEFINE F == S(Family(d[i], c))
    <2>1. i \in 1..Len(d) /\ j \in 1..Len(d)
      BY DEF Sent
    <2>2. F \subseteq 1..Len(d) /\ i \in F /\ i \in 1..(Len(d) + 1) /\ j \in 1..(Len(d) + 1)
      BY <2>1, <1>1, <1>3
    <2>3. /\ Slot(d, c, i) = Cardinality({k \in 1..(i - 1) : k \in F})
          /\ Slot(d, c, j) = Cardinality({k \in 1..(j - 1) : k \in F})
      BY <2>1, <1>2, <1>5
    <2> HIDE DEF S, F
    <2>4. \A a, b \in 1..(Len(d) + 1) : a \in F /\ a < b =>
                Cardinality({k \in 1..(a - 1) : k \in F}) < Cardinality({k \in 1..(b - 1) : k \in F})
      BY <1>1, <2>2, CountBefore
    <2>5. Cardinality({k \in 1..(i - 1) : k \in F}) < Cardinality({k \in 1..(j - 1) : k \in F})
      BY <1>5, <2>2, <2>4
    <2> QED BY <2>3, <2>5
  <1> QED BY <1>4, <1>5

(* How a block is sent.                                                        *)
LEMMA FlushedIs ==
    ASSUME NEW n, NEW d \in Seq(Block(n)), NEW c, IsContent(c), NEW i \in Sent(d, c)
    PROVE  LET x == FlushedAs(d, c, i) IN
           /\ x \in UnitRecord
           /\ x.parent = Family(d[i], c) /\ x.pos = Slot(d, c, i)
           /\ x.kind = SentKind(d[i], c) /\ x.text = d[i].text
           /\ IsEdit(d[i], c) => x.type = c[d[i].id].type
           /\ ~IsEdit(d[i], c) => x.type = NoType /\ x.kind # "heading"
  <1> DEFINE b == d[i]
             x == FlushedAs(d, c, i)
  <1>1. i \in 1..Len(d) /\ SentKind(b, c) # "none"
    BY DEF Sent
  <1>2. b \in Block(n)
    BY <1>1, ElementOfSeq
  <1>3. Slot(d, c, i) \in Nat
    BY <1>1, SlotIs
  <1>4. /\ SentKind(b, c) \in Kind /\ (SentKind(b, c) = "heading" => IsEdit(b, c))
        /\ IsEdit(b, c) =>
            b.id \in DOMAIN c /\ c[b.id].kind = SentKind(b, c) /\ Family(b, c) = c[b.id].parent
        /\ Family(b, c) \in Unit \cup {Top}
    BY <1>1, <1>2, SentKinds
  <1>5. b.text \in Text
    BY <1>2 DEF Block
  <1>6. CASE IsEdit(b, c)
    <2> DEFINE u == c[b.id]
    <2>1. u \in UnitRecord
      BY <1>4, <1>6 DEF IsContent
    <2>2. x = [u EXCEPT !.pos = Slot(d, c, i), !.text = b.text]
      BY <1>6 DEF FlushedAs
    <2>3. u.kind = SentKind(b, c) /\ u.parent = Family(b, c)
      BY <1>4, <1>6
    <2> HIDE DEF u, x, b
    <2>4. LET y == [u EXCEPT !.pos = Slot(d, c, i), !.text = b.text] IN
            /\ y \in UnitRecord /\ y.parent = u.parent /\ y.pos = Slot(d, c, i)
            /\ y.kind = u.kind /\ y.type = u.type /\ y.text = b.text
      BY <2>1, <1>3, <1>5 DEF UnitRecord
    <2>5. /\ x \in UnitRecord /\ x.parent = u.parent /\ x.pos = Slot(d, c, i)
          /\ x.kind = u.kind /\ x.type = u.type /\ x.text = b.text
      BY <2>2, <2>4
    <2> QED BY <2>3, <2>5, <1>6 DEF x, b, u
  <1>7. CASE ~IsEdit(b, c)
    <2> DEFINE y == [parent |-> Family(b, c), pos |-> Slot(d, c, i),
                     kind |-> SentKind(b, c), type |-> NoType, text |-> b.text]
    <2>1. x = y
      BY <1>7 DEF FlushedAs
    <2>2. /\ y.parent = Family(b, c) /\ y.pos = Slot(d, c, i)
          /\ y.kind = SentKind(b, c) /\ y.type = NoType /\ y.text = b.text
      OBVIOUS
    <2>3. y \in UnitRecord
      BY <1>3, <1>4, <1>5 DEF UnitRecord
    <2> HIDE DEF x, y, b
    <2>4. SentKind(b, c) # "heading"
      BY <1>4, <1>7
    <2>5. /\ x \in UnitRecord /\ x.parent = Family(b, c) /\ x.pos = Slot(d, c, i)
          /\ x.kind = SentKind(b, c) /\ x.text = b.text /\ x.type = NoType /\ x.kind # "heading"
      BY <2>1, <2>2, <2>3, <2>4
    <2> QED BY <2>5, <1>7 DEF x, b
  <1> QED BY <1>6, <1>7

(* The places whose unit is written.                                           *)
Changed(d, c) ==
    {i \in Sent(d, c) : ~IsEdit(d[i], c) \/ FlushedAs(d, c, i) # c[d[i].id]}

(* flushToContent, place by place.                                             *)
LEMMA FlushIs ==
    ASSUME NEW n \in 0..MaxUnit, NEW d \in Seq(Block(n)), Stamps(d),
           NEW c, IsContent(c), DOMAIN c \subseteq 1..n
    PROVE  LET f == FlushToContent(d, c, n) IN
           /\ f = [upserts |-> f.upserts, deletes |-> f.deletes]
           /\ \A i \in Changed(d, c) : /\ SentId(d, c, n, i) \in DOMAIN f.upserts
                                       /\ f.upserts[SentId(d, c, n, i)] = FlushedAs(d, c, i)
           /\ \A u \in DOMAIN f.upserts : \E i \in Changed(d, c) : u = SentId(d, c, n, i)
           /\ f.upserts = [u \in DOMAIN f.upserts |-> f.upserts[u]]
           /\ f.deletes = {u \in DOMAIN c :
                            /\ c[u].kind # "heading"
                            /\ \A i \in Sent(d, c) : d[i].id # u \/ IsFlip(d[i], c)}
  <1> DEFINE f    == FlushToContent(d, c, n)
             S    == Changed(d, c)
             id(i) == SentId(d, c, n, i)
             rows == {<<id(i), FlushedAs(d, c, i)>> : i \in S}
             of(u) == (CHOOSE row \in rows : row[1] = u)[2]
             ups  == [u \in {row[1] : row \in rows} |-> of(u)]
             dels == {u \in DOMAIN c :
                        /\ c[u].kind # "heading"
                        /\ \A i \in Sent(d, c) : d[i].id # u \/ IsFlip(d[i], c)}
  <1>1. DOMAIN d = 1..Len(d) /\ Len(d) \in Nat
    BY LenProperties
  <1>2. \A i \in 1..Len(d) :
            {j \in 1..(i - 1) : IsFlip(d[j], c)} = {j \in 1..(i - 1) : j \in Flipped(d, c)}
    BY <1>1 DEF Flipped
  <1>3. Sent(d, c) = {i \in DOMAIN d : SentKind(d[i], c) # "none"}
    BY <1>1 DEF Sent
  <1>4. f = [upserts |-> ups, deletes |-> dels]
    <2> DEFINE sent == {i \in DOMAIN d : SentKind(d[i], c) # "none"}
               changed == {i \in sent : ~IsEdit(d[i], c) \/ FlushedAs(d, c, i) # c[d[i].id]}
               nth(i) == IF IsFlip(d[i], c)
                         THEN n + 1 + Cardinality({j \in 1..(i - 1) : IsFlip(d[j], c)})
                         ELSE d[i].id
               R == {<<nth(i), FlushedAs(d, c, i)>> : i \in changed}
               D == {u \in DOMAIN c :
                        /\ c[u].kind # "heading"
                        /\ \A i \in sent : d[i].id # u \/ IsFlip(d[i], c)}
    <2>1. f = [upserts |-> [u \in {row[1] : row \in R} |-> (CHOOSE row \in R : row[1] = u)[2]],
               deletes |-> D]
      BY DEF FlushToContent, Earlier
    <2>2. changed = S /\ sent = Sent(d, c)
      BY <1>3 DEF Changed
    <2>3. S \subseteq 1..Len(d)
      BY DEF Changed, Sent
    <2>4. \A i \in S : nth(i) = id(i)
      BY <1>2, <2>3 DEF SentId
    <2> HIDE DEF nth, id, S, changed
    <2>5. R = rows
      BY <2>2, <2>4
    <2> HIDE DEF R, rows, sent
    <2>6. D = dels
      BY <2>2
    <2> HIDE DEF D, dels, f
    <2> QED BY <2>1, <2>5, <2>6
  <1>5. \A i, j \in S : id(i) = id(j) => i = j
    BY SentIds DEF Changed
  <1> HIDE DEF S, id
  <1>6. ASSUME NEW i \in S
        PROVE  of(id(i)) = FlushedAs(d, c, i)
    <2>1. \E row \in rows : row[1] = id(i)
      <3>1. <<id(i), FlushedAs(d, c, i)>> \in rows
        OBVIOUS
      <3> HIDE DEF rows
      <3>2. <<id(i), FlushedAs(d, c, i)>>[1] = id(i)
        OBVIOUS
      <3> QED BY <3>1, <3>2
    <2> DEFINE r == CHOOSE row \in rows : row[1] = id(i)
    <2>2. r \in rows /\ r[1] = id(i)
      BY <2>1
    <2> HIDE DEF r
    <2>3. PICK j \in S : r = <<id(j), FlushedAs(d, c, j)>>
      BY <2>2
    <2>4. id(j) = id(i)
      BY <2>2, <2>3
    <2>5. j = i
      BY <2>4, <1>5
    <2>6. of(id(i)) = r[2]
      BY DEF r
    <2> QED BY <2>3, <2>5, <2>6
  <1>7. {row[1] : row \in rows} = {id(i) : i \in S}
    <2>1. \A row \in rows : row[1] \in {id(i) : i \in S}
      OBVIOUS
    <2>2. ASSUME NEW i \in S
          PROVE  id(i) \in {row[1] : row \in rows}
      <3>1. <<id(i), FlushedAs(d, c, i)>> \in rows
        OBVIOUS
      <3> HIDE DEF rows
      <3>2. <<id(i), FlushedAs(d, c, i)>>[1] = id(i)
        OBVIOUS
      <3> QED BY <3>1, <3>2
    <2> HIDE DEF rows
    <2> QED BY <2>1, <2>2
  <1> HIDE DEF of
  <1>8. /\ DOMAIN ups = {id(i) : i \in S}
        /\ \A u \in DOMAIN ups : ups[u] = of(u)
        /\ ups = [u \in DOMAIN ups |-> ups[u]]
    BY <1>7
  <1> HIDE DEF ups, dels, rows
  <1>9. f.upserts = ups /\ f.deletes = dels
    BY <1>4
  <1>10. f = [upserts |-> f.upserts, deletes |-> f.deletes]
    BY <1>4, <1>9
  <1> HIDE DEF f
  <1>11. \A i \in S : id(i) \in DOMAIN ups /\ ups[id(i)] = FlushedAs(d, c, i)
    BY <1>6, <1>8
  <1>12. \A u \in DOMAIN ups : \E i \in S : u = id(i)
    BY <1>8
  <1> QED BY <1>8, <1>9, <1>10, <1>11, <1>12 DEF f, S, id, dels

(* A place is sent as a unit the server has if it edits that unit.             *)
LEMMA SentAs ==
    ASSUME NEW n \in 0..MaxUnit, NEW d \in Seq(Block(n)), Stamps(d),
           NEW c, IsContent(c), DOMAIN c \subseteq 1..n, NEW i \in Sent(d, c)
    PROVE  /\ SentId(d, c, n, i) \in DOMAIN c <=> IsEdit(d[i], c)
           /\ IsEdit(d[i], c) => SentId(d, c, n, i) = d[i].id /\ ~IsFlip(d[i], c)
  <1> DEFINE u == SentId(d, c, n, i)
  <1>1. /\ IsFlip(d[i], c) <=> u > n
        /\ ~IsFlip(d[i], c) => u = d[i].id
    BY SentIds
  <1>2. /\ d[i] \in Block(n) /\ SentKind(d[i], c) # "none"
    BY ElementOfSeq DEF Sent
  <1>3. /\ IsEdit(d[i], c) => d[i].id \in DOMAIN c
        /\ IsFlip(d[i], c) <=> SentKind(d[i], c) # "none" /\ ~IsEdit(d[i], c) /\ d[i].id \in DOMAIN c
    BY <1>2, SentKinds
  <1>4. \A v \in DOMAIN c : ~(v > n)
    BY OutlineAssumption
  <1> HIDE DEF u
  <1> QED BY <1>1, <1>2, <1>3, <1>4 DEF u

(* What flushToContent sends is a content; of the units the server has it      *)
(* changes text and position, and what is new is a paragraph or an equation    *)
(* of a section the server has or of the top, or a notation home at the top.   *)
LEMMA FlushSends ==
    ASSUME NEW n \in 0..MaxUnit, NEW d \in Seq(Block(n)), Stamps(d),
           NEW c, IsContent(c), DOMAIN c \subseteq 1..n, n + Flips(d, c) <= MaxUnit
    PROVE  LET f == FlushToContent(d, c, n)
               m == n + Flips(d, c)
           IN  /\ m \in 0..MaxUnit /\ n <= m
               /\ IsContent(f.upserts) /\ DOMAIN f.upserts \subseteq 1..m
               /\ f.deletes \subseteq DOMAIN c /\ \A u \in f.deletes : c[u].kind # "heading"
               /\ DOMAIN f.upserts \cap f.deletes = {}
               /\ \A u \in DOMAIN f.upserts :
                    IF u \in DOMAIN c THEN FacetsKept(c[u], f.upserts[u])
                    ELSE NewUnitAllowed(c, f.upserts[u])
               /\ \A u, v \in DOMAIN f.upserts :
                    f.upserts[u].parent = f.upserts[v].parent
                        /\ f.upserts[u].pos = f.upserts[v].pos => u = v
  <1> DEFINE f     == FlushToContent(d, c, n)
             m     == n + Flips(d, c)
             id(i) == SentId(d, c, n, i)
             x(i)  == FlushedAs(d, c, i)
  <1>1. /\ Flips(d, c) \in Nat /\ m \in 0..MaxUnit /\ n <= m
        /\ \A i \in Sent(d, c) : id(i) \in 1..m
    <2>1. Flips(d, c) \in Nat
      BY SentIds
    <2>2. m \in 0..MaxUnit /\ n <= m
      BY <2>1, OutlineAssumption
    <2>3. \A i \in Sent(d, c) : SentId(d, c, n, i) \in 1..(n + Flips(d, c))
      BY SentIds
    <2> QED BY <2>1, <2>2, <2>3
  <1> DEFINE dels == {u \in DOMAIN c :
                        /\ c[u].kind # "heading"
                        /\ \A i \in Sent(d, c) : d[i].id # u \/ IsFlip(d[i], c)}
  <1>2. /\ \A u \in DOMAIN f.upserts : \E i \in Changed(d, c) : u = id(i)
        /\ \A i \in Changed(d, c) : id(i) \in DOMAIN f.upserts /\ f.upserts[id(i)] = x(i)
        /\ f.upserts = [u \in DOMAIN f.upserts |-> f.upserts[u]]
        /\ f.deletes = dels
    BY FlushIs
  <1>3. \A i \in Changed(d, c) : i \in Sent(d, c) /\ i \in 1..Len(d) /\ d[i] \in Block(n)
    BY ElementOfSeq DEF Changed, Sent
  <1> HIDE DEF f, m
  <1>4. ASSUME NEW u \in DOMAIN f.upserts
        PROVE  \E i \in Changed(d, c) : u = id(i) /\ f.upserts[u] = x(i)
    BY <1>2
  <1> HIDE DEF id, x
  <1>5. DOMAIN f.upserts \subseteq 1..m /\ \A u \in DOMAIN f.upserts : f.upserts[u] \in UnitRecord
    <2>1. \A i \in Changed(d, c) : x(i) \in UnitRecord
      BY <1>3, FlushedIs DEF x
    <2> QED BY <2>1, <1>1, <1>3, <1>4
  <1>6. IsContent(f.upserts)
    <2>1. DOMAIN f.upserts \subseteq Unit
      BY <1>1, <1>5, IdsAreUnits
    <2>2. f.upserts \in [DOMAIN f.upserts -> UnitRecord]
      BY <1>2, <1>5
    <2> QED BY <2>1, <2>2 DEF IsContent
  <1>7. f.deletes \subseteq DOMAIN c /\ \A u \in f.deletes : c[u].kind # "heading"
    BY <1>2
  <1>8. ASSUME NEW u \in DOMAIN f.upserts
        PROVE  u \notin f.deletes
    <2>1. PICK i \in Changed(d, c) : u = id(i)
      BY <1>4
    <2>2. CASE u \in DOMAIN c
      <3>1. IsEdit(d[i], c)
        BY <2>1, <2>2, <1>3, SentAs DEF id
      <3>2. d[i].id = u /\ ~IsFlip(d[i], c)
        BY <2>1, <3>1, <1>3, SentAs DEF id
      <3> QED BY <3>2, <1>2, <1>3
    <2> QED BY <2>2, <1>7
  <1>9. ASSUME NEW u \in DOMAIN f.upserts
        PROVE  IF u \in DOMAIN c THEN FacetsKept(c[u], f.upserts[u])
               ELSE NewUnitAllowed(c, f.upserts[u])
    <2>1. PICK i \in Changed(d, c) : u = id(i) /\ f.upserts[u] = x(i)
      BY <1>4
    <2>2. /\ x(i).parent = Family(d[i], c)
          /\ x(i).kind = SentKind(d[i], c)
          /\ IsEdit(d[i], c) => x(i).type = c[d[i].id].type
          /\ ~IsEdit(d[i], c) => x(i).type = NoType /\ x(i).kind # "heading"
          /\ x(i).kind \in Kind
      <3>1. i \in Sent(d, c)
        BY <1>3
      <3>2. x(i) \in UnitRecord
        BY <3>1, FlushedIs DEF x
      <3> QED BY <3>1, <3>2, FlushedIs DEF x, UnitRecord
    <2>3. /\ IsEdit(d[i], c) => c[d[i].id].kind = SentKind(d[i], c)
          /\ IsEdit(d[i], c) => Family(d[i], c) = c[d[i].id].parent
          /\ Family(d[i], c) = Top \/ IsEdit(d[i], c) \/ Family(d[i], c) \in Headings(c)
          /\ d[i].config /\ ~IsEdit(d[i], c) => Family(d[i], c) = Top
      BY <1>3, SentKinds
    <2>4. CASE u \in DOMAIN c
      <3>1. IsEdit(d[i], c)
        BY <2>1, <2>4, <1>3, SentAs DEF id
      <3>2. d[i].id = u
        BY <2>1, <3>1, <1>3, SentAs DEF id
      <3> QED BY <2>1, <2>2, <2>3, <2>4, <3>1, <3>2 DEF FacetsKept
    <2>5. CASE u \notin DOMAIN c
      <3>1. ~IsEdit(d[i], c)
        BY <2>1, <2>5, <1>3, SentAs DEF id
      <3>2. SentKind(d[i], c) = "config" => d[i].config
        BY <3>1 DEF SentKind, IsEdit, KindIn
      <3>3. Family(d[i], c) # Top =>
                Family(d[i], c) \in DOMAIN c /\ c[Family(d[i], c)].kind = "heading"
        BY <2>3, <3>1 DEF Headings
      <3> QED BY <2>1, <2>2, <2>3, <2>5, <3>1, <3>2, <3>3 DEF NewUnitAllowed, Kind
    <2> QED BY <2>4, <2>5
  <1>10. ASSUME NEW u \in DOMAIN f.upserts, NEW v \in DOMAIN f.upserts,
                f.upserts[u].parent = f.upserts[v].parent, f.upserts[u].pos = f.upserts[v].pos
         PROVE  u = v
    <2>1. PICK i \in Changed(d, c) : u = id(i) /\ f.upserts[u] = x(i)
      BY <1>4
    <2>2. PICK j \in Changed(d, c) : v = id(j) /\ f.upserts[v] = x(j)
      BY <1>4
    <2>3. i \in Sent(d, c) /\ j \in Sent(d, c) /\ i \in 1..Len(d) /\ j \in 1..Len(d)
      BY <1>3
    <2>4. /\ x(i).parent = Family(d[i], c) /\ x(i).pos = Slot(d, c, i)
          /\ x(j).parent = Family(d[j], c) /\ x(j).pos = Slot(d, c, j)
      BY <2>3, FlushedIs DEF x
    <2>5. Family(d[i], c) = Family(d[j], c) /\ Slot(d, c, i) = Slot(d, c, j)
      BY <2>1, <2>2, <2>4, <1>10
    <2>6. Slot(d, c, i) \in Nat
      BY <2>3, SlotIs
    <2>7. ~(i < j)
      BY <2>3, <2>5, <2>6, SlotIs
    <2>8. ~(j < i)
      BY <2>3, <2>5, <2>6, SlotIs
    <2>9. i = j
      BY <2>3, <2>7, <2>8
    <2> QED BY <2>1, <2>2, <2>9
  <1>11. DOMAIN f.upserts \cap f.deletes = {}
    BY <1>8
  <1> QED BY <1>1, <1>5, <1>6, <1>7, <1>9, <1>10, <1>11 DEF f, m

(* Units numbered by what comes before them in their family are apart, when    *)
(* each family is in a line.                                                   *)
LEMMA CountedApart ==
    ASSUME NEW U, IsFiniteSet(U), NEW family, NEW before,
           \A u \in U : before[u] \subseteq {v \in U : family[v] = family[u]},
           \A u \in U : u \notin before[u],
           \A u, v \in U : u \in before[v] => before[u] \subseteq before[v],
           \A u, v \in U : u # v /\ family[u] = family[v] => u \in before[v] \/ v \in before[u]
    PROVE  /\ \A u \in U : Cardinality(before[u]) \in Nat
           /\ \A u, v \in U : u \in before[v] => Cardinality(before[u]) < Cardinality(before[v])
           /\ \A u, v \in U :
                family[u] = family[v] /\ Cardinality(before[u]) = Cardinality(before[v]) => u = v
  <1>1. ASSUME NEW u \in U
        PROVE  IsFiniteSet(before[u]) /\ Cardinality(before[u]) \in Nat
    <2>1. before[u] \in SUBSET U
      OBVIOUS
    <2> QED BY <2>1, FS_Subset, FS_CardinalityType
  <1>2. ASSUME NEW u \in U, NEW v \in U, u \in before[v]
        PROVE  Cardinality(before[u]) < Cardinality(before[v])
    <2>1. before[u] \in SUBSET before[v] /\ u \in before[v] \ before[u]
      BY <1>2
    <2>2. Cardinality(before[u]) <= Cardinality(before[v])
                /\ Cardinality(before[u]) # Cardinality(before[v])
      BY <2>1, <1>1, FS_Subset
    <2> QED BY <1>1, <2>2
  <1>3. ASSUME NEW u \in U, NEW v \in U, family[u] = family[v],
               Cardinality(before[u]) = Cardinality(before[v])
        PROVE  u = v
    <2>1. ~(Cardinality(before[u]) < Cardinality(before[v]))
      BY <1>1, <1>3
    <2>2. ~(Cardinality(before[v]) < Cardinality(before[u]))
      BY <1>1, <1>3
    <2> QED BY <1>2, <1>3, <2>1, <2>2
  <1> QED BY <1>1, <1>2, <1>3

(* What a merge makes of the server's units and mine.                          *)
Added(base, mine) == DOMAIN mine.upserts \ DOMAIN base

(* The fields and the order of the units of the merge M.                       *)
MergedAs(base, theirs, mine, M) ==
    /\ \A u \in DOMAIN M :
         LET x == IF u \in Added(base, mine) THEN mine.upserts[u] ELSE theirs[u]
         IN  /\ M[u].parent = x.parent /\ M[u].kind = x.kind /\ M[u].type = x.type
             /\ M[u].text = IF u \in DOMAIN mine.upserts THEN mine.upserts[u].text
                            ELSE x.text
    /\ \A u, v \in DOMAIN M :
         M[u].parent = M[v].parent =>
             (M[u].pos < M[v].pos <=>
                 \/ u \notin Added(base, mine) /\ v \in Added(base, mine)
                 \/ /\ u \in Added(base, mine) <=> v \in Added(base, mine)
                    /\ IF u \in Added(base, mine)
                       THEN mine.upserts[u].pos < mine.upserts[v].pos
                       ELSE theirs[u].pos < theirs[v].pos)

LEMMA MergedIs ==
    ASSUME NEW base, NEW theirs, NEW mine,
           IsContent(base), IsContent(theirs), WellFormed(theirs), Acyclic(theirs),
           IsContent(mine.upserts),
           \A u \in Added(base, mine) :
                mine.upserts[u].parent = Top \/ mine.upserts[u].parent \in DOMAIN base,
           \A u, v \in Added(base, mine) :
                mine.upserts[u].parent = mine.upserts[v].parent
                    /\ mine.upserts[u].pos = mine.upserts[v].pos => u = v,
           ~Clash(base, theirs, mine)
    PROVE  LET M == Merged(base, theirs, mine) IN
           /\ IsContent(M) /\ Acyclic(M) /\ Apart(M)
           /\ DOMAIN M = (DOMAIN theirs \ mine.deletes) \cup Added(base, mine)
           /\ MergedAs(base, theirs, mine, M)
  <1> DEFINE M     == Merged(base, theirs, mine)
             kept  == DOMAIN theirs \ mine.deletes
             added == Added(base, mine)
             U     == kept \cup added
             unit(u) ==
                IF u \in added THEN mine.upserts[u]
                ELSE IF u \in DOMAIN mine.upserts
                THEN [theirs[u] EXCEPT !.text = mine.upserts[u].text]
                ELSE theirs[u]
             before(u) ==
                {v \in U :
                    /\ unit(v).parent = unit(u).parent
                    /\ \/ v \in kept /\ u \in added
                       \/ /\ (v \in added) = (u \in added)
                          /\ unit(v).pos < unit(u).pos}
             x(u) == IF u \in added THEN mine.upserts[u] ELSE theirs[u]
             text(u) == IF u \in DOMAIN mine.upserts THEN mine.upserts[u].text ELSE x(u).text
             at(u) == Cardinality(before(u))
  <1>1. M = [u \in U |-> [unit(u) EXCEPT !.pos = at(u)]]
    BY DEF Merged, Added
  <1>2. added \cap DOMAIN theirs = {} /\ added \cap kept = {} /\ added \cap DOMAIN base = {}
    BY DEF Clash, Added
  <1>3. \A u \in U : x(u) \in UnitRecord
    BY DEF IsContent, Added
  <1>4. ASSUME NEW u \in U
        PROVE  /\ unit(u) \in UnitRecord
               /\ unit(u).parent = x(u).parent /\ unit(u).pos = x(u).pos
               /\ unit(u).kind = x(u).kind /\ unit(u).type = x(u).type /\ unit(u).text = text(u)
    <2>1. CASE u \in added
      <3>1. unit(u) = mine.upserts[u] /\ x(u) = mine.upserts[u] /\ text(u) = mine.upserts[u].text
        BY <2>1 DEF Added
      <3> HIDE DEF unit, x, text
      <3> QED BY <3>1, <1>3
    <2>2. CASE u \notin added /\ u \in DOMAIN mine.upserts
      <3> DEFINE t == mine.upserts[u].text
      <3>1. unit(u) = [theirs[u] EXCEPT !.text = t] /\ x(u) = theirs[u] /\ text(u) = t
        BY <2>2
      <3>2. t \in Text
        BY <2>2 DEF IsContent, UnitRecord
      <3>3. theirs[u] \in UnitRecord
        BY <3>1, <1>3
      <3> HIDE DEF t, unit, x, text
      <3>4. LET y == [theirs[u] EXCEPT !.text = t] IN
                /\ y \in UnitRecord /\ y.parent = theirs[u].parent /\ y.pos = theirs[u].pos
                /\ y.kind = theirs[u].kind /\ y.type = theirs[u].type /\ y.text = t
        BY <3>2, <3>3 DEF UnitRecord
      <3> QED BY <3>1, <3>4
    <2>3. CASE u \notin added /\ u \notin DOMAIN mine.upserts
      <3>1. unit(u) = theirs[u] /\ x(u) = theirs[u] /\ text(u) = theirs[u].text
        BY <2>3
      <3> HIDE DEF unit, x, text
      <3> QED BY <3>1, <1>3
    <2> QED BY <2>1, <2>2, <2>3
  <1>5. IsFiniteSet(U)
    <2>1. U \subseteq Unit
      BY DEF IsContent, Added
    <2> QED BY <2>1, FS_Subset, TreeAssumption
  <1> DEFINE sooner(v, u) == \/ v \notin added /\ u \in added
                             \/ /\ v \in added <=> u \in added
                                /\ x(v).pos < x(u).pos
  <1>6. \A u \in U : before(u) = {v \in U : x(v).parent = x(u).parent /\ sooner(v, u)}
    <2> HIDE DEF unit, x
    <2>1. \A v \in U : v \in kept <=> v \notin added
      BY <1>2
    <2> QED BY <2>1, <1>4
  <1> HIDE DEF unit, before
  <1>7. \A u \in U : x(u).pos \in Nat
    BY <1>3 DEF UnitRecord
  <1>8. \A u, v \in U : u # v /\ x(u).parent = x(v).parent => sooner(u, v) \/ sooner(v, u)
    <2> SUFFICES ASSUME NEW u \in U, NEW v \in U, u # v, x(u).parent = x(v).parent
                 PROVE  sooner(u, v) \/ sooner(v, u)
      OBVIOUS
    <2>1. CASE u \in added /\ v \in added
      <3>1. x(u).pos # x(v).pos
        BY <2>1
      <3> HIDE DEF x
      <3> QED BY <2>1, <3>1, <1>7
    <2>2. CASE u \notin added /\ v \notin added
      <3>1. x(u).pos # x(v).pos
        BY <2>2 DEF WellFormed
      <3> HIDE DEF x
      <3> QED BY <2>2, <3>1, <1>7
    <2>3. CASE (u \in added /\ v \notin added) \/ (u \notin added /\ v \in added)
      <3> HIDE DEF x
      <3> QED BY <2>3
    <2> QED BY <2>1, <2>2, <2>3
  <1> HIDE DEF x
  <1>9. /\ \A u \in U : at(u) \in Nat
        /\ \A u, v \in U : u \in before(v) => at(u) < at(v)
        /\ \A u, v \in U : x(u).parent = x(v).parent /\ at(u) = at(v) => u = v
    <2> DEFINE family == [u \in U |-> x(u).parent]
               sets   == [u \in U |-> before(u)]
    <2>1. \A u \in U : before(u) \subseteq {v \in U : x(v).parent = x(u).parent}
      BY <1>6
    <2>2. \A u \in U : u \notin before(u)
      BY <1>6, <1>7
    <2>3. \A u, v \in U : u \in before(v) => before(u) \subseteq before(v)
      <3> SUFFICES ASSUME NEW u \in U, NEW v \in U, u \in before(v), NEW w \in before(u)
                   PROVE  w \in before(v)
        OBVIOUS
      <3>1. x(u).parent = x(v).parent /\ sooner(u, v)
        BY <1>6
      <3>2. w \in U /\ x(w).parent = x(u).parent /\ sooner(w, u)
        BY <1>6
      <3>3. sooner(w, v)
        BY <3>1, <3>2, <1>7
      <3> QED BY <3>1, <3>2, <3>3, <1>6
    <2>4. \A u, v \in U : u # v /\ x(u).parent = x(v).parent => u \in before(v) \/ v \in before(u)
      BY <1>6, <1>8
    <2>5. \A u \in U : sets[u] = before(u) /\ family[u] = x(u).parent
      OBVIOUS
    <2> HIDE DEF U, sets, family
    <2>6. \A u \in U : sets[u] \subseteq {v \in U : family[v] = family[u]}
      BY <2>1, <2>5
    <2>7. \A u \in U : u \notin sets[u]
      BY <2>2, <2>5
    <2>8. \A u, v \in U : u \in sets[v] => sets[u] \subseteq sets[v]
      BY <2>3, <2>5
    <2>9. \A u, v \in U : u # v /\ family[u] = family[v] => u \in sets[v] \/ v \in sets[u]
      BY <2>4, <2>5
    <2>10. /\ \A u \in U : Cardinality(sets[u]) \in Nat
           /\ \A u, v \in U : u \in sets[v] => Cardinality(sets[u]) < Cardinality(sets[v])
           /\ \A u, v \in U :
                 family[u] = family[v] /\ Cardinality(sets[u]) = Cardinality(sets[v]) => u = v
      BY <1>5, <2>6, <2>7, <2>8, <2>9, CountedApart
    <2>11. \A u \in U : Cardinality(sets[u]) = at(u)
      BY <2>5
    <2> HIDE DEF at
    <2> QED BY <2>5, <2>10, <2>11
  <1> HIDE DEF at
  <1>10. ASSUME NEW u \in U
         PROVE  /\ M[u] \in UnitRecord
                /\ M[u].parent = x(u).parent /\ M[u].pos = at(u)
                /\ M[u].kind = x(u).kind /\ M[u].type = x(u).type /\ M[u].text = text(u)
    <2>1. M[u] = [unit(u) EXCEPT !.pos = at(u)]
      BY <1>1
    <2>2. at(u) \in Nat
      BY <1>9
    <2> HIDE DEF M, text
    <2>3. LET y == [unit(u) EXCEPT !.pos = at(u)] IN
            /\ y \in UnitRecord /\ y.parent = unit(u).parent /\ y.pos = at(u)
            /\ y.kind = unit(u).kind /\ y.type = unit(u).type /\ y.text = unit(u).text
      BY <2>2, <1>4 DEF UnitRecord
    <2> QED BY <2>1, <2>3, <1>4
  <1>11. DOMAIN M = U
    BY <1>1
  <1>12. IsContent(M)
    <2>1. M = [u \in U |-> M[u]]
      BY <1>1
    <2>2. U \subseteq Unit
      BY DEF IsContent, Added
    <2> HIDE DEF M, U
    <2>3. M \in [U -> UnitRecord]
      BY <2>1, <1>10
    <2> QED BY <2>2, <2>3, <1>11 DEF IsContent
  <1> HIDE DEF M
  <1>13. Apart(M)
    BY <1>9, <1>10, <1>11 DEF Apart
  <1>14. Acyclic(M)
    <2> SUFFICES ASSUME NEW S \in SUBSET DOMAIN M, S # {}
                 PROVE  \E u \in S : M[u].parent \notin S
      BY DEF Acyclic
    <2>1. CASE S \cap kept # {}
      <3>1. PICK u \in S \cap kept : theirs[u].parent \notin S \cap kept
        <4>1. S \cap kept \in SUBSET DOMAIN theirs
          OBVIOUS
        <4> QED BY <2>1, <4>1 DEF Acyclic
      <3>2. M[u].parent = theirs[u].parent
        <4>1. u \notin added
          BY <1>2
        <4> QED BY <4>1, <1>10 DEF x
      <3>3. theirs[u].parent = Top \/ theirs[u].parent \in DOMAIN theirs
        BY DEF WellFormed
      <3>4. Top \notin S
        <4>1. S \subseteq Unit
          BY <1>12 DEF IsContent
        <4> QED BY <4>1, TreeAssumption
      <3>5. \A v \in S : v \in kept \/ v \in added
        BY <1>11
      <3>6. theirs[u].parent \notin S
        BY <3>1, <3>3, <3>4, <3>5, <1>2
      <3> QED BY <3>2, <3>6
    <2>2. CASE S \cap kept = {}
      <3>1. S \subseteq added
        BY <2>2, <1>11
      <3>2. PICK u \in S : TRUE
        OBVIOUS
      <3>3. u \in added
        BY <3>1
      <3>4. M[u].parent = mine.upserts[u].parent
        BY <3>3, <1>10 DEF x
      <3>5. M[u].parent = Top \/ M[u].parent \in DOMAIN base
        BY <3>3, <3>4
      <3>6. Top \notin S
        <4>1. S \subseteq Unit
          BY <1>12 DEF IsContent
        <4> QED BY <4>1, TreeAssumption
      <3> QED BY <3>1, <3>5, <3>6, <1>2
    <2> QED BY <2>1, <2>2
  <1>15. ASSUME NEW u \in DOMAIN M, NEW v \in DOMAIN M, M[u].parent = M[v].parent
         PROVE  M[u].pos < M[v].pos <=> sooner(u, v)
    <2>1. u \in U /\ v \in U /\ M[u].pos = at(u) /\ M[v].pos = at(v) /\ x(u).parent = x(v).parent
      BY <1>10, <1>11, <1>15
    <2>2. at(u) \in Nat /\ at(v) \in Nat
      BY <2>1, <1>9
    <2>3. sooner(u, v) => at(u) < at(v)
      BY <2>1, <1>6, <1>9
    <2>4. sooner(v, u) => at(v) < at(u)
      BY <2>1, <1>6, <1>9
    <2>5. sooner(u, v) \/ sooner(v, u) \/ u = v
      BY <2>1, <1>8
    <2> HIDE DEF sooner
    <2> QED BY <2>1, <2>2, <2>3, <2>4, <2>5
  <1>16. \A u \in DOMAIN M :
                /\ M[u].parent = x(u).parent /\ M[u].kind = x(u).kind /\ M[u].type = x(u).type
                /\ M[u].text = text(u)
    BY <1>10, <1>11
  <1>17. \A u, v \in DOMAIN M :
                M[u].parent = M[v].parent =>
                    (M[u].pos < M[v].pos <=>
                        \/ u \notin added /\ v \in added
                        \/ /\ u \in added <=> v \in added
                           /\ IF u \in added
                              THEN mine.upserts[u].pos < mine.upserts[v].pos
                              ELSE theirs[u].pos < theirs[v].pos)
    <2> TAKE u, v \in DOMAIN M
    <2> HAVE M[u].parent = M[v].parent
    <2>1. M[u].pos < M[v].pos <=> sooner(u, v)
      BY <1>15
    <2> QED BY <2>1 DEF x
  <1>18. MergedAs(base, theirs, mine, M)
    BY <1>16, <1>17 DEF MergedAs, x
  <1> QED BY <1>11, <1>12, <1>13, <1>14, <1>18 DEF M

(* A delta of what the server has now.                                         *)
LEMMA RebasedIs ==
    ASSUME NEW merged, NEW theirs, IsContent(merged)
    PROVE  LET r == RebasedDelta(merged, theirs) IN
           /\ IsContent(r.upserts) /\ DOMAIN r.upserts \subseteq DOMAIN merged
           /\ r.deletes = DOMAIN theirs \ DOMAIN merged
           /\ \A u \in DOMAIN r.upserts : r.upserts[u] = merged[u]
           /\ \A u \in DOMAIN merged :
                u \in DOMAIN r.upserts <=> \/ u \notin DOMAIN theirs
                                           \/ merged[u].pos # theirs[u].pos
                                           \/ merged[u].text # theirs[u].text
  <1> DEFINE S == {u \in DOMAIN merged :
                        \/ u \notin DOMAIN theirs
                        \/ merged[u].pos # theirs[u].pos
                        \/ merged[u].text # theirs[u].text}
  <1>1. RebasedDelta(merged, theirs) =
            [upserts |-> [u \in S |-> merged[u]], deletes |-> DOMAIN theirs \ DOMAIN merged]
    BY DEF RebasedDelta, Restrict
  <1>2. \A u \in S : u \in Unit /\ merged[u] \in UnitRecord
    BY DEF IsContent
  <1>3. IsContent([u \in S |-> merged[u]])
    <2> HIDE DEF S
    <2> QED BY <1>2 DEF IsContent
  <1> QED BY <1>1, <1>3

(* The operations that structuralNeeds lists.                                  *)
Need == [op : {"toggle", "reparent"}, unit : Unit, parent : Unit \cup {Top}, at : 0..MaxUnit]

(* A document is at most one block longer than the ids that were given out.    *)
LEMMA FewBlocks ==
    ASSUME NEW n \in Nat, NEW d \in Seq(Block(n)), Stamps(d)
    PROVE  Len(d) \in Nat /\ Len(d) <= n + 1
  <1> DEFINE f == [i \in 1..Len(d) |-> d[i].id]
             T == 1..n \cup {NoUnit}
  <1>1. DOMAIN d = 1..Len(d) /\ Len(d) \in Nat
    BY LenProperties
  <1>2. \A i \in 1..Len(d) : d[i].id \in T
    <2>1. \A i \in 1..Len(d) : d[i] \in Block(n)
      BY ElementOfSeq
    <2> QED BY <2>1 DEF Block
  <1>3. f \in Injection(1..Len(d), T)
    <2>1. f \in [1..Len(d) -> T]
      BY <1>2
    <2>2. \A i, j \in 1..Len(d) : f[i] = f[j] => i = j
      BY <1>1 DEF Stamps
    <2> HIDE DEF f, T
    <2> QED BY <2>1, <2>2 DEF Injection, IsInjective
  <1>4. IsFiniteSet(1..n) /\ Cardinality(1..n) = n
    BY FS_Interval
  <1>5. IsFiniteSet(T) /\ Cardinality(T) \in Nat /\ Cardinality(T) <= n + 1
    <2>1. IsFiniteSet(T) /\ (Cardinality(T) = Cardinality(1..n) \/ Cardinality(T) = Cardinality(1..n) + 1)
      BY <1>4, FS_AddElement
    <2> QED BY <2>1, <1>4
  <1>6. IsFiniteSet(1..Len(d)) /\ Cardinality(1..Len(d)) = Len(d)
    <2>1. PICK l \in Nat : l = Len(d)
      BY <1>1
    <2>2. IsFiniteSet(1..l) /\ Cardinality(1..l) = l
      BY FS_Interval
    <2> QED BY <2>1, <2>2
  <1> HIDE DEF f, T
  <1>7. Cardinality(1..Len(d)) <= Cardinality(T)
    BY <1>3, <1>5, FS_Injection
  <1> QED BY <1>1, <1>5, <1>6, <1>7

(* They are of blocks of units that the server has: a toggle where the heading *)
(* is another, a move where the section is.                                    *)
LEMMA NeedsIn ==
    ASSUME NEW n \in 0..MaxUnit, NEW d \in Seq(Block(n)), Stamps(d), NEW c, IsContent(c), NEW S,
           \A i \in 1..Len(d) : ~d[i].config /\ d[i].id \in DOMAIN c =>
                /\ d[i].heading # (c[d[i].id].kind = "heading") => Toggle(d[i].id) \in S
                /\ d[i].parent # c[d[i].id].parent =>
                        \A at \in 0..MaxUnit : Move(d[i].id, d[i].parent, at) \in S
    PROVE  StructuralNeeds(d, c) \in Seq(S)
  <1> DEFINE known   == {i \in DOMAIN d : ~d[i].config /\ d[i].id \in DOMAIN c}
             A       == {i \in known : d[i].heading # (c[d[i].id].kind = "heading")}
             B       == {i \in known : d[i].parent # c[d[i].id].parent}
             toggles == Ascending(A)
             moves   == Ascending(B)
             slot(i) == Cardinality({j \in 1..(i - 1) : d[j].parent = d[i].parent})
             first   == [k \in 1..Len(toggles) |-> Toggle(d[toggles[k]].id)]
             second  == [k \in 1..Len(moves) |->
                            Move(d[moves[k]].id, d[moves[k]].parent, slot(moves[k]))]
  <1>1. DOMAIN d = 1..Len(d) /\ Len(d) \in Nat /\ n \in Nat
    BY LenProperties, OutlineAssumption
  <1>2. Len(d) <= n + 1
    BY <1>1, FewBlocks
  <1>3. A \subseteq 0..Len(d) /\ B \subseteq 0..Len(d) /\ A \subseteq known /\ B \subseteq known
    BY <1>1
  <1>4. \A i \in known :
            i \in 1..Len(d) /\ slot(i) \in 0..MaxUnit
    <2> SUFFICES ASSUME NEW i \in known
                 PROVE  i \in 1..Len(d) /\ slot(i) \in 0..MaxUnit
      OBVIOUS
    <2>1. i \in 1..Len(d)
      BY <1>1
    <2> DEFINE T == {j \in 1..Len(d) : d[j].parent = d[i].parent}
    <2>3. T \subseteq 1..Len(d) /\ i \in 1..(Len(d) + 1)
      BY <2>1, <1>1
    <2>4. {j \in 1..(i - 1) : d[j].parent = d[i].parent} = {j \in 1..(i - 1) : j \in T}
      BY <2>1, <1>1
    <2> HIDE DEF T
    <2>5. Cardinality({j \in 1..(i - 1) : j \in T}) \in 0..(i - 1)
      BY <1>1, <2>3, CountBefore
    <2>6. slot(i) \in 0..(i - 1)
      BY <2>4, <2>5
    <2> HIDE DEF slot
    <2>7. slot(i) \in 0..MaxUnit
      BY <2>1, <2>6, <1>1, <1>2, OutlineAssumption
    <2> QED BY <2>1, <2>7
  <1> DEFINE same(i) == Toggle(d[i].id)
             goes(i) == Move(d[i].id, d[i].parent, slot(i))
  <1>4a. (\A i \in A : same(i) \in S) /\ (\A i \in B : goes(i) \in S)
    BY <1>4
  <1> HIDE DEF known, A, B
  <1>5. toggles \in Seq(A) /\ moves \in Seq(B)
    BY <1>1, <1>3, AscendingLists
  <1>6. StructuralNeeds(d, c) =
            [k \in DOMAIN toggles |-> Toggle(d[toggles[k]].id)]
                \o [k \in DOMAIN moves |-> Move(d[moves[k]].id, d[moves[k]].parent, slot(moves[k]))]
    BY DEF StructuralNeeds, Earlier, known, A, B
  <1> HIDE DEF toggles, moves, slot
  <1>7. /\ DOMAIN toggles = 1..Len(toggles) /\ Len(toggles) \in Nat
        /\ DOMAIN moves = 1..Len(moves) /\ Len(moves) \in Nat
        /\ \A k \in 1..Len(toggles) : toggles[k] \in A
        /\ \A k \in 1..Len(moves) : moves[k] \in B
    BY <1>3, <1>5, LenProperties, ElementOfSeq
  <1> DEFINE one(k) == Toggle(d[toggles[k]].id)
             two(k) == Move(d[moves[k]].id, d[moves[k]].parent, slot(moves[k]))
  <1>9. /\ \A k \in 1..Len(toggles) : one(k) \in S
        /\ \A k \in 1..Len(moves) : two(k) \in S
    BY <1>4a, <1>7
  <1>10. StructuralNeeds(d, c) = [k \in 1..Len(toggles) |-> one(k)] \o [k \in 1..Len(moves) |-> two(k)]
    BY <1>6, <1>7
  <1> HIDE DEF one, two
  <1>11. [k \in 1..Len(toggles) |-> one(k)] \in Seq(S) /\ [k \in 1..Len(moves) |-> two(k)] \in Seq(S)
    BY <1>7, <1>9, IsASeq
  <1> QED BY <1>10, <1>11, ConcatProperties

LEMMA NeedsAre ==
    ASSUME NEW n \in 0..MaxUnit, NEW d \in Seq(Block(n)), Stamps(d), NEW c, IsContent(c)
    PROVE  StructuralNeeds(d, c) \in Seq(Need)
  <1>1. ASSUME NEW i \in 1..Len(d), d[i].id \in DOMAIN c, NEW at \in 0..MaxUnit
        PROVE  Toggle(d[i].id) \in Need /\ Move(d[i].id, d[i].parent, at) \in Need
    <2>1. d[i] \in Block(n) /\ d[i].id \in Unit
      BY <1>1, ElementOfSeq DEF IsContent
    <2>2. d[i].parent \in Unit \cup {Top}
      BY <2>1 DEF Block
    <2> QED BY <2>1, <2>2, OutlineAssumption DEF Need, Toggle, Move
  <1>2. 0 \in 0..MaxUnit
    BY OutlineAssumption
  <1> QED BY <1>1, <1>2, NeedsIn

(* A save is an operation of UnitTree: what changes, and the units that are    *)
(* gone.                                                                       *)
LEMMA SavedIsSave ==
    ASSUME NEW c, IsContent(c), NEW ups, IsContent(ups), NEW dels, MaySave(c, ups, dels)
    PROVE  LET d == Saved(c, ups, dels) IN
           /\ IsContent(d) /\ DOMAIN d = (DOMAIN c \cup DOMAIN ups) \ dels
           /\ MaySave(c, d, DOMAIN c \ DOMAIN d)
  <1> DEFINE d    == Saved(c, ups, dels)
             gone == DOMAIN c \ DOMAIN d
             D    == (DOMAIN c \cup DOMAIN ups) \ dels
  <1>1. DOMAIN d = D /\ \A u \in D : d[u] = IF u \in DOMAIN ups THEN ups[u] ELSE c[u]
    BY DEF Saved
  <1>2. d = [u \in D |-> d[u]]
    BY DEF Saved
  <1> HIDE DEF d
  <1>3. IsContent(d)
    <2>1. \A u \in D : u \in Unit /\ d[u] \in UnitRecord
      BY <1>1 DEF IsContent
    <2> HIDE DEF D
    <2> QED BY <1>1, <1>2, <2>1 DEF IsContent
  <1>4. /\ DOMAIN ups \cap dels = {}
        /\ \A u \in DOMAIN ups :
            IF u \in DOMAIN c THEN FacetsKept(c[u], ups[u]) ELSE NewUnitAllowed(c, ups[u])
        /\ \A u \in dels : Deletable(c, u)
        /\ WellFormed(d)
    BY DEF MaySave, d
  <1>5. \A u \in DOMAIN d :
            IF u \in DOMAIN c THEN FacetsKept(c[u], d[u]) ELSE NewUnitAllowed(c, d[u])
    <2>1. \A u : FacetsKept(c[u], c[u])
      BY DEF FacetsKept
    <2> QED BY <2>1, <1>1, <1>4
  <1>6. \A u \in gone : Deletable(c, u)
    BY <1>1, <1>4
  <1>7. Saved(c, d, gone) = d
    <2>1. (DOMAIN c \cup DOMAIN d) \ gone = DOMAIN d
      OBVIOUS
    <2> HIDE DEF gone
    <2>2. Saved(c, d, gone) = [u \in DOMAIN d |-> d[u]]
      BY <2>1 DEF Saved
    <2> QED BY <2>2, <1>1, <1>2
  <1>8. MaySave(c, d, gone)
    BY <1>4, <1>5, <1>6, <1>7 DEF MaySave
  <1> QED BY <1>1, <1>3, <1>8 DEF d

(* What the invariant says of the document, of the contents and of the flush.  *)
Editing ==
    /\ minted \in 0..MaxUnit
    /\ doc \in Seq(Block(minted))
    /\ Stamps(doc)
    /\ gestures \in Nat

Known ==
    /\ IsContent(prior)
    /\ DOMAIN prior \subseteq 1..minted
    /\ DOMAIN tree \subseteq 1..minted

Holding ==
    /\ DOMAIN sync = {"pc", "body", "queue", "base", "tries", "rejected"}
    /\ IsContent(sync.body.upserts)
    /\ DOMAIN sync.body.upserts \subseteq 1..minted
    /\ sync.queue \in Seq(Need)
    /\ sync.pc = "op" => sync.queue # << >>

Sound == Grown /\ Editing /\ Known /\ Holding

LEMMA SoundStarts == Init => Sound
  <1> SUFFICES ASSUME Init PROVE Sound
    OBVIOUS
  <1>1. IsContent(tree) /\ WellFormed(tree) /\ Acyclic(tree) /\ DOMAIN tree \subseteq Unit
    BY OutlineAssumption DEF Init, IsContent
  <1>2. Grown
    BY <1>1 DEF Init, Grown
  <1>3. minted \in 0..MaxUnit /\ DOMAIN tree \subseteq 1..minted
    <2> DEFINE S == DOMAIN tree \cup {0}
    <2>1. MaxUnit \in Nat /\ S \subseteq 0..MaxUnit /\ S # {} /\ minted = Max(S)
      BY <1>1, OutlineAssumption DEF Init
    <2> HIDE DEF S
    <2>2. Max(S) \in S /\ \A x \in S : x <= Max(S)
      BY <2>1, MaxIs
    <2>3. minted \in S /\ \A x \in S : x <= minted
      BY <2>1, <2>2
    <2>4. minted \in 0..MaxUnit
      BY <2>1, <2>3
    <2>5. \A x \in DOMAIN tree : x \in 1..MaxUnit /\ x <= minted
      BY <1>1, <2>3, OutlineAssumption DEF S
    <2> QED BY <2>1, <2>4, <2>5
  <1>4. Apart(tree)
    BY <1>1 DEF WellFormed, Apart
  <1>5. Editing
    <2>1. ProjectToDoc(tree) \in Seq(Block(minted)) /\ Stamps(ProjectToDoc(tree))
      BY <1>1, <1>3, <1>4, ProjectShows
    <2> QED BY <2>1, <1>3 DEF Init, Editing
  <1>6. Known
    BY <1>1, <1>3 DEF Init, Known
  <1>7. Holding
    <2>1. IsContent(<< >>) /\ DOMAIN << >> \subseteq 1..minted
      BY DEF IsContent
    <2>2. << >> \in Seq(Need)
      OBVIOUS
    <2>3. /\ DOMAIN sync = {"pc", "body", "queue", "base", "tries", "rejected"}
          /\ sync.body.upserts = << >> /\ sync.queue = << >> /\ sync.pc = "idle"
      BY DEF Init, Idle, NoRequest
    <2> QED BY <2>1, <2>2, <2>3 DEF Holding
  <1> QED BY <1>2, <1>5, <1>6, <1>7 DEF Sound

(* An edit.                                                                    *)
LEMMA EditKeeps ==
    ASSUME Editing, NEW new \in Seq(Block(minted)), Edit(new)
    PROVE  Editing' /\ minted <= minted'
  <1>1. /\ minted \in Nat /\ minted + Unstamped(new) <= MaxUnit
        /\ doc' = Settled(new, minted) /\ minted' = minted + Unstamped(new)
        /\ gestures' \in Nat
    BY OutlineAssumption DEF Editing, Edit
  <1>2. /\ minted' \in 0..MaxUnit /\ minted <= minted'
        /\ doc' \in Seq(Block(minted')) /\ Len(doc') = Len(new)
        /\ \A i \in 1..Len(new) : doc'[i].id \in 1..minted'
        /\ \A i, j \in 1..Len(new) : doc'[i].id = doc'[j].id => i = j
    BY <1>1, SettledIs
  <1>3. Stamps(doc')
    <2>1. DOMAIN doc' = 1..Len(new)
      BY <1>2, LenProperties
    <2>2. NoUnit \notin 1..minted'
      BY <1>2, IdsAreUnits
    <2> QED BY <1>2, <2>1, <2>2 DEF Stamps
  <1> QED BY <1>1, <1>2, <1>3 DEF Editing

LEMMA GestureEdits ==
    ASSUME Editing, NEW B, Editable(B), doc \in Seq(B), Gesture
    PROVE  \E new \in Seq(B) : Edit(new)
  <1>1. minted \in Nat /\ doc \in Seq(B) /\ DOMAIN doc = 1..Len(doc) /\ Len(doc) \in Nat
    BY LenProperties, OutlineAssumption DEF Editing
  <1>2. {Display} \subseteq Line /\ \A x \in 1..MaxGesture : x \in Line
    BY OutlineAssumption
  <1>3. MayEdit => NewLine \in Line
    <2>1. MayEdit => NewLine \in 1..MaxGesture
      BY OutlineAssumption DEF MayEdit, NewLine, Editing
    <2> QED BY <2>1, <1>2
  <1>4. CASE TypeText
    <2>0. PICK i \in DOMAIN doc : \E k \in LinesOf(doc[i]) : Edit(Typed(doc, i, k, NewLine))
      BY <1>4 DEF TypeText
    <2>1. PICK k \in LinesOf(doc[i]) : Edit(Typed(doc, i, k, NewLine))
      BY <2>0
    <2>2. NewLine \in Line
      BY <1>3, <1>4 DEF TypeText
    <2>3. Typed(doc, i, k, NewLine) \in Seq(B)
      BY <1>1, <2>2, TypingKeeps
    <2> QED BY <2>1, <2>3
  <1>5. CASE BreakLine
    <2>1. PICK i \in DOMAIN doc : Edit(SoftLine(doc, i, NewLine))
      BY <1>5 DEF BreakLine
    <2>2. NewLine \in Line
      BY <1>3, <1>5 DEF BreakLine
    <2>3. SoftLine(doc, i, NewLine) \in Seq(B)
      BY <1>1, <2>2, TypingKeeps
    <2> QED BY <2>1, <2>3
  <1>6. CASE CueHeading
    <2>1. PICK i \in DOMAIN doc, n \in 1..2 : \E k \in LinesOf(doc[i]) : Edit(HeadingCue(doc, i, k, n))
      BY <1>6 DEF CueHeading
    <2>2. PICK k \in LinesOf(doc[i]) : Edit(HeadingCue(doc, i, k, n))
      BY <2>1
    <2>3. n \in Int
      OBVIOUS
    <2>4. HeadingCue(doc, i, k, n) \in Seq(B)
      BY <1>1, <1>2, <2>3, TypingKeeps
    <2> QED BY <2>2, <2>4
  <1>7. CASE CueDisplay
    <2>0. PICK i \in DOMAIN doc : \E k \in LinesOf(doc[i]) : Edit(DisplayCue(doc, i, k))
      BY <1>7 DEF CueDisplay
    <2>1. PICK k \in LinesOf(doc[i]) : Edit(DisplayCue(doc, i, k))
      BY <2>0
    <2>2. DisplayCue(doc, i, k) \in Seq(B)
      BY <1>1, <1>2, TypingKeeps
    <2> QED BY <2>1, <2>2
  <1>8. CASE EditHashes
    <2>1. PICK i \in DOMAIN doc, n \in 0..3 : Edit(Rehashed(doc, i, n))
      BY <1>8 DEF EditHashes
    <2>2. n \in Int
      OBVIOUS
    <2>3. Rehashed(doc, i, n) \in Seq(B)
      BY <1>1, <1>2, <2>2, TypingKeeps
    <2> QED BY <2>1, <2>3
  <1>9. CASE Enter
    <2>1. PICK i \in DOMAIN doc :
            \/ \E k \in 0..Len(doc[i].text) : Edit(SplitAfter(doc, i, k))
            \/ Edit(SplitBeforeHashes(doc, i))
      BY <1>9 DEF Enter
    <2>2. /\ \A k \in 0..Len(doc[i].text) : SplitAfter(doc, i, k) \in Seq(B)
          /\ SplitBeforeHashes(doc, i) \in Seq(B)
      BY <1>1, SplittingKeeps
    <2> QED BY <2>1, <2>2
  <1>10. CASE Paste
    <2>1. PICK i \in DOMAIN doc, at \in {1, Len(doc) + 1} : Edit(Pasted(doc, i, at))
      BY <1>10 DEF Paste
    <2>2. \A a \in {1, Len(doc) + 1} : Pasted(doc, i, a) \in Seq(B)
      BY <1>1, SplittingKeeps
    <2> QED BY <2>1, <2>2
  <1>11. CASE Tab
    <2>1. PICK i \in DOMAIN doc : Edit(Shifted(doc, i, 1)) \/ Edit(Shifted(doc, i, -1))
      BY <1>11 DEF Tab
    <2>2. Shifted(doc, i, 1) \in Seq(B)
      <3>1. PICK h \in Int : h = 1
        OBVIOUS
      <3>2. Shifted(doc, i, h) \in Seq(B)
        BY <1>1, ShiftedKeeps
      <3> QED BY <3>1, <3>2
    <2>3. Shifted(doc, i, -1) \in Seq(B)
      <3>1. PICK h \in Int : h = -1
        OBVIOUS
      <3>2. Shifted(doc, i, h) \in Seq(B)
        BY <1>1, ShiftedKeeps
      <3> QED BY <3>1, <3>2
    <2> QED BY <2>1, <2>2, <2>3
  <1>12. CASE Backspace
    <2>1. PICK i \in DOMAIN doc : i > 1 /\ Edit(MergedBack(doc, i))
      BY <1>12 DEF Backspace, MayMergeBack
    <2>2. MergedBack(doc, i) \in Seq(B)
      BY <1>1, <2>1, JoiningKeeps
    <2> QED BY <2>1, <2>2
  <1>13. CASE Delete
    <2>1. PICK i \in DOMAIN doc : i < Len(doc) /\ Edit(MergedForward(doc, i))
      BY <1>13 DEF Delete, MayMergeForward
    <2>2. MergedForward(doc, i) \in Seq(B)
      BY <1>1, <2>1, JoiningKeeps
    <2> QED BY <2>1, <2>2
  <1>14. CASE DeleteSelection
    <2>1. PICK i \in DOMAIN doc :
            \/ Edit(RemoveAt(doc, i))
            \/ \E n \in {0, doc[i].hashes} : Edit(Emptied(doc, i, n))
      BY <1>14 DEF DeleteSelection, Emptied
    <2>2. RemoveAt(doc, i) \in Seq(B)
      BY <1>1, JoiningKeeps
    <2>3. doc[i].hashes \in Int
      <3>1. doc[i] \in B
        BY <1>1, ElementOfSeq
      <3> QED BY <3>1, BlockIs
    <2>4. \A n \in Int : Emptied(doc, i, n) \in Seq(B)
      BY <1>1, TypingKeeps
    <2>5. \A n \in {0, doc[i].hashes} : Emptied(doc, i, n) \in Seq(B)
      BY <2>3, <2>4
    <2> QED BY <2>1, <2>2, <2>5
  <1>15. CASE MoveBlock
    <2>1. PICK i \in DOMAIN doc, folded \in {{}, {b.id : b \in {h \in BlocksOf(doc) : h.heading}}} :
            /\ \E item \in Items(doc, i, folded) : item[1] = i
            /\ \/ ItemsBelow(doc, i, folded) # {} /\ Edit(MovedDown(doc, i, folded))
               \/ ItemsAbove(doc, i, folded) # {} /\ Edit(MovedUp(doc, i, folded))
      BY <1>15 DEF MoveBlock
    <2>2. /\ ItemsBelow(doc, i, folded) # {} => MovedDown(doc, i, folded) \in Seq(B)
          /\ ItemsAbove(doc, i, folded) # {} => MovedUp(doc, i, folded) \in Seq(B)
      BY <1>1, <2>1, MovingKeeps
    <2> QED BY <2>1, <2>2
  <1> QED BY <1>4, <1>5, <1>6, <1>7, <1>8, <1>9, <1>10, <1>11, <1>12, <1>13, <1>14, <1>15 DEF Gesture

(* A save that is carried out is one of UnitTree's.                            *)
LEMMA SaveIsSave ==
    ASSUME Grown, NEW d, IsContent(d), MaySave(tree, d, DOMAIN tree \ DOMAIN d), Write(d)
    PROVE  Tree!Next
  <1>1. tree' = d /\ revision' = revision + 1
    BY DEF Write
  <1>2. Tree!MaySave(tree, tree', DOMAIN tree \ DOMAIN tree') /\ Tree!IsContent(tree')
    BY <1>1, SameSaved, SameContent
  <1> QED BY <1>1, <1>2 DEF Tree!Next, Tree!Save

LEMMA WriteSaves ==
    ASSUME Sound, SaveAllowed(sync.body), Write(SaveDone(sync.body))
    PROVE  /\ Tree!Next
           /\ IsContent(tree') /\ DOMAIN tree' \subseteq 1..minted
  <1> DEFINE ups  == sync.body.upserts
             dels == sync.body.deletes
             d    == Saved(tree, ups, dels)
  <1>1. IsContent(tree) /\ IsContent(ups) /\ MaySave(tree, ups, dels)
    BY DEF Sound, Grown, Holding, SaveAllowed
  <1>2. DOMAIN ups \subseteq 1..minted /\ DOMAIN tree \subseteq 1..minted
    BY DEF Sound, Holding, Known
  <1>3. Write(d) /\ tree' = d
    BY DEF SaveDone, Write
  <1> HIDE DEF d, ups, dels
  <1>4. /\ IsContent(d) /\ DOMAIN d = (DOMAIN tree \cup DOMAIN ups) \ dels
        /\ MaySave(tree, d, DOMAIN tree \ DOMAIN d)
    BY <1>1, SavedIsSave DEF d
  <1>5. Tree!Next
    BY <1>3, <1>4, SaveIsSave DEF Sound
  <1>6. IsContent(tree') /\ DOMAIN tree' \subseteq 1..minted
    BY <1>2, <1>3, <1>4
  <1> QED BY <1>5, <1>6

(* A toggle or a move that is carried out.                                     *)
LEMMA ReparentedIs ==
    ASSUME Grown, NEW u, NEW p, NEW n \in Place, MayReparent(tree, u, p)
    PROVE  LET d == Reparented(tree, u, p, n) IN
           /\ IsContent(d) /\ WellFormed(d) /\ Acyclic(d) /\ DOMAIN d = DOMAIN tree
           /\ tree' = d /\ revision' = revision + 1 => Tree!Next
  <1>1. u \in DOMAIN tree /\ p \in DOMAIN tree \cup {Top}
    BY Zenon DEF MayReparent
  <1> DEFINE d == Reparented(tree, u, p, n)
  <1>2. IsContent(d) /\ DOMAIN d = DOMAIN tree
    <2>1. IsContent(d) /\ MovedBelow(tree, d, u, p)
      BY <1>1, ReparentedMoves DEF Grown
    <2> HIDE DEF d
    <2> QED BY <2>1 DEF MovedBelow
  <1>3. WellFormed(d) /\ Acyclic(d)
    BY <1>1, ReparentedForest DEF Grown
  <1>4. Tree!MayReparent(tree, u, p) /\ d = Tree!Reparented(tree, u, p, n)
    BY SameReparented
  <1> HIDE DEF d
  <1>5. tree' = d /\ revision' = revision + 1 => Tree!Next
    BY <1>1, <1>4 DEF Tree!Next, Tree!Reparent
  <1> QED BY <1>2, <1>3, <1>5 DEF d

LEMMA ToggledIs ==
    ASSUME Grown, NEW u, MayToggle(tree, u)
    PROVE  LET d == Toggled(tree, u) IN
           /\ IsContent(d) /\ WellFormed(d) /\ Acyclic(d) /\ DOMAIN d = DOMAIN tree
           /\ tree' = d /\ revision' = revision + 1 => Tree!Next
  <1>1. u \in DOMAIN tree
    BY DEF MayToggle
  <1> DEFINE d == Toggled(tree, u)
  <1>2. IsContent(d) /\ WellFormed(d) /\ Acyclic(d) /\ DOMAIN d = DOMAIN tree
    <2>1. CASE tree[u].kind = "prose"
      <3>1. d = Promoted(tree, u) /\ DOMAIN Promoted(tree, u) = DOMAIN tree
        BY <2>1 DEF Toggled, Promoted
      <3> HIDE DEF d
      <3> QED BY <1>1, <3>1, PromotedForest DEF Grown
    <2>2. CASE tree[u].kind # "prose"
      <3>1. d = Dissolved(tree, u)
        BY <2>2 DEF Toggled
      <3> HIDE DEF d
      <3>2. IsContent(d) /\ LiftedFrom(tree, d, u)
        BY <1>1, <3>1, DissolvedLifts DEF Grown
      <3> QED BY <1>1, <3>1, <3>2, DissolvedForest DEF Grown, LiftedFrom
    <2> QED BY <2>1, <2>2
  <1>3. Tree!MayToggle(tree, u) /\ d = Tree!Toggled(tree, u)
    BY SameToggled
  <1> HIDE DEF d
  <1>4. tree' = d /\ revision' = revision + 1 => Tree!Next
    BY <1>1, <1>3 DEF Tree!Next, Tree!ToggleHeading
  <1> QED BY <1>2, <1>4 DEF d

LEMMA DoneIs ==
    ASSUME Grown, NEW need \in Need, Allowed(need)
    PROVE  /\ IsContent(Done(need)) /\ WellFormed(Done(need)) /\ Acyclic(Done(need))
           /\ DOMAIN Done(need) = DOMAIN tree
           /\ Write(Done(need)) => Tree!Next
  <1>1. need.at \in Place
    BY OutlineAssumption DEF Need
  <1>2. CASE need.op = "toggle"
    <2>1. MayToggle(tree, need.unit) /\ Done(need) = Toggled(tree, need.unit)
      BY <1>2 DEF Allowed, Done
    <2> QED BY <2>1, ToggledIs DEF Write
  <1>3. CASE need.op # "toggle"
    <2>1. /\ MayReparent(tree, need.unit, need.parent)
          /\ Done(need) = Reparented(tree, need.unit, need.parent, need.at)
      BY <1>3 DEF Allowed, Done
    <2> QED BY <1>1, <2>1, ReparentedIs DEF Write
  <1> QED BY <1>2, <1>3

(* The head of what is still to be sent.                                       *)
LEMMA HeadIs ==
    ASSUME Holding, sync.queue # << >>
    PROVE  /\ Head(sync.queue) \in Need /\ Tail(sync.queue) \in Seq(Need)
           /\ Len(sync.queue) > 1 => Tail(sync.queue) # << >>
  <1>1. sync.queue \in Seq(Need)
    BY DEF Holding
  <1>2. /\ Head(sync.queue) \in Need /\ Tail(sync.queue) \in Seq(Need)
        /\ Len(Tail(sync.queue)) = Len(sync.queue) - 1
    BY <1>1, HeadTailProperties
  <1>3. Len(sync.queue) > 1 => Tail(sync.queue) # << >>
    <2>1. Len(sync.queue) \in Nat
      BY <1>1, LenProperties
    <2>2. \A s \in Seq(Need) : s = << >> => Len(s) = 0
      BY EmptySeq
    <2> DEFINE t == Tail(sync.queue)
    <2>3. t \in Seq(Need) /\ Len(t) = Len(sync.queue) - 1
      BY <1>2
    <2> HIDE DEF t
    <2>4. Len(sync.queue) > 1 => t # << >>
      BY <2>1, <2>2, <2>3
    <2> QED BY <2>4 DEF t
  <1> QED BY <1>2, <1>3

--------------------------------------------------------------------------------
(* The flush goes on to the operations, or it is over.                         *)
LEMMA IdleHolds ==
    ASSUME sync' = Idle \/ sync' = [Idle EXCEPT !.pc = "conflict"]
    PROVE  Holding'
  <1>1. IsContent(<< >>) /\ DOMAIN << >> = {}
    BY DEF IsContent
  <1>2. << >> \in Seq(Need)
    BY EmptySeq
  <1>3. /\ DOMAIN sync' = {"pc", "body", "queue", "base", "tries", "rejected"}
        /\ sync'.body.upserts = << >> /\ sync'.queue = << >> /\ sync'.pc # "op"
    BY DEF Idle, NoRequest
  <1> QED BY <1>1, <1>2, <1>3 DEF Holding

LEMMA SettleHolds ==
    ASSUME NEW failed, Settle(failed)
    PROVE  Holding'
  BY IdleHolds DEF Settle

LEMMA DrainHolds ==
    ASSUME NEW base, NEW tries, NEW rejected, Drain(base, tries, rejected), Editing', Known'
    PROVE  Holding'
  <1> DEFINE needs == StructuralNeeds(doc', prior')
  <1>1. CASE needs = << >>
    BY <1>1, SettleHolds DEF Drain
  <1>2. CASE needs # << >>
    <2>1. sync' = [Idle EXCEPT !.pc = "op", !.queue = needs, !.base = base,
                               !.tries = tries, !.rejected = rejected]
      BY <1>2 DEF Drain
    <2>2. needs \in Seq(Need)
      BY NeedsAre DEF Editing, Known
    <2> HIDE DEF needs
    <2>3. IsContent(<< >>) /\ DOMAIN << >> = {}
      BY DEF IsContent
    <2>4. /\ DOMAIN sync' = {"pc", "body", "queue", "base", "tries", "rejected"}
          /\ sync'.body.upserts = << >> /\ sync'.queue = needs /\ sync'.pc = "op"
      BY <2>1 DEF Idle, NoRequest
    <2> QED BY <1>2, <2>2, <2>3, <2>4 DEF Holding
  <1> QED BY <1>1, <1>2

(* What every step of the program does to the parts of the invariant.          *)
Steady == Editing' /\ Known' /\ Holding' /\ [Tree!Next]_Tree!vars

LEMMA EditingStays ==
    ASSUME Editing, doc' = doc, gestures' = gestures, minted' \in 0..MaxUnit, minted <= minted'
    PROVE  Editing'
  <1>1. minted \in Nat /\ minted' \in Nat /\ doc \in Seq(Block(minted))
    BY OutlineAssumption DEF Editing
  <1>2. Block(minted) \subseteq Block(minted')
    BY <1>1, BlockGrows
  <1>3. doc \in Seq(Block(minted'))
    BY <1>1, <1>2, SeqMonotonic
  <1> QED BY <1>3 DEF Editing

LEMMA MintedGrows ==
    ASSUME NEW S, S \subseteq 1..minted, minted \in 0..MaxUnit, minted' \in 0..MaxUnit,
           minted <= minted'
    PROVE  S \subseteq 1..minted'
  BY OutlineAssumption

LEMMA GestureSteady ==
    ASSUME Sound, Gesture
    PROVE  Steady
  <1>1. Editing /\ Known /\ Holding
    BY DEF Sound
  <1>2. PICK new \in Seq(Block(minted)) : Edit(new)
    <2>1. Editable(Block(minted)) /\ doc \in Seq(Block(minted))
      BY <1>1, BlocksEditable, OutlineAssumption DEF Editing
    <2> QED BY <1>1, <2>1, GestureEdits
  <1>3. Editing' /\ minted <= minted'
    BY <1>1, <1>2, EditKeeps
  <1>4. /\ tree' = tree /\ revision' = revision /\ prior' = prior /\ sync' = sync
    BY <1>2 DEF Edit, server
  <1>5. minted \in 0..MaxUnit /\ minted' \in 0..MaxUnit
    BY <1>1, <1>3 DEF Editing
  <1>6. Known'
    BY <1>1, <1>3, <1>4, <1>5, MintedGrows DEF Known
  <1>7. Holding'
    BY <1>1, <1>3, <1>4, <1>5, MintedGrows DEF Holding
  <1> QED BY <1>3, <1>4, <1>6, <1>7 DEF Steady, Tree!vars

(* Steps that give out no id and leave the document and the server as it is.   *)
LEMMA QuietKnown ==
    ASSUME Sound, UNCHANGED <<tree, revision, doc, minted, gestures, prior>>
    PROVE  Editing' /\ Known' /\ [Tree!Next]_Tree!vars
  BY DEF Sound, Editing, Known, Tree!vars

LEMMA FlushNothingSteady ==
    ASSUME Sound, FlushNothing
    PROVE  Steady
  <1>1. UNCHANGED <<tree, revision, doc, minted, gestures, prior, sync>>
    BY DEF FlushNothing, server
  <1>2. Holding'
    BY <1>1 DEF Sound, Holding
  <1> QED BY <1>1, <1>2, QuietKnown DEF Steady

LEMMA FlushSaveSteady ==
    ASSUME Sound, FlushSave
    PROVE  Steady
  <1> DEFINE f == FlushToContent(doc, prior, minted)
  <1>1. Editing /\ Known
    BY DEF Sound
  <1>2. /\ minted' = minted + Flips(doc, prior) /\ minted + Flips(doc, prior) <= MaxUnit
        /\ sync' = [Idle EXCEPT !.pc = "put", !.body = f]
        /\ UNCHANGED <<tree, revision, doc, gestures, prior>>
    BY DEF FlushSave, server
  <1>3. /\ minted' \in 0..MaxUnit /\ minted <= minted'
        /\ IsContent(f.upserts) /\ DOMAIN f.upserts \subseteq 1..minted'
    BY <1>1, <1>2, FlushSends DEF Editing, Known
  <1> HIDE DEF f
  <1>4. Editing'
    BY <1>1, <1>2, <1>3, EditingStays
  <1>5. Known'
    BY <1>1, <1>2, <1>3, MintedGrows DEF Known, Editing
  <1>6. Holding'
    <2>1. << >> \in Seq(Need)
      BY EmptySeq
    <2>2. /\ DOMAIN sync' = {"pc", "body", "queue", "base", "tries", "rejected"}
          /\ sync'.body = f /\ sync'.queue = << >> /\ sync'.pc = "put"
      BY <1>2 DEF Idle
    <2> QED BY <1>3, <2>1, <2>2 DEF Holding
  <1> QED BY <1>2, <1>4, <1>5, <1>6 DEF Steady, Tree!vars

LEMMA FlushStructureSteady ==
    ASSUME Sound, FlushStructure
    PROVE  Steady
  <1>1. UNCHANGED <<tree, revision, doc, minted, gestures, prior>>
    BY DEF FlushStructure, server
  <1>2. Editing' /\ Known' /\ [Tree!Next]_Tree!vars
    BY <1>1, QuietKnown
  <1>3. Drain(prior, 0, ~NoDelta(FlushToContent(doc, prior, minted)))
    BY DEF FlushStructure
  <1> QED BY <1>2, <1>3, DrainHolds DEF Steady

(* The server did what the flush asked for, and the flush takes it over.       *)
LEMMA AdoptKnown ==
    ASSUME Sound, NEW c, IsContent(c), DOMAIN c \subseteq 1..minted,
           tree' = c, Tree!Next, Adopt(c), UNCHANGED <<doc, minted, gestures>>
    PROVE  Editing' /\ Known' /\ [Tree!Next]_Tree!vars
  <1>1. Editing'
    BY DEF Sound, Editing
  <1>2. Known'
    BY DEF Adopt, Known
  <1> QED BY <1>1, <1>2

LEMMA SaveAcceptedSteady ==
    ASSUME Sound, SaveAccepted
    PROVE  Steady
  <1>1. Tree!Next /\ IsContent(tree') /\ DOMAIN tree' \subseteq 1..minted
    BY WriteSaves DEF SaveAccepted
  <1>2. Editing' /\ Known' /\ [Tree!Next]_Tree!vars
    <2>1. Adopt(tree') /\ UNCHANGED <<doc, minted, gestures>>
      BY DEF SaveAccepted
    <2> QED BY <1>1, <2>1, AdoptKnown
  <1>3. Drain(tree', 0, FALSE)
    BY DEF SaveAccepted
  <1> QED BY <1>2, <1>3, DrainHolds DEF Steady

LEMMA PcHolds ==
    ASSUME Holding, NEW pc, pc # "op", sync' = [sync EXCEPT !.pc = pc], minted' = minted
    PROVE  Holding'
  BY DEF Holding

LEMMA RefusedSteady ==
    ASSUME Sound, SaveRefused \/ OpRefused
    PROVE  Steady
  <1>1. UNCHANGED <<tree, revision, doc, minted, gestures, prior>>
    BY DEF SaveRefused, OpRefused, server, editor
  <1>2. sync' = [sync EXCEPT !.pc = "get"] \/ sync' = [sync EXCEPT !.pc = "op get"]
    BY DEF SaveRefused, OpRefused
  <1>3. Holding'
    BY <1>1, <1>2, PcHolds DEF Sound
  <1> QED BY <1>1, <1>3, QuietKnown DEF Steady

(* The merge of what is on the screen with what the server has now.            *)
LEMMA MergeMerges ==
    ASSUME Sound, ~Clash(prior, tree, FlushToContent(doc, prior, minted)),
           minted + Flips(doc, prior) <= MaxUnit
    PROVE  LET mine == FlushToContent(doc, prior, minted)
               M    == Merged(prior, tree, mine)
           IN  /\ minted + Flips(doc, prior) \in 0..MaxUnit /\ minted <= minted + Flips(doc, prior)
               /\ IsContent(M) /\ Acyclic(M) /\ Apart(M)
               /\ DOMAIN M \subseteq 1..(minted + Flips(doc, prior))
  <1> DEFINE mine == FlushToContent(doc, prior, minted)
             M    == Merged(prior, tree, mine)
             m    == minted + Flips(doc, prior)
  <1>1. Editing /\ Known /\ Grown
    BY DEF Sound
  <1>2. /\ m \in 0..MaxUnit /\ minted <= m
        /\ IsContent(mine.upserts) /\ DOMAIN mine.upserts \subseteq 1..m
        /\ \A u \in DOMAIN mine.upserts :
            IF u \in DOMAIN prior THEN FacetsKept(prior[u], mine.upserts[u])
            ELSE NewUnitAllowed(prior, mine.upserts[u])
        /\ \A u, v \in DOMAIN mine.upserts :
            mine.upserts[u].parent = mine.upserts[v].parent
                /\ mine.upserts[u].pos = mine.upserts[v].pos => u = v
    BY <1>1, FlushSends DEF Editing, Known
  <1> HIDE DEF mine, m
  <1>3. \A u \in Added(prior, mine) :
            mine.upserts[u].parent = Top \/ mine.upserts[u].parent \in DOMAIN prior
    BY <1>2 DEF Added, NewUnitAllowed
  <1>4. \A u, v \in Added(prior, mine) :
            mine.upserts[u].parent = mine.upserts[v].parent
                /\ mine.upserts[u].pos = mine.upserts[v].pos => u = v
    BY <1>2 DEF Added
  <1>5. ~Clash(prior, tree, mine)
    BY DEF mine
  <1>6. /\ IsContent(M) /\ Acyclic(M) /\ Apart(M)
        /\ DOMAIN M = (DOMAIN tree \ mine.deletes) \cup Added(prior, mine)
    <2>1. IsContent(prior) /\ IsContent(tree) /\ WellFormed(tree) /\ Acyclic(tree)
      BY <1>1 DEF Grown, Known
    <2>2. IsContent(mine.upserts)
      BY <1>2
    <2> QED BY <2>1, <2>2, <1>3, <1>4, <1>5, MergedIs
  <1>7. DOMAIN M \subseteq 1..m
    <2>1. minted \in Nat /\ m \in Nat /\ DOMAIN tree \subseteq 1..minted
      BY <1>1, <1>2, OutlineAssumption DEF Editing, Known
    <2> QED BY <1>2, <1>6, <2>1 DEF Added
  <1> QED BY <1>2, <1>6, <1>7 DEF mine, m

(* A content comes on the screen with the gestures that are kept.              *)
LEMMA ReprojectKeeps ==
    ASSUME Editing, NEW n \in 0..MaxUnit, NEW c, IsContent(c), Acyclic(c), Apart(c),
           DOMAIN c \subseteq 1..n, NEW base,
           n + Unstamped(Overlaid(ProjectToDoc(c), StructuralIntents(doc, base))) <= MaxUnit,
           doc' = Settled(Overlaid(ProjectToDoc(c), StructuralIntents(doc, base)), n),
           minted' = n + Unstamped(Overlaid(ProjectToDoc(c), StructuralIntents(doc, base))),
           gestures' = gestures
    PROVE  Editing' /\ n <= minted'
  <1> DEFINE keep == StructuralIntents(doc, base)
             o    == Overlaid(ProjectToDoc(c), keep)
  <1>1. keep \in SUBSET Block(minted)
    <2>1. \A i \in DOMAIN doc : doc[i] \in Block(minted)
      BY LenProperties, ElementOfSeq DEF Editing
    <2>2. BlocksOf(doc) \subseteq Block(minted)
      BY <2>1 DEF BlocksOf, ToSet
    <2> QED BY <2>2 DEF StructuralIntents
  <1>2. ProjectToDoc(c) \in Seq(Block(n))
    BY ProjectShows
  <1> HIDE DEF keep
  <1>3. o \in Seq(Block(n))
    BY <1>1, <1>2, OverlaidIs
  <1>4. n \in Nat
    BY OutlineAssumption
  <1>5. doc' = Settled(o, n) /\ minted' = n + Unstamped(o) /\ n + Unstamped(o) <= MaxUnit
    BY DEF keep
  <1> HIDE DEF o
  <1>6. /\ minted' \in 0..MaxUnit /\ n <= minted'
        /\ doc' \in Seq(Block(minted')) /\ Len(doc') = Len(o)
        /\ \A i \in 1..Len(o) : doc'[i].id \in 1..minted'
        /\ \A i, j \in 1..Len(o) : doc'[i].id = doc'[j].id => i = j
    BY <1>3, <1>4, <1>5, SettledIs
  <1>7. Stamps(doc')
    <2>1. DOMAIN doc' = 1..Len(o)
      BY <1>6, LenProperties
    <2>2. NoUnit \notin 1..minted'
      BY <1>6, IdsAreUnits
    <2> QED BY <1>6, <2>1, <2>2 DEF Stamps
  <1> QED BY <1>6, <1>7 DEF Editing

LEMMA MergeOntoScreenKeeps ==
    ASSUME Sound, ~Clash(prior, tree, FlushToContent(doc, prior, minted)),
           MergeOntoScreen(Merged(prior, tree, FlushToContent(doc, prior, minted))),
           UNCHANGED <<tree, revision, gestures>>
    PROVE  LET M == Merged(prior, tree, FlushToContent(doc, prior, minted))
               r == RebasedDelta(M, tree)
           IN  /\ Editing' /\ Known' /\ [Tree!Next]_Tree!vars /\ minted <= minted'
               /\ IsContent(r.upserts) /\ DOMAIN r.upserts \subseteq 1..minted'
  <1> DEFINE M == Merged(prior, tree, FlushToContent(doc, prior, minted))
             r == RebasedDelta(M, tree)
             n == minted + Flips(doc, prior)
             o == Overlaid(ProjectToDoc(M), StructuralIntents(doc, prior))
  <1>1. /\ n <= MaxUnit /\ n + Unstamped(o) <= MaxUnit
        /\ doc' = Settled(o, n) /\ minted' = n + Unstamped(o)
        /\ prior' = tree
    BY DEF MergeOntoScreen
  <1>2. /\ n \in 0..MaxUnit /\ minted <= n
        /\ IsContent(M) /\ Acyclic(M) /\ Apart(M) /\ DOMAIN M \subseteq 1..n
    BY <1>1, MergeMerges
  <1>3. Editing /\ Known /\ Grown
    BY DEF Sound
  <1> HIDE DEF M, n
  <1>4. Editing' /\ n <= minted'
    BY <1>1, <1>2, <1>3, ReprojectKeeps
  <1> HIDE DEF o
  <1>5. minted \in Nat /\ n \in Nat /\ minted' \in Nat /\ minted <= minted'
    BY <1>2, <1>3, <1>4, OutlineAssumption DEF Editing
  <1>6. Known'
    BY <1>1, <1>3, <1>5 DEF Known, Grown
  <1>7. IsContent(r.upserts) /\ DOMAIN r.upserts \subseteq DOMAIN M
    BY <1>2, RebasedIs
  <1>8. DOMAIN r.upserts \subseteq 1..minted'
    BY <1>2, <1>4, <1>5, <1>7
  <1> QED BY <1>4, <1>5, <1>6, <1>7, <1>8 DEF Tree!vars, M

(* What is held is put away, or a new body is to be sent.                      *)
LEMMA BodyHolds ==
    ASSUME Holding, NEW pc, pc # "op", NEW body,
           sync' = [sync EXCEPT !.pc = pc, !.body = body],
           IsContent(body.upserts), DOMAIN body.upserts \subseteq 1..minted'
    PROVE  Holding'
  <1>1. /\ DOMAIN sync' = DOMAIN sync /\ sync'.body = body /\ sync'.queue = sync.queue
        /\ sync'.pc = pc
    BY DEF Holding
  <1> QED BY <1>1 DEF Holding

LEMMA ConflictHolds ==
    ASSUME Conflict
    PROVE  Holding' /\ UNCHANGED <<doc, minted, prior>>
  <1>1. sync' = [Idle EXCEPT !.pc = "conflict"]
    BY DEF Conflict
  <1>2. Holding'
    BY <1>1, IdleHolds
  <1> QED BY <1>2 DEF Conflict

LEMMA MergeSteady ==
    ASSUME Sound, Merge
    PROVE  Steady
  <1> DEFINE mine == FlushToContent(doc, prior, minted)
             M    == Merged(prior, tree, mine)
             r    == RebasedDelta(M, tree)
  <1>1. UNCHANGED <<tree, revision, gestures>>
    BY DEF Merge, server
  <1>2. CASE revision <= priorRev
    <2>1. UNCHANGED <<doc, minted, prior>> /\ sync' = Idle
      BY <1>2 DEF Merge
    <2>2. Holding'
      BY <2>1, IdleHolds
    <2> QED BY <1>1, <2>1, <2>2, QuietKnown DEF Steady
  <1>3. CASE ~(revision <= priorRev) /\ Clash(prior, tree, mine)
    <2>1. Conflict
      BY <1>3 DEF Merge
    <2> QED BY <1>1, <2>1, ConflictHolds, QuietKnown DEF Steady
  <1>4. CASE ~(revision <= priorRev) /\ ~Clash(prior, tree, mine)
    <2>1. /\ MergeOntoScreen(M)
          /\ \/ Drain(tree, 0, FALSE)
             \/ sync' = [sync EXCEPT !.pc = "merge put", !.body = r]
      BY <1>4 DEF Merge
    <2>2. /\ Editing' /\ Known' /\ [Tree!Next]_Tree!vars
          /\ IsContent(r.upserts) /\ DOMAIN r.upserts \subseteq 1..minted'
      BY <1>1, <1>4, <2>1, MergeOntoScreenKeeps
    <2> HIDE DEF mine, M, r
    <2>3. CASE Drain(tree, 0, FALSE)
      BY <2>2, <2>3, DrainHolds DEF Steady
    <2>4. CASE sync' = [sync EXCEPT !.pc = "merge put", !.body = r]
      <3>1. Holding
        BY DEF Sound
      <3>2. Holding'
        BY <2>2, <2>4, <3>1, BodyHolds
      <3> QED BY <2>2, <3>2 DEF Steady
    <2> QED BY <2>1, <2>3, <2>4
  <1> QED BY <1>2, <1>3, <1>4

LEMMA MergeRefusedSteady ==
    ASSUME Sound, MergeRefused
    PROVE  Steady
  <1>1. UNCHANGED <<tree, revision, doc, minted, gestures, prior>>
    BY DEF MergeRefused, server
  <1>2. sync' = Idle \/ Conflict \/ sync' = [sync EXCEPT !.pc = "get"]
    BY DEF MergeRefused
  <1>3. Holding
    BY DEF Sound
  <1>4. Holding'
    BY <1>1, <1>2, <1>3, IdleHolds, ConflictHolds, PcHolds
  <1> QED BY <1>1, <1>4, QuietKnown DEF Steady

LEMMA RetryHolds ==
    ASSUME Retry, Editing', Known'
    PROVE  Holding'
  <1>1. CASE sync.tries >= MaxRetry
    <2>1. sync' = [Idle EXCEPT !.pc = "conflict"]
      BY <1>1 DEF Retry
    <2> QED BY <2>1, IdleHolds
  <1>2. CASE ~(sync.tries >= MaxRetry)
    <2>1. Drain(sync.base, sync.tries + 1, sync.rejected)
      BY <1>2 DEF Retry
    <2> QED BY <2>1, DrainHolds
  <1> QED BY <1>1, <1>2

LEMMA OpMergeSteady ==
    ASSUME Sound, OpMerge
    PROVE  Steady
  <1> DEFINE mine == FlushToContent(doc, prior, minted)
             M    == Merged(prior, tree, mine)
             r    == RebasedDelta(M, tree)
  <1>1. UNCHANGED <<tree, revision, gestures>>
    BY DEF OpMerge, server
  <1>2. CASE revision <= priorRev
    <2>1. UNCHANGED <<doc, minted, prior>> /\ Settle(TRUE)
      BY <1>2 DEF OpMerge
    <2>2. Holding'
      BY <2>1, SettleHolds
    <2> QED BY <1>1, <2>1, <2>2, QuietKnown DEF Steady
  <1>3. CASE ~(revision <= priorRev) /\ Clash(prior, tree, mine)
    <2>1. Conflict
      BY <1>3 DEF OpMerge
    <2> QED BY <1>1, <2>1, ConflictHolds, QuietKnown DEF Steady
  <1>4. CASE ~(revision <= priorRev) /\ ~Clash(prior, tree, mine)
    <2>1. /\ MergeOntoScreen(M)
          /\ Retry \/ sync' = [sync EXCEPT !.pc = "op put", !.body = r]
      BY <1>4 DEF OpMerge
    <2>2. /\ Editing' /\ Known' /\ [Tree!Next]_Tree!vars
          /\ IsContent(r.upserts) /\ DOMAIN r.upserts \subseteq 1..minted'
      BY <1>1, <1>4, <2>1, MergeOntoScreenKeeps
    <2> HIDE DEF mine, M, r
    <2>3. CASE Retry
      BY <2>2, <2>3, RetryHolds DEF Steady
    <2>4. CASE sync' = [sync EXCEPT !.pc = "op put", !.body = r]
      <3>1. Holding
        BY DEF Sound
      <3>2. Holding'
        BY <2>2, <2>4, <3>1, BodyHolds
      <3> QED BY <2>2, <3>2 DEF Steady
    <2> QED BY <2>1, <2>3, <2>4
  <1> QED BY <1>2, <1>3, <1>4

LEMMA OpSaveSteady ==
    ASSUME Sound, OpSave
    PROVE  Steady
  <1>1. UNCHANGED <<doc, minted, gestures>>
    BY DEF OpSave
  <1>2. CASE Fresh /\ SaveAllowed(sync.body)
    <2>1. Write(SaveDone(sync.body)) /\ Adopt(tree') /\ Retry
      BY <1>2 DEF OpSave
    <2>2. Tree!Next /\ IsContent(tree') /\ DOMAIN tree' \subseteq 1..minted
      BY <1>2, <2>1, WriteSaves
    <2>3. Editing' /\ Known' /\ [Tree!Next]_Tree!vars
      BY <1>1, <2>1, <2>2, AdoptKnown
    <2> QED BY <2>1, <2>3, RetryHolds DEF Steady
  <1>3. CASE ~(Fresh /\ SaveAllowed(sync.body))
    <2>1. UNCHANGED <<tree, revision, prior>> /\ Settle(TRUE)
      BY <1>3 DEF OpSave, server
    <2> QED BY <1>1, <2>1, SettleHolds, QuietKnown DEF Steady
  <1> QED BY <1>2, <1>3

LEMMA OpAcceptedSteady ==
    ASSUME Sound, OpAccepted
    PROVE  Steady
  <1> DEFINE need == Head(sync.queue)
             done == Done(need)
             o    == Overlaid(ProjectToDoc(done), StructuralIntents(doc, sync.base))
  <1>1. /\ sync.pc = "op" /\ Allowed(need) /\ Write(done) /\ Adopt(done)
        /\ UNCHANGED gestures
    BY DEF OpAccepted
  <1>2. Holding /\ Editing /\ Known /\ Grown
    BY DEF Sound
  <1>3. need \in Need
    BY <1>1, <1>2, HeadIs DEF Holding
  <1> HIDE DEF need
  <1>4. /\ IsContent(done) /\ WellFormed(done) /\ Acyclic(done)
        /\ DOMAIN done = DOMAIN tree /\ Tree!Next
    BY <1>1, <1>2, <1>3, DoneIs
  <1>5. Apart(done) /\ DOMAIN done \subseteq 1..minted
    BY <1>2, <1>4 DEF Apart, WellFormed, Known
  <1>6. tree' = done /\ prior' = done
    BY <1>1 DEF Write, Adopt
  <1>7. CASE UNCHANGED <<doc, minted>>
    <2>1. Editing' /\ Known' /\ [Tree!Next]_Tree!vars
      <3> HIDE DEF done
      <3> QED BY <1>1, <1>4, <1>5, <1>6, <1>7, AdoptKnown
    <2>2. Holding'
      <3>1. CASE Len(sync.queue) > 1
        <4>1. sync' = [sync EXCEPT !.queue = Tail(sync.queue)]
          BY <3>1 DEF OpAccepted
        <4>2. Tail(sync.queue) \in Seq(Need) /\ Tail(sync.queue) # << >>
          BY <3>1, <1>1, <1>2, HeadIs DEF Holding
        <4> QED BY <4>1, <4>2, <1>2, <1>7 DEF Holding
      <3>2. CASE ~(Len(sync.queue) > 1)
        <4>1. Settle(sync.rejected)
          BY <3>2 DEF OpAccepted
        <4> QED BY <4>1, SettleHolds
      <3> QED BY <3>1, <3>2
    <2> QED BY <2>1, <2>2 DEF Steady
  <1>8. CASE ~UNCHANGED <<doc, minted>>
    <2>1. /\ minted + Unstamped(o) <= MaxUnit
          /\ doc' = Settled(o, minted) /\ minted' = minted + Unstamped(o)
          /\ Settle(sync.rejected)
      BY <1>8 DEF OpAccepted, need
    <2>2. Editing' /\ minted <= minted'
      <3>1. minted \in 0..MaxUnit
        BY <1>2 DEF Editing
      <3> HIDE DEF done
      <3> QED BY <1>1, <1>2, <1>4, <1>5, <2>1, <3>1, ReprojectKeeps
    <2> HIDE DEF done, o
    <2>3. Known'
      <3>1. minted \in 0..MaxUnit /\ minted' \in 0..MaxUnit
        BY <1>2, <2>2 DEF Editing
      <3> QED BY <1>4, <1>5, <1>6, <2>2, <3>1, MintedGrows DEF Known
    <2>4. Holding'
      BY <2>1, SettleHolds
    <2> QED BY <1>4, <2>2, <2>3, <2>4 DEF Steady
  <1> QED BY <1>7, <1>8

LEMMA FailSteady ==
    ASSUME Sound, Fail
    PROVE  Steady
  <1>1. UNCHANGED <<doc, minted, gestures, prior>>
    BY DEF Fail
  <1>2. Holding /\ Editing /\ Known /\ Grown
    BY DEF Sound
  <1>3. Holding'
    <2>1. Settle(TRUE) \/ sync' = Idle
      BY DEF Fail
    <2> QED BY <2>1, SettleHolds, IdleHolds
  <1>4. /\ DOMAIN tree' \subseteq 1..minted
        /\ [Tree!Next]_Tree!vars
    <2>1. CASE UNCHANGED server
      BY <2>1, <1>2 DEF server, Tree!vars, Known
    <2>2. CASE ~UNCHANGED server /\ sync.pc = "op"
      <3> DEFINE need == Head(sync.queue)
      <3>1. Allowed(need) /\ Write(Done(need))
        BY <2>2 DEF Fail
      <3>2. need \in Need
        BY <1>2, <2>2, HeadIs DEF Holding
      <3> HIDE DEF need
      <3>3. DOMAIN Done(need) = DOMAIN tree /\ Tree!Next
        BY <1>2, <3>1, <3>2, DoneIs
      <3>4. tree' = Done(need)
        BY <3>1 DEF Write
      <3> QED BY <1>2, <3>3, <3>4 DEF Known
    <2>3. CASE ~UNCHANGED server /\ sync.pc # "op"
      <3>1. SaveAllowed(sync.body) /\ Write(SaveDone(sync.body))
        BY <2>3 DEF Fail
      <3> QED BY <3>1, WriteSaves
    <2> QED BY <2>1, <2>2, <2>3
  <1>5. Editing' /\ Known'
    BY <1>1, <1>2, <1>4 DEF Editing, Known
  <1> QED BY <1>3, <1>4, <1>5 DEF Steady

(* The text of a unit, changed by the other device.                            *)
LEMMA TextIsSave ==
    ASSUME NEW c, IsContent(c), WellFormed(c), NEW u \in DOMAIN c, NEW t \in Text
    PROVE  LET d == [c EXCEPT ![u].text = t] IN
           IsContent(d) /\ DOMAIN d = DOMAIN c /\ MaySave(c, d, DOMAIN c \ DOMAIN d)
  <1> DEFINE x == [c[u] EXCEPT !.text = t]
             d == [c EXCEPT ![u].text = t]
  <1>1. c[u] \in UnitRecord
    BY DEF IsContent
  <1>2. /\ x \in UnitRecord /\ x.parent = c[u].parent /\ x.pos = c[u].pos
        /\ x.kind = c[u].kind /\ x.type = c[u].type
    BY <1>1 DEF UnitRecord
  <1>3. d = [v \in DOMAIN c |-> IF v = u THEN x ELSE c[v]]
    BY <1>1 DEF IsContent
  <1> HIDE DEF d, x
  <1>4. /\ DOMAIN d = DOMAIN c
        /\ \A v \in DOMAIN c : d[v] = IF v = u THEN x ELSE c[v]
    BY <1>3
  <1>5. \A v \in DOMAIN c : c[v] \in UnitRecord /\ v \in Unit
    BY DEF IsContent
  <1>6. \A v \in DOMAIN c :
            /\ d[v] \in UnitRecord /\ d[v].parent = c[v].parent /\ d[v].pos = c[v].pos
            /\ d[v].kind = c[v].kind /\ d[v].type = c[v].type
    BY <1>2, <1>4, <1>5
  <1>7. d \in [DOMAIN d -> UnitRecord]
    BY <1>3, <1>4, <1>6
  <1>8. IsContent(d)
    BY <1>4, <1>5, <1>7 DEF IsContent
  <1>9. WellFormed(d)
    BY <1>4, <1>6 DEF WellFormed
  <1>10. Saved(c, d, DOMAIN c \ DOMAIN d) = d
    <2>1. DOMAIN c \ DOMAIN d = {} /\ (DOMAIN c \cup DOMAIN d) \ {} = DOMAIN c
      BY <1>4
    <2>2. Saved(c, d, {}) = [v \in DOMAIN c |-> d[v]]
      BY <2>1, <1>4 DEF Saved
    <2>3. d = [v \in DOMAIN c |-> d[v]]
      BY <1>3
    <2> QED BY <2>1, <2>2, <2>3
  <1>11. \A v \in DOMAIN d : v \in DOMAIN c /\ FacetsKept(c[v], d[v])
    BY <1>4, <1>6 DEF FacetsKept
  <1>12. MaySave(c, d, DOMAIN c \ DOMAIN d)
    BY <1>4, <1>9, <1>10, <1>11 DEF MaySave
  <1> QED BY <1>4, <1>8, <1>12 DEF d

LEMMA OtherDeviceSteady ==
    ASSUME Sound, OtherDevice
    PROVE  Steady
  <1>1. UNCHANGED <<doc, minted, gestures, prior, sync>>
    BY DEF OtherDevice, editor
  <1>2. Holding /\ Editing /\ Known /\ Grown
    BY DEF Sound
  <1>3. Editing' /\ Holding'
    BY <1>1, <1>2 DEF Editing, Holding
  <1>4. revision' = revision + 1
    BY DEF OtherDevice
  <1>5. DOMAIN tree' = DOMAIN tree /\ Tree!Next
    <2>1. CASE \E u \in DOMAIN tree, x \in Foreign : tree' = [tree EXCEPT ![u].text = <<x>>]
      <3>1. PICK u \in DOMAIN tree, x \in Foreign : tree' = [tree EXCEPT ![u].text = <<x>>]
        BY <2>1
      <3>2. PICK t \in Text : t = <<x>>
        <4>1. x \in Line
          BY OutlineAssumption
        <4>2. <<x>> \in Seq(Line)
          BY <4>1
        <4> QED BY <4>2 DEF Text
      <3> DEFINE d == [tree EXCEPT ![u].text = t]
      <3>3. tree' = d
        BY <3>1, <3>2
      <3>4. IsContent(d) /\ DOMAIN d = DOMAIN tree /\ MaySave(tree, d, DOMAIN tree \ DOMAIN d)
        BY <1>2, TextIsSave DEF Grown
      <3> HIDE DEF d
      <3>5. Tree!MaySave(tree, tree', DOMAIN tree \ DOMAIN tree') /\ Tree!IsContent(tree')
        BY <3>3, <3>4, SameSaved, SameContent
      <3> QED BY <1>4, <3>3, <3>4, <3>5 DEF Tree!Next, Tree!Save
    <2>2. CASE \E u \in DOMAIN tree : MayToggle(tree, u) /\ tree' = Toggled(tree, u)
      BY <1>2, <1>4, <2>2, ToggledIs
    <2>3. CASE \E u \in DOMAIN tree, p \in DOMAIN tree \cup {Top} :
                    MayReparent(tree, u, p) /\ tree' = Reparented(tree, u, p, 0)
      <3>1. PICK u \in DOMAIN tree, p \in DOMAIN tree \cup {Top} :
                    MayReparent(tree, u, p) /\ tree' = Reparented(tree, u, p, 0)
        BY <2>3
      <3>2. 0 \in Place
        BY OutlineAssumption
      <3> QED BY <1>2, <1>4, <3>1, <3>2, ReparentedIs
    <2> QED BY <2>1, <2>2, <2>3 DEF OtherDevice
  <1>6. Known'
    BY <1>1, <1>2, <1>5 DEF Known
  <1> QED BY <1>3, <1>5, <1>6 DEF Steady

LEMMA SoundSteps == Sound /\ [Next]_vars => Sound' /\ [Tree!Next]_Tree!vars
  <1> SUFFICES ASSUME Sound, [Next]_vars
               PROVE  Sound' /\ [Tree!Next]_Tree!vars
    OBVIOUS
  <1>1. Steady
    <2>1. CASE Gesture
      BY <2>1, GestureSteady
    <2>2. CASE Sync
      BY <2>2, FlushNothingSteady, FlushSaveSteady, FlushStructureSteady, SaveAcceptedSteady,
         RefusedSteady, MergeSteady, MergeRefusedSteady, OpAcceptedSteady, OpMergeSteady,
         OpSaveSteady DEF Sync
    <2>3. CASE Fail
      BY <2>3, FailSteady
    <2>4. CASE OtherDevice
      BY <2>4, OtherDeviceSteady
    <2>5. CASE UNCHANGED vars
      <3>1. UNCHANGED <<tree, revision, doc, minted, gestures, prior, sync>>
        BY <2>5 DEF vars
      <3>2. Holding'
        BY <3>1 DEF Sound, Holding
      <3> QED BY <3>1, <3>2, QuietKnown DEF Steady
    <2> QED BY <2>1, <2>2, <2>3, <2>4, <2>5 DEF Next
  <1>2. Grown'
    BY <1>1, TreeKeeps DEF Sound, Steady
  <1> QED BY <1>1, <1>2 DEF Sound, Steady

(* With all the saves, toggles and moves of an editor interleaved with those   *)
(* of another device, whatever is refused, merged, retried or lost, the units  *)
(* stay a forest of sections (drainStructure and runMerge,                     *)
(* autosaveController.ts; ops.rs).                                             *)
THEOREM OutlineForest == Spec => []Forest
  <1>1. Sound => Forest
    BY GrownIs DEF Sound, Forest
  <1> QED BY <1>1, SoundStarts, SoundSteps, PTL DEF Spec

(* Every write of save, merge and drainStructure, answered or not, and of the  *)
(* other device, is one allowed operation of UnitTree at the next revision.    *)
THEOREM OutlineImplementsTree == Spec => ImplementsUnitTree
  <1>1. Init => Tree!Init
    <2> SUFFICES ASSUME Init PROVE Tree!Init
      OBVIOUS
    <2>1. Grown
      BY SoundStarts DEF Sound
    <2>2. Tree!TypeOK /\ Tree!Forest
      BY <2>1, GrownIs
    <2> QED BY <2>2 DEF Tree!Init, Tree!TypeOK, Tree!Forest
  <1>2. Sound /\ [Next]_vars => [Tree!Next]_Tree!vars
    BY SoundSteps
  <1> QED BY <1>1, <1>2, SoundStarts, SoundSteps, PTL DEF Spec, ImplementsUnitTree, Tree!Spec

--------------------------------------------------------------------------------
(* What a merge keeps on the screen.                                           *)

(* A walk comes to every unit of a set whose parents are at the top or         *)
(* headings of the set.                                                        *)
LEMMA AllReached ==
    ASSUME NEW c, IsContent(c), Acyclic(c), NEW R \in SUBSET DOMAIN c,
           \A u \in R : c[u].parent = Top \/ c[u].parent \in R \cap Headings(c)
    PROVE  R \subseteq Reached(c)
  <1> SUFFICES ASSUME NEW u \in R
               PROVE  u \in Reached(c)
    OBVIOUS
  <1>1. R \cap Headings(c) \in SUBSET Headings(c)
    OBVIOUS
  <1>2. \A v \in (R \cap Headings(c)) \cup {u} :
            c[v].parent \in Headings(c) => c[v].parent \in R \cap Headings(c)
    BY TreeAssumption DEF Headings, IsContent
  <1>3. Lineage(c, u) \subseteq R
    BY <1>1, <1>2, AboveLeast DEF Lineage
  <1>4. Lineage(c, u) \in SUBSET DOMAIN c /\ Lineage(c, u) # {}
    BY <1>3 DEF Lineage
  <1>5. PICK v \in Lineage(c, u) : c[v].parent \notin Lineage(c, u)
    BY <1>4 DEF Acyclic
  <1>6. c[v].parent = Top
    BY <1>3, <1>5, AboveClosed DEF Lineage
  <1> QED BY <1>5, <1>6 DEF Reached

(* The lines of the units of M that the walk comes to are on the screen of the *)
(* merge.                                                                      *)
LEMMA OnScreen ==
    ASSUME NEW n \in 0..MaxUnit, NEW M, IsContent(M), Acyclic(M), Apart(M), DOMAIN M \subseteq 1..n,
           NEW m, NEW keep \in SUBSET Block(m),
           n + Unstamped(Overlaid(ProjectToDoc(M), keep)) <= MaxUnit,
           NEW u \in Reached(M)
    PROVE  ToSet(M[u].text) \subseteq LinesIn(BlocksOf(Settled(Overlaid(ProjectToDoc(M), keep), n)))
  <1> DEFINE P == ProjectToDoc(M)
             w == Walk(M)
             o == Overlaid(P, keep)
             q == Settled(o, n)
  <1>1. PICK k \in 1..Len(w) : w[k] = u
    BY WalkLists
  <1>2. /\ P \in Seq(Block(n)) /\ Len(w) \in Nat /\ Len(P) \in {Len(w), Len(w) + 1}
        /\ w[k] \in DOMAIN M /\ P[k] = Shown(M, w[k])
    BY ProjectShows
  <1> HIDE DEF P, w
  <1>3. k \in 1..Len(P)
    BY <1>2
  <1>4. P[k].text = M[u].text
    BY <1>1, <1>2, ShownIs
  <1>5. o \in Seq(Block(n)) /\ Len(o) = Len(P) /\ o[k].text = P[k].text
    BY <1>2, <1>3, OverlaidIs
  <1>6. n \in Nat /\ n + Unstamped(o) <= MaxUnit
    BY OutlineAssumption DEF P
  <1> HIDE DEF o
  <1>7. q \in Seq(Block(n + Unstamped(o))) /\ Len(q) = Len(o) /\ q[k].text = o[k].text
    BY <1>3, <1>5, <1>6, SettledIs
  <1> HIDE DEF q
  <1>8. k \in DOMAIN q
    BY <1>3, <1>5, <1>7, LenProperties
  <1>9. q[k] \in BlocksOf(q)
    BY <1>8 DEF BlocksOf, ToSet
  <1>10. ToSet(q[k].text) \subseteq LinesIn(BlocksOf(q))
    BY <1>9 DEF LinesIn
  <1> QED BY <1>4, <1>5, <1>7, <1>10 DEF q, o, P

(* The merge, unit by unit: all that the server has stays but for what I       *)
(* deleted, and its headings are neither deleted nor changed.                  *)
LEMMA MergeHomes ==
    ASSUME Sound, ~Clash(prior, tree, FlushToContent(doc, prior, minted)),
           minted + Flips(doc, prior) <= MaxUnit
    PROVE  LET mine == FlushToContent(doc, prior, minted)
               M    == Merged(prior, tree, mine)
           IN  /\ DOMAIN M = (DOMAIN tree \ mine.deletes) \cup Added(prior, mine)
               /\ Added(prior, mine) \cap DOMAIN tree = {}
               /\ \A u \in DOMAIN M :
                    /\ M[u].parent = IF u \in Added(prior, mine) THEN mine.upserts[u].parent
                                     ELSE tree[u].parent
                    /\ M[u].kind = IF u \in Added(prior, mine) THEN mine.upserts[u].kind
                                   ELSE tree[u].kind
                    /\ M[u].text = IF u \in DOMAIN mine.upserts THEN mine.upserts[u].text
                                   ELSE tree[u].text
               /\ \A h \in Headings(tree) : h \in DOMAIN M /\ M[h].kind = "heading"
               /\ \A u \in DOMAIN M :
                    M[u].parent = Top \/ M[u].parent \in Headings(tree) => u \in Reached(M)
               /\ mine.deletes \subseteq DOMAIN prior
               /\ DOMAIN mine.upserts \cap mine.deletes = {}
  <1> DEFINE mine == FlushToContent(doc, prior, minted)
             M    == Merged(prior, tree, mine)
             m    == minted + Flips(doc, prior)
  <1>1. Editing /\ Known /\ Grown
    BY DEF Sound
  <1>2. /\ IsContent(mine.upserts)
        /\ mine.deletes \subseteq DOMAIN prior /\ \A u \in mine.deletes : prior[u].kind # "heading"
        /\ DOMAIN mine.upserts \cap mine.deletes = {}
        /\ \A u \in DOMAIN mine.upserts :
            IF u \in DOMAIN prior THEN FacetsKept(prior[u], mine.upserts[u])
            ELSE NewUnitAllowed(prior, mine.upserts[u])
        /\ \A u, v \in DOMAIN mine.upserts :
            mine.upserts[u].parent = mine.upserts[v].parent
                /\ mine.upserts[u].pos = mine.upserts[v].pos => u = v
    BY <1>1, FlushSends DEF Editing, Known
  <1> HIDE DEF mine
  <1>3. \A u \in Added(prior, mine) :
            mine.upserts[u].parent = Top \/ mine.upserts[u].parent \in DOMAIN prior
    BY <1>2 DEF Added, NewUnitAllowed
  <1>4. \A u, v \in Added(prior, mine) :
            mine.upserts[u].parent = mine.upserts[v].parent
                /\ mine.upserts[u].pos = mine.upserts[v].pos => u = v
    BY <1>2 DEF Added
  <1>5. ~Clash(prior, tree, mine)
    BY DEF mine
  <1>6. /\ IsContent(M) /\ Acyclic(M) /\ Apart(M)
        /\ DOMAIN M = (DOMAIN tree \ mine.deletes) \cup Added(prior, mine)
        /\ MergedAs(prior, tree, mine, M)
    <2>1. IsContent(prior) /\ IsContent(tree) /\ WellFormed(tree) /\ Acyclic(tree)
      BY <1>1 DEF Grown, Known
    <2>2. IsContent(mine.upserts)
      BY <1>2
    <2> QED BY <2>1, <2>2, <1>3, <1>4, <1>5, MergedIs
  <1> HIDE DEF M
  <1>7. Added(prior, mine) \cap DOMAIN tree = {}
    BY <1>5 DEF Clash, Added
  <1>8. \A u \in DOMAIN M :
            /\ M[u].parent = IF u \in Added(prior, mine) THEN mine.upserts[u].parent
                             ELSE tree[u].parent
            /\ M[u].kind = IF u \in Added(prior, mine) THEN mine.upserts[u].kind
                           ELSE tree[u].kind
            /\ M[u].text = IF u \in DOMAIN mine.upserts THEN mine.upserts[u].text
                           ELSE tree[u].text
    BY <1>6 DEF MergedAs, Added
  <1>9. \A h \in Headings(tree) : h \in DOMAIN M /\ h \in DOMAIN tree /\ h \notin Added(prior, mine)
    <2> TAKE h \in Headings(tree)
    <2>1. h \in DOMAIN tree /\ tree[h].kind = "heading"
      BY DEF Headings
    <2>2. h \notin mine.deletes
      BY <2>1, <1>2, <1>5 DEF Clash, ChangedOn
    <2> QED BY <2>1, <2>2, <1>6, <1>7
  <1>9a. \A h \in Headings(tree) : h \in DOMAIN M /\ M[h].kind = "heading"
    BY <1>8, <1>9 DEF Headings
  <1> DEFINE R == {u \in DOMAIN M : M[u].parent = Top \/ M[u].parent \in Headings(tree)}
  <1>10. ASSUME NEW u \in R
         PROVE  M[u].parent = Top \/ M[u].parent \in R \cap Headings(M)
    <2> SUFFICES ASSUME M[u].parent # Top
                 PROVE  M[u].parent \in R \cap Headings(M)
      OBVIOUS
    <2> DEFINE h == M[u].parent
    <2>1. h \in Headings(tree)
      OBVIOUS
    <2> HIDE DEF h
    <2>2. h \in DOMAIN M /\ h \in DOMAIN tree /\ h \notin Added(prior, mine) /\ tree[h].kind = "heading"
      BY <2>1, <1>9 DEF Headings
    <2>3. M[h].kind = "heading" /\ M[h].parent = tree[h].parent
      BY <2>2, <1>8
    <2>4. tree[h].parent = Top \/ tree[h].parent \in Headings(tree)
      BY <2>2, <1>1 DEF Grown, WellFormed, Headings
    <2> QED BY <2>2, <2>3, <2>4 DEF Headings, h
  <1>11. R \subseteq Reached(M)
    <2>1. R \in SUBSET DOMAIN M
      OBVIOUS
    <2> HIDE DEF R
    <2> QED BY <2>1, <1>6, <1>10, AllReached
  <1> QED BY <1>2, <1>6, <1>7, <1>8, <1>9a, <1>11 DEF mine, M

(* What a flush writes, and does not delete.                                   *)
LEMMA FlushWrites ==
    ASSUME NEW n \in 0..MaxUnit, NEW d \in Seq(Block(n)), Stamps(d),
           NEW c, IsContent(c), DOMAIN c \subseteq 1..n
    PROVE  LET f == FlushToContent(d, c, n) IN
           /\ \A i \in Changed(d, c) : /\ SentId(d, c, n, i) \in DOMAIN f.upserts
                                       /\ f.upserts[SentId(d, c, n, i)] = FlushedAs(d, c, i)
           /\ \A u \in DOMAIN f.upserts : \E i \in Changed(d, c) : u = SentId(d, c, n, i)
           /\ \A i \in Sent(d, c) : d[i].id \in f.deletes => IsFlip(d[i], c)
  <1> DEFINE f    == FlushToContent(d, c, n)
             dels == {u \in DOMAIN c :
                        /\ c[u].kind # "heading"
                        /\ \A i \in Sent(d, c) : d[i].id # u \/ IsFlip(d[i], c)}
  <1>1. /\ \A u \in DOMAIN f.upserts : \E i \in Changed(d, c) : u = SentId(d, c, n, i)
        /\ \A i \in Changed(d, c) : /\ SentId(d, c, n, i) \in DOMAIN f.upserts
                                    /\ f.upserts[SentId(d, c, n, i)] = FlushedAs(d, c, i)
        /\ f.upserts = [u \in DOMAIN f.upserts |-> f.upserts[u]]
        /\ f.deletes = dels
    BY FlushIs
  <1> HIDE DEF f
  <1>2. \A i \in Sent(d, c) : d[i].id \in f.deletes => IsFlip(d[i], c)
    BY <1>1
  <1> QED BY <1>1, <1>2 DEF f

(* The lines of a block that the flush writes, or leaves as they are, are in   *)
(* the merge.                                                                  *)
LEMMA MineMerged ==
    ASSUME Sound, ~Clash(prior, tree, FlushToContent(doc, prior, minted)),
           minted + Flips(doc, prior) <= MaxUnit,
           NEW i \in 1..Len(doc),
           IsEdit(doc[i], prior) \/ Family(doc[i], prior) = Family(doc[i], tree),
           NEW x \in ToSet(doc[i].text),
           x \notin LinesAt(prior, {doc[i].id}) \/ x \in LinesAt(tree, {doc[i].id})
    PROVE  LET M == Merged(prior, tree, FlushToContent(doc, prior, minted)) IN
           \E u \in Reached(M) : x \in ToSet(M[u].text)
  <1> DEFINE mine == FlushToContent(doc, prior, minted)
             M    == Merged(prior, tree, mine)
             b    == doc[i]
             s    == SentId(doc, prior, minted, i)
  <1> SUFFICES \E u \in Reached(M) : x \in ToSet(M[u].text)
    OBVIOUS
  <1>1. /\ Editing /\ IsContent(prior) /\ DOMAIN prior \subseteq 1..minted
        /\ IsContent(tree) /\ WellFormed(tree)
    BY DEF Sound, Known, Grown
  <1>2. minted \in 0..MaxUnit /\ doc \in Seq(Block(minted)) /\ Stamps(doc) /\ b \in Block(minted)
    BY <1>1, ElementOfSeq DEF Editing
  <1>3. /\ \A j \in Changed(doc, prior) :
              /\ SentId(doc, prior, minted, j) \in DOMAIN mine.upserts
              /\ mine.upserts[SentId(doc, prior, minted, j)] = FlushedAs(doc, prior, j)
        /\ \A u \in DOMAIN mine.upserts :
              \E j \in Changed(doc, prior) : u = SentId(doc, prior, minted, j)
        /\ \A j \in Sent(doc, prior) : doc[j].id \in mine.deletes => IsFlip(doc[j], prior)
    BY <1>1, <1>2, FlushWrites
  <1>4. /\ DOMAIN M = (DOMAIN tree \ mine.deletes) \cup Added(prior, mine)
        /\ Added(prior, mine) \cap DOMAIN tree = {}
        /\ \A u \in DOMAIN M :
             /\ M[u].parent = IF u \in Added(prior, mine) THEN mine.upserts[u].parent
                              ELSE tree[u].parent
             /\ M[u].text = IF u \in DOMAIN mine.upserts THEN mine.upserts[u].text
                            ELSE tree[u].text
        /\ \A u \in DOMAIN M :
             M[u].parent = Top \/ M[u].parent \in Headings(tree) => u \in Reached(M)
        /\ DOMAIN mine.upserts \cap mine.deletes = {}
    BY MergeHomes
  <1>5. ~Clash(prior, tree, mine)
    OBVIOUS
  <1> HIDE DEF mine, M
  <1>6. \A u \in DOMAIN tree : tree[u].parent = Top \/ tree[u].parent \in Headings(tree)
    BY <1>1 DEF WellFormed, Headings
  <1>7. \A u \in DOMAIN tree : u \in DOMAIN M => u \in Reached(M)
    BY <1>4, <1>6
  <1>8. i \in Sent(doc, prior)
    <2> SUFFICES ASSUME SentKind(b, prior) = "none"
                 PROVE  FALSE
      BY DEF Sent
    <2>1. b.text = << >>
      BY DEF SentKind
    <2>2. ToSet(<< >>) = {}
      BY DEF ToSet
    <2> QED BY <2>1, <2>2
  <1>9. /\ s \in DOMAIN prior <=> IsEdit(b, prior)
        /\ IsEdit(b, prior) => s = b.id /\ ~IsFlip(b, prior)
    BY <1>1, <1>2, <1>8, SentAs
  <1>10. FlushedAs(doc, prior, i).text = b.text /\ FlushedAs(doc, prior, i).parent = Family(b, prior)
    BY <1>1, <1>2, <1>8, FlushedIs
  <1>11. CASE i \in Changed(doc, prior)
    <2>1. s \in DOMAIN mine.upserts /\ mine.upserts[s] = FlushedAs(doc, prior, i)
      BY <1>3, <1>11
    <2> HIDE DEF s
    <2>2. s \in DOMAIN M /\ x \in ToSet(M[s].text)
      <3>1. s \in DOMAIN M
        BY <2>1, <1>4, <1>5 DEF Clash, MyEdited, Added
      <3> QED BY <3>1, <2>1, <1>4, <1>10
    <2>3. CASE IsEdit(b, prior)
      <3>1. s \in DOMAIN tree
        BY <2>1, <2>3, <1>5, <1>9 DEF Clash, MyEdited
      <3> QED BY <3>1, <2>2, <1>7
    <2>4. CASE ~IsEdit(b, prior)
      <3>1. s \in Added(prior, mine)
        BY <2>1, <2>4, <1>9 DEF Added
      <3>2. M[s].parent = Family(b, tree)
        BY <3>1, <2>1, <2>2, <2>4, <1>4, <1>10
      <3>3. Family(b, tree) = Top \/ Family(b, tree) \in Headings(tree)
        <4>1. IsEdit(b, tree) => b.id \in DOMAIN tree /\ Family(b, tree) = tree[b.id].parent
          BY <1>1, <1>2, SentKinds
        <4>2. Family(b, tree) = Top \/ IsEdit(b, tree) \/ Family(b, tree) \in Headings(tree)
          BY <1>1, <1>2, SentKinds
        <4> QED BY <4>1, <4>2, <1>6
      <3> QED BY <3>2, <3>3, <2>2, <1>4
    <2> QED BY <2>3, <2>4
  <1>12. CASE i \notin Changed(doc, prior)
    <2>1. IsEdit(b, prior) /\ FlushedAs(doc, prior, i) = prior[b.id]
      BY <1>8, <1>12 DEF Changed
    <2>2. b.id \in DOMAIN prior /\ s = b.id /\ ~IsFlip(b, prior) /\ prior[b.id].text = b.text
      BY <2>1, <1>9, <1>10
    <2>3. x \in LinesAt(prior, {b.id})
      BY <2>2 DEF LinesAt
    <2>4. b.id \in DOMAIN tree /\ x \in ToSet(tree[b.id].text)
      BY <2>3 DEF LinesAt
    <2>5. b.id \notin mine.deletes
      BY <2>2, <1>3, <1>8
    <2>6. b.id \notin DOMAIN mine.upserts
      <3> SUFFICES ASSUME b.id \in DOMAIN mine.upserts
                   PROVE  FALSE
        OBVIOUS
      <3>1. PICK j \in Changed(doc, prior) : b.id = SentId(doc, prior, minted, j)
        BY <1>3
      <3>2. j \in Sent(doc, prior) /\ SentId(doc, prior, minted, j) = SentId(doc, prior, minted, i)
        BY <3>1, <2>2 DEF Changed
      <3>3. j = i
        BY <3>2, <1>1, <1>2, <1>8, SentIds
      <3> QED BY <3>1, <3>3, <1>12
    <2>7. b.id \in DOMAIN M /\ M[b.id].text = tree[b.id].text
      BY <2>4, <2>5, <2>6, <1>4
    <2> QED BY <2>4, <2>7, <1>7
  <1> QED BY <1>11, <1>12

(* What is new at the server is in the merge.                                  *)
LEMMA TheirsMerged ==
    ASSUME Sound, ~Clash(prior, tree, FlushToContent(doc, prior, minted)),
           minted + Flips(doc, prior) <= MaxUnit,
           NEW x \in LinesAt(tree, Unit) \ LinesAt(prior, Unit)
    PROVE  LET M == Merged(prior, tree, FlushToContent(doc, prior, minted)) IN
           \E u \in Reached(M) : x \in ToSet(M[u].text)
  <1> DEFINE mine == FlushToContent(doc, prior, minted)
             M    == Merged(prior, tree, mine)
  <1> SUFFICES \E u \in Reached(M) : x \in ToSet(M[u].text)
    OBVIOUS
  <1>1. /\ DOMAIN M = (DOMAIN tree \ mine.deletes) \cup Added(prior, mine)
        /\ Added(prior, mine) \cap DOMAIN tree = {}
        /\ \A u \in DOMAIN M :
             /\ M[u].parent = IF u \in Added(prior, mine) THEN mine.upserts[u].parent
                              ELSE tree[u].parent
             /\ M[u].text = IF u \in DOMAIN mine.upserts THEN mine.upserts[u].text
                            ELSE tree[u].text
        /\ \A u \in DOMAIN M :
             M[u].parent = Top \/ M[u].parent \in Headings(tree) => u \in Reached(M)
        /\ mine.deletes \subseteq DOMAIN prior
    BY MergeHomes
  <1>2. ~Clash(prior, tree, mine)
    OBVIOUS
  <1> HIDE DEF mine, M
  <1>3. PICK v \in DOMAIN tree : x \in ToSet(tree[v].text)
    BY DEF LinesAt
  <1>4. v \in DOMAIN prior => v \in ChangedOn(prior, tree)
    <2> SUFFICES ASSUME v \in DOMAIN prior
                 PROVE  v \in ChangedOn(prior, tree)
      OBVIOUS
    <2>1. v \in Unit
      BY DEF Sound, Known, IsContent
    <2>2. x \notin ToSet(prior[v].text)
      BY <2>1 DEF LinesAt
    <2> QED BY <2>2, <1>3 DEF ChangedOn
  <1>5. v \notin mine.deletes /\ v \notin DOMAIN mine.upserts
    BY <1>1, <1>2, <1>3, <1>4 DEF Clash, MyEdited
  <1>6. v \in DOMAIN M /\ M[v].text = tree[v].text /\ M[v].parent = tree[v].parent
    BY <1>1, <1>3, <1>5
  <1>7. tree[v].parent = Top \/ tree[v].parent \in Headings(tree)
    BY <1>3 DEF Sound, Grown, WellFormed, Headings
  <1> QED BY <1>1, <1>3, <1>6, <1>7

LEMMA MergeKeeps ==
    ASSUME Sound, ~Clash(prior, tree, FlushToContent(doc, prior, minted)),
           MergeOntoScreen(Merged(prior, tree, FlushToContent(doc, prior, minted)))
    PROVE  KeepsLines({b \in BlocksOf(doc) :
                IsEdit(b, prior) \/ Family(b, prior) = Family(b, tree)})
  <1> DEFINE M    == Merged(prior, tree, FlushToContent(doc, prior, minted))
             n    == minted + Flips(doc, prior)
             keep == StructuralIntents(doc, prior)
             o    == Overlaid(ProjectToDoc(M), keep)
  <1>1. n <= MaxUnit /\ n + Unstamped(o) <= MaxUnit /\ doc' = Settled(o, n)
    BY DEF MergeOntoScreen
  <1>2. n \in 0..MaxUnit /\ IsContent(M) /\ Acyclic(M) /\ Apart(M) /\ DOMAIN M \subseteq 1..n
    BY <1>1, MergeMerges
  <1>3. keep \in SUBSET Block(minted) /\ DOMAIN doc = 1..Len(doc)
    <2>1. \A i \in DOMAIN doc : doc[i] \in Block(minted)
      BY LenProperties, ElementOfSeq DEF Sound, Editing
    <2>2. BlocksOf(doc) \subseteq Block(minted)
      BY <2>1 DEF BlocksOf, ToSet
    <2>3. DOMAIN doc = 1..Len(doc)
      BY LenProperties DEF Sound, Editing
    <2> QED BY <2>2, <2>3 DEF StructuralIntents
  <1>4. \A u \in Reached(M) : ToSet(M[u].text) \subseteq LinesIn(BlocksOf(doc'))
    <2> HIDE DEF M, n, keep
    <2> QED BY <1>1, <1>2, <1>3, OnScreen
  <1>5. ASSUME NEW b \in BlocksOf(doc),
               IsEdit(b, prior) \/ Family(b, prior) = Family(b, tree),
               NEW x \in ToSet(b.text) \ (LinesAt(prior, {b.id}) \ LinesAt(tree, {b.id}))
        PROVE  x \in LinesIn(BlocksOf(doc'))
    <2>1. PICK i \in 1..Len(doc) : b = doc[i]
      BY <1>3 DEF BlocksOf, ToSet
    <2>2. \E u \in Reached(M) : x \in ToSet(M[u].text)
      BY <1>1, <1>5, <2>1, MineMerged
    <2> QED BY <2>2, <1>4
  <1>6. ASSUME NEW x \in LinesAt(tree, Unit) \ LinesAt(prior, Unit)
        PROVE  x \in LinesIn(BlocksOf(doc'))
    <2>1. \E u \in Reached(M) : x \in ToSet(M[u].text)
      BY <1>1, <1>6, TheirsMerged
    <2> QED BY <2>1, <1>4
  <1> QED BY <1>5, <1>6 DEF KeepsLines

(* A merge, of a refused save or of a refused operation, keeps every line the  *)
(* user has on the screen, those typed since the request included, and brings  *)
(* every line of the other device; but for new blocks whose section the other  *)
(* device has dissolved (planMerge, merge.ts; runMerge, drainStructure).       *)
THEOREM OutlineMergeKeepsWords == Spec => MergeKeepsHomedWords
  <1> DEFINE Keeping == Merging => KeepsLines({b \in BlocksOf(doc) :
                        IsEdit(b, prior) \/ Family(b, prior) = Family(b, tree)})
  <1>1. Sound /\ [Next]_vars => [Keeping]_vars
    <2> SUFFICES ASSUME Sound, [Next]_vars, Merging
                 PROVE  KeepsLines({b \in BlocksOf(doc) :
                            IsEdit(b, prior) \/ Family(b, prior) = Family(b, tree)})
      OBVIOUS
    <2>1. sync.pc \in {"get", "op get"} /\ doc' # doc /\ gestures' = gestures
      BY DEF Merging
    <2>2. ~Gesture
      <3>1. gestures \in Nat
        BY DEF Sound, Editing
      <3>2. \A new : Edit(new) => gestures' = gestures + 1
        BY DEF Edit
      <3>3. gestures' # gestures + 1
        <4>1. \A k \in Nat : k # k + 1
          OBVIOUS
        <4>2. gestures # gestures + 1
          BY <3>1, <4>1
        <4> QED BY <2>1, <4>2
      <3>4. \A new : ~Edit(new)
        BY <3>2, <3>3, Zenon
      <3> QED BY <3>4 DEF Gesture, TypeText, BreakLine, CueHeading, CueDisplay, EditHashes, Enter,
            Paste, Tab, Backspace, Delete, DeleteSelection, MoveBlock
    <2>3. Merge \/ OpMerge
      BY <2>1, <2>2 DEF Next, Sync, FlushNothing, FlushSave, FlushStructure, SaveAccepted,
         SaveRefused, editor, MergeRefused, Conflict, OpAccepted, OpRefused, OpSave, Fail,
         OtherDevice, vars
    <2>4. /\ ~Clash(prior, tree, FlushToContent(doc, prior, minted))
          /\ MergeOntoScreen(Merged(prior, tree, FlushToContent(doc, prior, minted)))
      BY <2>1, <2>3 DEF Merge, OpMerge, Conflict
    <2> QED BY <2>4, MergeKeeps
  <1> QED BY <1>1, SoundStarts, SoundSteps, PTL DEF Spec, MergeKeepsHomedWords

--------------------------------------------------------------------------------
(* What is on the screen: the blocks of a section follow its heading, and when *)
(* the indicator says that everything is saved, they are what the walk of the  *)
(* stored tree shows, in its order.                                            *)

(* The order of the blocks.                                                    *)

(* The heading of a block's section comes before it, and all that is between   *)
(* is in sections that start no earlier than that heading.                     *)
Nested(d) ==
    \A j \in 1..Len(d) : d[j].parent # Top =>
        \E h \in 1..(j - 1) :
            /\ d[h].heading /\ d[h].id = d[j].parent
            /\ \A k \in (h + 1)..(j - 1) :
                \E g \in h..(k - 1) : d[g].heading /\ d[k].parent = d[g].id

(* Every stored unit is on the screen as it is stored, at its place.           *)
Mirrors(d, c) ==
    \A u \in DOMAIN c : \E i \in Sent(d, c) :
        /\ d[i].id = u /\ IsEdit(d[i], c)
        /\ d[i].parent = c[u].parent /\ d[i].text = c[u].text
        /\ d[i].heading <=> c[u].kind = "heading"
        /\ c[u].pos = Slot(d, c, i)

LEMMA WholeWalk ==
    ASSUME NEW c, IsContent(c), WellFormed(c), Acyclic(c)
    PROVE  Reached(c) = DOMAIN c
  <1>1. \A u \in DOMAIN c : c[u].parent = Top \/ c[u].parent \in DOMAIN c \cap Headings(c)
    BY DEF WellFormed, Headings
  <1>2. DOMAIN c \subseteq Reached(c)
    BY <1>1, AllReached
  <1> QED BY <1>2 DEF Reached

LEMMA PrecedesOnce ==
    ASSUME NEW c, IsContent(c), Acyclic(c), NEW u \in DOMAIN c, NEW v \in DOMAIN c,
           Precedes(c, u, v)
    PROVE  ~Precedes(c, v, u) /\ u # v
  BY PrecedesTransitive, PrecedesOthers

(* Where the blocks are nested and show every unit at its place, the units are *)
(* in the order of the walk.                                                   *)
LEMMA MirrorsInOrder ==
    ASSUME NEW n \in 0..MaxUnit, NEW d \in Seq(Block(n)), Stamps(d), Nested(d),
           NEW c, IsContent(c), WellFormed(c), Acyclic(c), DOMAIN c \subseteq 1..n,
           Mirrors(d, c),
           NEW i \in 1..Len(d), NEW j \in 1..Len(d), i < j,
           d[i].id \in DOMAIN c, d[j].id \in DOMAIN c
    PROVE  Precedes(c, d[i].id, d[j].id)
  <1> DEFINE at == [u \in DOMAIN c |-> CHOOSE k \in 1..Len(d) : d[k].id = u]
             Inside(k, h) == \E g \in h..(k - 1) : d[g].heading /\ d[k].parent = d[g].id
  <1>1. DOMAIN d = 1..Len(d) /\ Len(d) \in Nat
    BY LenProperties
  <1>2. \A k, l \in 1..Len(d) : d[k].id = d[l].id => k = l
    BY <1>1 DEF Stamps
  <1>3. \A u \in DOMAIN c : at[u] \in 1..Len(d) /\ d[at[u]].id = u
    <2> TAKE u \in DOMAIN c
    <2>1. \E k \in 1..Len(d) : d[k].id = u
      BY DEF Mirrors, Sent
    <2> QED BY <2>1
  <1> HIDE DEF at
  <1>4. \A k \in 1..Len(d) : d[k].id \in DOMAIN c => at[d[k].id] = k
    BY <1>2, <1>3
  <1>5. \A u \in DOMAIN c :
            /\ at[u] \in Sent(d, c) /\ d[at[u]].parent = c[u].parent
            /\ Family(d[at[u]], c) = c[u].parent /\ c[u].pos = Slot(d, c, at[u])
    <2> TAKE u \in DOMAIN c
    <2>1. PICK k \in Sent(d, c) : /\ d[k].id = u /\ IsEdit(d[k], c)
                                  /\ d[k].parent = c[u].parent /\ c[u].pos = Slot(d, c, k)
      BY DEF Mirrors
    <2>2. k \in 1..Len(d) /\ k = at[u]
      BY <2>1, <1>4 DEF Sent
    <2>3. d[k] \in Block(n)
      BY <2>2, ElementOfSeq
    <2>4. Family(d[k], c) = c[u].parent
      BY <2>1, <2>3, SentKinds
    <2> QED BY <2>1, <2>2, <2>4
  <1>6. \A u \in DOMAIN c : c[u].parent # Top =>
            /\ c[u].parent \in DOMAIN c /\ at[c[u].parent] < at[u]
            /\ Inside(at[u], at[c[u].parent])
            /\ \A k \in (at[c[u].parent] + 1)..(at[u] - 1) : Inside(k, at[c[u].parent])
    <2> TAKE u \in DOMAIN c
    <2> HAVE c[u].parent # Top
    <2>1. c[u].parent \in DOMAIN c
      BY DEF WellFormed
    <2>2. at[u] \in 1..Len(d) /\ d[at[u]].parent = c[u].parent
      BY <1>3, <1>5
    <2>3. PICK h \in 1..(at[u] - 1) :
                /\ d[h].heading /\ d[h].id = d[at[u]].parent
                /\ \A k \in (h + 1)..(at[u] - 1) : Inside(k, h)
      BY <2>2 DEF Nested
    <2>4. h = at[c[u].parent] /\ h < at[u] /\ h \in h..(at[u] - 1)
      BY <1>1, <1>4, <2>1, <2>2, <2>3
    <2>5. Inside(at[u], h)
      BY <2>2, <2>3, <2>4
    <2> HIDE DEF Inside
    <2> QED BY <2>1, <2>3, <2>4, <2>5
  <1>7. ASSUME NEW u \in DOMAIN c, NEW v \in Above(c, u)
        PROVE  at[v] < at[u] /\ \A k \in (at[v] + 1)..at[u] : Inside(k, at[v])
    <2> DEFINE S == {h \in Above(c, u) :
                        at[h] < at[u] /\ \A k \in (at[h] + 1)..at[u] : Inside(k, at[h])}
    <2>0. Above(c, u) \subseteq Headings(c) /\ Headings(c) \subseteq DOMAIN c
      BY AboveClosed DEF Headings
    <2>1. S \in SUBSET Headings(c)
      BY <2>0
    <2>2. ASSUME NEW h \in S \cup {u}, c[h].parent \in Headings(c)
          PROVE  c[h].parent \in S
      <3> DEFINE p == c[h].parent
      <3>1. p \in Above(c, u)
        BY <2>2, AboveClosed DEF Lineage
      <3>2. h \in DOMAIN c /\ p # Top /\ p \in DOMAIN c
        <4>1. h \in DOMAIN c /\ p \in DOMAIN c
          BY <2>0, <2>2
        <4> QED BY <4>1, TreeAssumption DEF IsContent
      <3>3. /\ at[p] < at[h] /\ Inside(at[h], at[p])
            /\ \A k \in (at[p] + 1)..(at[h] - 1) : Inside(k, at[p])
        BY <1>6, <3>2
      <3>4. at[h] \in Nat /\ at[p] \in Nat /\ at[u] \in Nat
        BY <1>3, <3>2
      <3>5. at[h] <= at[u] /\ \A k \in (at[h] + 1)..at[u] : Inside(k, at[p])
        <4>1. CASE h = u
          BY <4>1, <3>4
        <4>2. CASE h # u
          <5>1. at[h] < at[u] /\ \A k \in (at[h] + 1)..at[u] : Inside(k, at[h])
            BY <4>2, <2>2
          <5>2. \A k \in (at[h] + 1)..at[u] : Inside(k, at[p])
            <6> TAKE k \in (at[h] + 1)..at[u]
            <6>1. PICK g \in at[h]..(k - 1) : d[g].heading /\ d[k].parent = d[g].id
              BY <5>1
            <6>2. at[p] < at[h] /\ g \in at[h]..(k - 1)
              BY <3>3
            <6> HIDE DEF p
            <6>3. g \in at[p]..(k - 1)
              BY <6>2, <3>4
            <6> QED BY <6>1, <6>3
          <5> QED BY <5>1, <5>2, <3>4
        <4> QED BY <4>1, <4>2
      <3> HIDE DEF Inside
      <3>6. \A k \in (at[p] + 1)..at[u] : Inside(k, at[p])
        <4> TAKE k \in (at[p] + 1)..at[u]
        <4>1. k \in (at[p] + 1)..(at[h] - 1) \/ k = at[h] \/ k \in (at[h] + 1)..at[u]
          BY <3>4
        <4> QED BY <4>1, <3>3, <3>5
      <3>7. at[p] < at[u]
        BY <3>3, <3>4, <3>5
      <3> HIDE DEF p
      <3>8. p \in S
        BY <3>1, <3>6, <3>7
      <3> QED BY <3>8 DEF p
    <2>3. Above(c, u) \subseteq S
      BY <2>1, <2>2, AboveLeast
    <2> QED BY <2>3
  <1> DEFINE a == d[i].id
             b == d[j].id
  <1>8. at[a] = i /\ at[b] = j
    BY <1>4
  <1> HIDE DEF Inside, a, b
  <1>8a. a \in DOMAIN c /\ b \in DOMAIN c /\ a # b
    BY <1>2 DEF a, b
  <1>9. ASSUME Precedes(c, b, a)
        PROVE  FALSE
    <2>1. CASE b \in Above(c, a)
      <3>1. at[b] < at[a]
        BY <2>1, <1>7, <1>8a
      <3> QED BY <3>1, <1>8
    <2>2. ASSUME NEW x \in Lineage(c, b), NEW y \in Lineage(c, a),
                 c[x].parent = c[y].parent, c[x].pos < c[y].pos
          PROVE  FALSE
      <3>1. x \in DOMAIN c /\ y \in DOMAIN c
        BY <1>8a, LineageInContent
      <3>2. at[x] \in 1..Len(d) /\ at[y] \in 1..Len(d)
        BY <3>1, <1>3
      <3>3. at[x] < at[y]
        <4>1. ~(at[y] < at[x])
          <5>1. at[y] < at[x] => Slot(d, c, at[y]) < Slot(d, c, at[x])
            BY <1>5, <2>2, <3>1, SlotIs
          <5>2. Slot(d, c, at[y]) \in Nat /\ Slot(d, c, at[x]) \in Nat
            BY <3>2, SlotIs
          <5> QED BY <5>1, <5>2, <1>5, <2>2, <3>1
        <4>2. at[x] # at[y]
          <5>1. at[x] = at[y] => x = y
            BY <1>3, <3>1
          <5>2. c[x].pos \in Nat
            BY <3>1 DEF IsContent, UnitRecord
          <5> QED BY <5>1, <5>2, <2>2
        <4> QED BY <4>1, <4>2, <3>2
      <3>4. at[y] <= i
        BY <1>7, <1>8, <1>8a, <3>2 DEF Lineage
      <3>5. x \in Above(c, b)
        BY <3>2, <3>3, <3>4, <1>8 DEF Lineage
      <3>6. \A k \in (at[x] + 1)..j : Inside(k, at[x])
        BY <3>5, <1>7, <1>8, <1>8a
      <3>7. at[y] \in (at[x] + 1)..j
        BY <3>2, <3>3, <3>4
      <3>8. PICK g \in at[x]..(at[y] - 1) : d[g].heading /\ d[at[y]].parent = d[g].id
        BY <3>6, <3>7 DEF Inside
      <3>9. g \in 1..Len(d) /\ d[g].id = c[x].parent
        BY <1>5, <2>2, <3>1, <3>2, <3>8
      <3>10. c[x].parent # Top
        <4>1. d[g] \in Block(n)
          BY <3>9, ElementOfSeq
        <4>2. d[g].id # NoUnit
          <5>1. d[g].id = NoUnit => d[g] = LineText
            BY <1>1, <3>9 DEF Stamps
          <5> QED BY <5>1, <3>8 DEF LineText
        <4>3. d[g].id \in Unit
          BY <4>1, <4>2, IdsAreUnits DEF Block
        <4> QED BY <4>3, <3>9, TreeAssumption
      <3>11. c[x].parent \in DOMAIN c /\ at[c[x].parent] < at[x]
        BY <3>1, <3>10, <1>6
      <3>12. at[c[x].parent] = g
        BY <3>9, <3>11, <1>4
      <3> QED BY <3>2, <3>8, <3>11, <3>12
    <2> QED BY <1>9, <2>1, <2>2 DEF Precedes
  <1>10. a \in Reached(c) /\ b \in Reached(c)
    BY <1>8a, WholeWalk
  <1>11. Precedes(c, a, b)
    <2>1. Apart(c)
      BY DEF Apart, WellFormed
    <2> QED BY <2>1, <1>8a, <1>9, <1>10, PrecedesTotal
  <1> QED BY <1>11 DEF a, b

(* The first M of s are the units in the order of the walk.                    *)
Listing(c, s, M) ==
    /\ M \in Nat
    /\ \A k \in 1..M : s[k] \in DOMAIN c
    /\ \A u \in DOMAIN c : \E k \in 1..M : s[k] = u
    /\ \A k, l \in 1..M : k < l => Precedes(c, s[k], s[l])

(* There is one way to list them so.                                           *)
LEMMA OneListing ==
    ASSUME NEW c, IsContent(c), Acyclic(c), NEW s, NEW M, NEW t, NEW N,
           Listing(c, s, M), Listing(c, t, N)
    PROVE  M = N /\ \A k \in 1..M : s[k] = t[k]
  <1>0. /\ M \in Nat
        /\ \A k \in 1..M : s[k] \in DOMAIN c
        /\ \A u \in DOMAIN c : \E k \in 1..M : s[k] = u
        /\ \A k, l \in 1..M : k < l => Precedes(c, s[k], s[l])
        /\ N \in Nat
        /\ \A k \in 1..N : t[k] \in DOMAIN c
        /\ \A u \in DOMAIN c : \E k \in 1..N : t[k] = u
        /\ \A k, l \in 1..N : k < l => Precedes(c, t[k], t[l])
    BY DEF Listing
  <1>1. \A u, v \in DOMAIN c : Precedes(c, u, v) => ~Precedes(c, v, u) /\ u # v
    BY PrecedesOnce
  <1>2. /\ \A k, l \in 1..M : k < l => s[k] # s[l] /\ ~Precedes(c, s[l], s[k])
        /\ \A k, l \in 1..N : k < l => t[k] # t[l] /\ ~Precedes(c, t[l], t[k])
    BY <1>0, <1>1
  <1>3. \A k \in 1..M : k \in 1..N /\ s[k] = t[k]
    <2> DEFINE D == {k \in 1..M : ~(k \in 1..N /\ s[k] = t[k])}
    <2> SUFFICES ASSUME D # {}
                 PROVE  FALSE
      OBVIOUS
    <2>1. PICK k \in D : \A l \in D : k <= l
      <3>1. D \subseteq 0..M /\ M \in Nat
        BY <1>0
      <3> HIDE DEF D
      <3>2. \E x \in D : \A y \in D : x <= y
        BY <3>1, LeastIs
      <3> QED BY <3>2
    <2>2. k \in 1..M /\ \A l \in 1..M : l < k => l \in 1..N /\ s[l] = t[l]
      BY <2>1
    <2>3. PICK m \in 1..N : t[m] = s[k]
      BY <2>2, <1>0
    <2>4. k < m
      <3>1. m # k
        BY <2>1, <2>3
      <3>2. ~(m < k)
        <4>0. m < k => m \in 1..M
          BY <2>2, <1>0
        <4>1. m < k => m \in 1..M /\ s[m] = t[m]
          BY <4>0, <2>2
        <4> QED BY <4>1, <2>2, <2>3, <1>2
      <3> QED BY <2>2, <3>1, <3>2
    <2>5. k \in 1..N
      BY <2>2, <2>4, <1>0
    <2>6. PICK l \in 1..M : s[l] = t[k]
      BY <2>5, <1>0
    <2>7. k < l
      <3>1. l # k
        BY <2>1, <2>5, <2>6
      <3>2. ~(l < k)
        <4>1. l < k => l \in 1..N /\ s[l] = t[l]
          BY <2>2
        <4> QED BY <4>1, <2>5, <2>6, <1>2
      <3> QED BY <2>2, <3>1, <3>2
    <2>8. Precedes(c, s[k], s[l]) /\ Precedes(c, t[k], t[m])
      BY <2>2, <2>4, <2>5, <2>7, <1>0
    <2>9. s[k] \in DOMAIN c /\ s[l] \in DOMAIN c
      BY <2>2, <1>0
    <2> QED BY <2>3, <2>6, <2>8, <2>9, <1>1
  <1>4. M <= N
    BY <1>0, <1>3
  <1>5. ~(M < N)
    <2> SUFFICES ASSUME M < N
                 PROVE  FALSE
      OBVIOUS
    <2>1. M + 1 \in 1..N
      BY <1>0
    <2>2. PICK l \in 1..M : s[l] = t[M + 1]
      BY <2>1, <1>0
    <2>3. l \in 1..N /\ l < M + 1 /\ t[l] = t[M + 1]
      BY <1>0, <1>3, <2>2
    <2> QED BY <2>1, <2>3, <1>2
  <1> QED BY <1>0, <1>3, <1>4, <1>5

--------------------------------------------------------------------------------
(* What a reader of the screen sees of the stored units.                       *)

(* Every unit is shown, with its section and text, in the order of the walk.   *)
Faces(d, c) ==
    /\ \A u \in DOMAIN c : \E i \in 1..Len(d) : d[i].id = u
    /\ \A i \in 1..Len(d) : d[i].id \in DOMAIN c =>
            /\ d[i].parent = c[d[i].id].parent /\ d[i].text = c[d[i].id].text
            /\ d[i].heading = (c[d[i].id].kind = "heading")
    /\ \A i, j \in 1..Len(d) :
            i < j /\ d[i].id \in DOMAIN c /\ d[j].id \in DOMAIN c
                => Precedes(c, d[i].id, d[j].id)

(* The places of the stored blocks.                                            *)
StoredAt(d) == {i \in DOMAIN d : d[i].id \in DOMAIN prior}

Facets(b) == [id |-> b.id, parent |-> b.parent, heading |-> b.heading, text |-> b.text]

LEMMA StoredListed ==
    ASSUME NEW n, NEW d \in Seq(Block(n)), Faces(d, prior)
    PROVE  LET s == Ascending(StoredAt(d))
               M == Cardinality(StoredAt(d))
           IN  /\ M \in Nat
               /\ Outlook(d) = [k \in 1..M |-> Facets(d[s[k]])]
               /\ \A k \in 1..M : s[k] \in 1..Len(d) /\ d[s[k]].id \in DOMAIN prior
               /\ \A u \in DOMAIN prior : \E k \in 1..M : d[s[k]].id = u
               /\ \A k, l \in 1..M : k < l => Precedes(prior, d[s[k]].id, d[s[l]].id)
  <1> DEFINE S == StoredAt(d)
             s == Ascending(S)
             M == Cardinality(S)
  <1>1. DOMAIN d = 1..Len(d) /\ Len(d) \in Nat
    BY LenProperties
  <1>2. S \subseteq 0..Len(d) /\ \A i \in S : i \in 1..Len(d) /\ d[i].id \in DOMAIN prior
    BY <1>1 DEF StoredAt
  <1>3. \A i \in 1..Len(d) : d[i].id \in DOMAIN prior => i \in S
    BY <1>1 DEF StoredAt
  <1>4. Outlook(d) = [k \in DOMAIN s |-> Facets(d[s[k]])]
    BY DEF Outlook, StoredAt, Facets
  <1> HIDE DEF S
  <1>5. /\ M \in Nat /\ s \in Seq(S) /\ Len(s) = M
        /\ \A x \in S : \E k \in 1..M : s[k] = x
        /\ \A k, l \in 1..M : k < l => s[k] < s[l]
    BY <1>1, <1>2, AscendingLists
  <1> HIDE DEF s, M
  <1>6. DOMAIN s = 1..M
    BY <1>5, LenProperties
  <1>7. \A k \in 1..M : s[k] \in S
    BY <1>5, ElementOfSeq
  <1>8. \A u \in DOMAIN prior : \E k \in 1..M : d[s[k]].id = u
    <2> TAKE u \in DOMAIN prior
    <2>1. PICK i \in 1..Len(d) : d[i].id = u
      BY DEF Faces
    <2>2. PICK k \in 1..M : s[k] = i
      BY <2>1, <1>3, <1>5
    <2> QED BY <2>1, <2>2
  <1>9. ASSUME NEW k \in 1..M, NEW l \in 1..M, k < l
        PROVE  Precedes(prior, d[s[k]].id, d[s[l]].id)
    <2>1. s[k] < s[l]
      BY <1>5, <1>9
    <2>2. /\ s[k] \in 1..Len(d) /\ d[s[k]].id \in DOMAIN prior
          /\ s[l] \in 1..Len(d) /\ d[s[l]].id \in DOMAIN prior
      BY <1>2, <1>7
    <2> QED BY <2>1, <2>2 DEF Faces
  <1> QED BY <1>2, <1>4, <1>5, <1>6, <1>7, <1>8, <1>9 DEF S, s, M

(* Two documents that show the stored units alike look the same.               *)
LEMMA OneOutlook ==
    ASSUME IsContent(prior), Acyclic(prior),
           NEW n, NEW d \in Seq(Block(n)), Faces(d, prior),
           NEW m, NEW e \in Seq(Block(m)), Faces(e, prior)
    PROVE  Outlook(d) = Outlook(e)
  <1> DEFINE s == Ascending(StoredAt(d))
             t == Ascending(StoredAt(e))
             M == Cardinality(StoredAt(d))
             N == Cardinality(StoredAt(e))
             u(k) == d[s[k]].id
             v(k) == e[t[k]].id
  <1>1. /\ M \in Nat
        /\ Outlook(d) = [k \in 1..M |-> Facets(d[s[k]])]
        /\ \A k \in 1..M : s[k] \in 1..Len(d) /\ u(k) \in DOMAIN prior
        /\ \A x \in DOMAIN prior : \E k \in 1..M : u(k) = x
        /\ \A k, l \in 1..M : k < l => Precedes(prior, u(k), u(l))
    BY StoredListed
  <1>2. /\ N \in Nat
        /\ Outlook(e) = [k \in 1..N |-> Facets(e[t[k]])]
        /\ \A k \in 1..N : t[k] \in 1..Len(e) /\ v(k) \in DOMAIN prior
        /\ \A x \in DOMAIN prior : \E k \in 1..N : v(k) = x
        /\ \A k, l \in 1..N : k < l => Precedes(prior, v(k), v(l))
    BY StoredListed
  <1> HIDE DEF s, t, M, N
  <1>3. M = N /\ \A k \in 1..M : u(k) = v(k)
    <2> DEFINE us == [k \in 1..M |-> u(k)]
               vs == [k \in 1..N |-> v(k)]
    <2> HIDE DEF u, v
    <2>1. Listing(prior, us, M)
      BY <1>1 DEF Listing
    <2>2. Listing(prior, vs, N)
      BY <1>2 DEF Listing
    <2> HIDE DEF us, vs
    <2>3. M = N /\ \A k \in 1..M : us[k] = vs[k]
      BY <2>1, <2>2, OneListing
    <2> QED BY <2>3 DEF us, vs
  <1>4. ASSUME NEW k \in 1..M
        PROVE  Facets(d[s[k]]) = Facets(e[t[k]])
    <2>1. /\ s[k] \in 1..Len(d) /\ d[s[k]].id \in DOMAIN prior
          /\ t[k] \in 1..Len(e) /\ e[t[k]].id = d[s[k]].id
      BY <1>1, <1>2, <1>3
    <2>2. /\ d[s[k]].parent = prior[d[s[k]].id].parent /\ d[s[k]].text = prior[d[s[k]].id].text
          /\ d[s[k]].heading = (prior[d[s[k]].id].kind = "heading")
      BY <2>1 DEF Faces
    <2>3. /\ e[t[k]].parent = prior[d[s[k]].id].parent /\ e[t[k]].text = prior[d[s[k]].id].text
          /\ e[t[k]].heading = (prior[d[s[k]].id].kind = "heading")
      BY <2>1 DEF Faces
    <2> QED BY <2>1, <2>2, <2>3 DEF Facets
  <1> HIDE DEF u, v
  <1> QED BY <1>1, <1>2, <1>3, <1>4

LEMMA MirrorsFaces ==
    ASSUME NEW n \in 0..MaxUnit, NEW d \in Seq(Block(n)), Stamps(d), Nested(d),
           NEW c, IsContent(c), WellFormed(c), Acyclic(c), DOMAIN c \subseteq 1..n,
           Mirrors(d, c)
    PROVE  Faces(d, c)
  <1>1. \A u \in DOMAIN c : \E i \in 1..Len(d) : d[i].id = u
    BY DEF Mirrors, Sent
  <1>2. ASSUME NEW i \in 1..Len(d), d[i].id \in DOMAIN c
        PROVE  /\ d[i].parent = c[d[i].id].parent /\ d[i].text = c[d[i].id].text
               /\ d[i].heading = (c[d[i].id].kind = "heading")
    <2>1. PICK k \in Sent(d, c) :
                /\ d[k].id = d[i].id
                /\ d[k].parent = c[d[i].id].parent /\ d[k].text = c[d[i].id].text
                /\ d[k].heading <=> c[d[i].id].kind = "heading"
      BY <1>2 DEF Mirrors
    <2>2. k \in 1..Len(d) /\ DOMAIN d = 1..Len(d)
      BY LenProperties DEF Sent
    <2>3. k = i
      BY <2>1, <2>2 DEF Stamps
    <2>4. d[i].heading \in BOOLEAN
      <3>1. d[i] \in Block(n)
        BY ElementOfSeq
      <3> QED BY <3>1 DEF Block
    <2> QED BY <2>1, <2>3, <2>4
  <1>3. \A i, j \in 1..Len(d) :
            i < j /\ d[i].id \in DOMAIN c /\ d[j].id \in DOMAIN c
                => Precedes(c, d[i].id, d[j].id)
    BY MirrorsInOrder
  <1> QED BY <1>1, <1>2, <1>3 DEF Faces

(* A content that comes on the screen shows its units so.                      *)
LEMMA ProjectFaces ==
    ASSUME NEW n \in 0..MaxUnit, NEW c, IsContent(c), WellFormed(c), Acyclic(c),
           DOMAIN c \subseteq 1..n
    PROVE  /\ Faces(ProjectToDoc(c), c)
           /\ \A b \in BlocksOf(ProjectToDoc(c)) : b.id \notin DOMAIN c => b = LineText
  <1> DEFINE P == ProjectToDoc(c)
             w == Walk(c)
  <1>0. Apart(c)
    BY DEF Apart, WellFormed
  <1>1. /\ P \in Seq(Block(n)) /\ Len(w) \in Nat /\ Len(P) \in {Len(w), Len(w) + 1}
        /\ \A k \in 1..Len(w) : w[k] \in DOMAIN c /\ P[k] = Shown(c, w[k])
        /\ Len(P) = Len(w) + 1 => P[Len(P)] = LineText
    BY <1>0, ProjectShows
  <1>2. /\ \A u \in DOMAIN c : \E k \in 1..Len(w) : w[k] = u
        /\ \A j, k \in 1..Len(w) : j < k => Precedes(c, w[j], w[k])
    BY <1>0, WalkLists, WholeWalk
  <1> HIDE DEF P, w
  <1>3. \A k \in 1..Len(w) :
            /\ k \in 1..Len(P) /\ P[k].id = w[k]
            /\ P[k].parent = c[w[k]].parent /\ P[k].text = c[w[k]].text
            /\ P[k].heading = (c[w[k]].kind = "heading")
    <2> TAKE k \in 1..Len(w)
    <2>1. k \in 1..Len(P)
      BY <1>1
    <2>2. P[k] = Shown(c, w[k]) /\ w[k] \in DOMAIN c
      BY <1>1
    <2>3. /\ P[k].id = w[k] /\ P[k].parent = c[w[k]].parent /\ P[k].text = c[w[k]].text
          /\ P[k].heading <=> c[w[k]].kind = "heading"
      BY <2>2, ShownIs
    <2>4. P[k].heading \in BOOLEAN
      <3>1. P[k] \in Block(n)
        BY <1>1, <2>1, ElementOfSeq
      <3> QED BY <3>1 DEF Block
    <2> QED BY <2>1, <2>3, <2>4
  <1>4. \A i \in 1..Len(P) : P[i].id \in DOMAIN c => i \in 1..Len(w)
    <2> TAKE i \in 1..Len(P)
    <2>1. i \notin 1..Len(w) => P[i] = LineText
      BY <1>1
    <2>2. LineText.id \notin DOMAIN c
      BY IdsAreUnits DEF LineText
    <2> QED BY <2>1, <2>2
  <1>5. \A i \in 1..Len(P) : P[i].id \notin DOMAIN c => P[i] = LineText
    <2> TAKE i \in 1..Len(P)
    <2>1. i \notin 1..Len(w) => P[i] = LineText
      BY <1>1
    <2>2. i \in 1..Len(w) => P[i].id \in DOMAIN c
      BY <1>1, <1>3
    <2> QED BY <2>1, <2>2
  <1>6. Faces(P, c)
    <2>1. \A u \in DOMAIN c : \E i \in 1..Len(P) : P[i].id = u
      BY <1>2, <1>3
    <2>2. \A i \in 1..Len(P) : P[i].id \in DOMAIN c =>
            /\ P[i].parent = c[P[i].id].parent /\ P[i].text = c[P[i].id].text
            /\ P[i].heading = (c[P[i].id].kind = "heading")
      BY <1>3, <1>4
    <2>3. \A i, j \in 1..Len(P) :
            i < j /\ P[i].id \in DOMAIN c /\ P[j].id \in DOMAIN c
                => Precedes(c, P[i].id, P[j].id)
      BY <1>2, <1>3, <1>4
    <2> QED BY <2>1, <2>2, <2>3 DEF Faces
  <1>7. \A b \in BlocksOf(P) : b.id \notin DOMAIN c => b = LineText
    <2>1. DOMAIN P = 1..Len(P)
      BY <1>1, LenProperties
    <2> QED BY <2>1, <1>5 DEF BlocksOf, ToSet
  <1> QED BY <1>6, <1>7 DEF P

--------------------------------------------------------------------------------
(* Nothing left to send: what is on the screen is what is stored.              *)

(* Blocks with ids among the first n, of which the ids in C are of notation    *)
(* homes: those are in no section.                                             *)
Plain(n, C) ==
    {b \in Block(n) :
        /\ b.config <=> b.id \in C
        /\ b.config => b.parent = Top /\ ~b.heading}

HomesOf(c, C) ==
    \A u \in DOMAIN c :
        /\ c[u].kind = "config" <=> u \in C
        /\ u \in C => c[u].parent = Top

(* The headings of a content have their blocks, and none is an equation.       *)
HeadsOn(d, c) == \A u \in Headings(c) : \E b \in BlocksOf(d) : b.id = u /\ ~IsDisplay(b)

LEMMA SavedIsShown ==
    ASSUME NEW n \in 0..MaxUnit, NEW C, NEW d \in Seq(Plain(n, C)), Stamps(d),
           NEW c, IsContent(c), DOMAIN c \subseteq 1..n, HomesOf(c, C), HeadsOn(d, c),
           NoDelta(FlushToContent(d, c, n)), StructuralIntents(d, c) = {}
    PROVE  /\ Mirrors(d, c)
           /\ \A b \in BlocksOf(d) : b.id \notin DOMAIN c => b.text = << >>
  <1>1. d \in Seq(Block(n)) /\ DOMAIN d = 1..Len(d) /\ Len(d) \in Nat
    <2>1. Plain(n, C) \subseteq Block(n)
      BY DEF Plain
    <2> QED BY <2>1, SeqMonotonic, LenProperties
  <1>2. \A i \in 1..Len(d) : d[i] \in Block(n) /\ d[i] \in Plain(n, C) /\ d[i] \in BlocksOf(d)
    <2>1. \A i \in 1..Len(d) : d[i] \in Plain(n, C)
      BY ElementOfSeq
    <2> QED BY <2>1, <1>1 DEF Plain, BlocksOf, ToSet
  <1>3. \A b \in BlocksOf(d) : \E i \in 1..Len(d) : b = d[i]
    BY <1>1 DEF BlocksOf, ToSet
  <1>4. /\ \A i \in Changed(d, c) : FALSE
        /\ \A u \in DOMAIN c : c[u].kind = "heading" \/ \E i \in Sent(d, c) : d[i].id = u
    <2> DEFINE f == FlushToContent(d, c, n)
    <2>1. /\ f = [upserts |-> f.upserts, deletes |-> f.deletes]
          /\ \A i \in Changed(d, c) : /\ SentId(d, c, n, i) \in DOMAIN f.upserts
                                      /\ f.upserts[SentId(d, c, n, i)] = FlushedAs(d, c, i)
          /\ \A u \in DOMAIN f.upserts : \E i \in Changed(d, c) : u = SentId(d, c, n, i)
          /\ f.upserts = [u \in DOMAIN f.upserts |-> f.upserts[u]]
          /\ f.deletes = {u \in DOMAIN c :
                            /\ c[u].kind # "heading"
                            /\ \A i \in Sent(d, c) : d[i].id # u \/ IsFlip(d[i], c)}
      BY <1>1, FlushIs
    <2> HIDE DEF f
    <2>2. DOMAIN f.upserts = {} /\ f.deletes = {}
      BY DEF NoDelta, f
    <2>3. \A i \in Changed(d, c) : FALSE
      BY <2>1, <2>2
    <2>4. \A u \in DOMAIN c : c[u].kind = "heading" \/ \E i \in Sent(d, c) : d[i].id = u
      <3> TAKE u \in DOMAIN c
      <3>1. u \notin f.deletes
        BY <2>2
      <3> QED BY <3>1, <2>1
    <2> QED BY <2>3, <2>4
  <1>5. \A i \in Sent(d, c) :
            /\ i \in 1..Len(d) /\ IsEdit(d[i], c) /\ FlushedAs(d, c, i) = c[d[i].id]
    BY <1>4 DEF Changed, Sent
  <1>6. \A u \in DOMAIN c : \E i \in Sent(d, c) : d[i].id = u
    <2> TAKE u \in DOMAIN c
    <2>1. CASE c[u].kind = "heading"
      <3>1. PICK b \in BlocksOf(d) : b.id = u /\ ~IsDisplay(b)
        BY <2>1 DEF HeadsOn, Headings
      <3>2. PICK i \in 1..Len(d) : b = d[i]
        BY <1>3
      <3>3. ~b.config
        BY <2>1, <3>1, <3>2, <1>2 DEF Plain, HomesOf
      <3>4. SentKind(b, c) = "heading"
        BY <2>1, <3>1, <3>3 DEF SentKind, KindIn
      <3>5. i \in Sent(d, c)
        BY <3>2, <3>4 DEF Sent
      <3> QED BY <3>1, <3>2, <3>5
    <2>2. CASE c[u].kind # "heading"
      BY <2>2, <1>4
    <2> QED BY <2>1, <2>2
  <1>7. ASSUME NEW i \in Sent(d, c)
        PROVE  LET u == d[i].id IN
               /\ u \in DOMAIN c /\ IsEdit(d[i], c)
               /\ d[i].parent = c[u].parent /\ d[i].text = c[u].text
               /\ d[i].heading <=> c[u].kind = "heading"
               /\ c[u].pos = Slot(d, c, i)
    <2> DEFINE u == d[i].id
    <2>1. /\ i \in 1..Len(d) /\ d[i] \in Block(n) /\ d[i] \in Plain(n, C) /\ d[i] \in BlocksOf(d)
          /\ IsEdit(d[i], c)
      BY <1>2, <1>5
    <2>2. u \in DOMAIN c /\ u # NoUnit
      <3>1. u \in DOMAIN c
        BY <2>1, SentKinds
      <3> QED BY <3>1, IdsAreUnits
    <2>3. c[u].pos = Slot(d, c, i) /\ c[u].text = d[i].text
      <3>1. FlushedAs(d, c, i).pos = Slot(d, c, i) /\ FlushedAs(d, c, i).text = d[i].text
        BY <1>1, FlushedIs
      <3> QED BY <3>1, <1>5
    <2>4. d[i].parent = c[u].parent /\ (d[i].heading <=> c[u].kind = "heading")
      <3>1. CASE d[i].config
        <4>1. d[i].parent = Top /\ ~d[i].heading /\ u \in C
          BY <2>1, <3>1 DEF Plain
        <4> QED BY <4>1, <2>2 DEF HomesOf
      <3>2. CASE ~d[i].config
        <4>1. d[i] \notin StructuralIntents(d, c)
          OBVIOUS
        <4>2. ~(d[i].heading # (c[u].kind = "heading")) /\ d[i].parent = c[u].parent
          BY <4>1, <2>1, <2>2, <3>2 DEF StructuralIntents
        <4>3. d[i].heading \in BOOLEAN
          BY <2>1 DEF Block
        <4> QED BY <4>2, <4>3
      <3> QED BY <3>1, <3>2
    <2> QED BY <2>1, <2>2, <2>3, <2>4
  <1>8. Mirrors(d, c)
    BY <1>6, <1>7 DEF Mirrors
  <1>9. ASSUME NEW b \in BlocksOf(d), b.id \notin DOMAIN c
        PROVE  b.text = << >>
    <2>1. PICK i \in 1..Len(d) : b = d[i]
      BY <1>3
    <2>2. SentKind(b, c) = "none"
      BY <1>7, <1>9, <2>1 DEF Sent
    <2>3. KindIn(c, b.id) = "none"
      BY <1>9 DEF KindIn
    <2> QED BY <2>2, <2>3 DEF SentKind
  <1> QED BY <1>8, <1>9

(* What the indicator says is so.                                              *)
Cleanly ==
    sync.pc = "idle" /\ status = "clean" =>
        \/ doc = ProjectToDoc(prior)
        \/ /\ NoDelta(FlushToContent(doc, prior, minted))
           /\ StructuralIntents(doc, prior) = {}

LEMMA CleanIsShown ==
    ASSUME Sound, WellFormed(prior), Acyclic(prior), NEW C, doc \in Seq(Plain(minted, C)),
           Nested(doc), HomesOf(prior, C), HeadsOn(doc, prior), Cleanly
    PROVE  ShownIsStored
  <1> SUFFICES ASSUME sync.pc = "idle", status = "clean"
               PROVE  /\ Outlook(doc) = Outlook(ProjectToDoc(prior))
                      /\ \A b \in BlocksOf(doc) : b.id \notin DOMAIN prior => b.text = << >>
    BY DEF ShownIsStored
  <1>1. /\ minted \in 0..MaxUnit /\ doc \in Seq(Block(minted)) /\ Stamps(doc)
        /\ IsContent(prior) /\ DOMAIN prior \subseteq 1..minted
    BY DEF Sound, Editing, Known
  <1>2. /\ Faces(ProjectToDoc(prior), prior)
        /\ \A b \in BlocksOf(ProjectToDoc(prior)) : b.id \notin DOMAIN prior => b = LineText
    BY <1>1, ProjectFaces
  <1>3. CASE doc = ProjectToDoc(prior)
    <2>1. LineText.text = << >>
      BY DEF LineText
    <2> QED BY <2>1, <1>2, <1>3
  <1>4. CASE /\ NoDelta(FlushToContent(doc, prior, minted))
             /\ StructuralIntents(doc, prior) = {}
    <2>1. /\ Mirrors(doc, prior)
          /\ \A b \in BlocksOf(doc) : b.id \notin DOMAIN prior => b.text = << >>
      BY <1>1, <1>4, SavedIsShown
    <2>2. Faces(doc, prior)
      BY <1>1, <2>1, MirrorsFaces
    <2>3. ProjectToDoc(prior) \in Seq(Block(minted))
      <3>1. Apart(prior)
        BY DEF Apart, WellFormed
      <3> QED BY <1>1, <3>1, ProjectShows
    <2>4. Outlook(doc) = Outlook(ProjectToDoc(prior))
      BY <1>1, <1>2, <2>2, <2>3, OneOutlook
    <2> QED BY <2>1, <2>4
  <1> QED BY <1>3, <1>4 DEF Cleanly

--------------------------------------------------------------------------------
(* What the plugins make of plain blocks.                                      *)

LEMMA PlainBlocks ==
    ASSUME NEW n, NEW C, NEW d \in Seq(Plain(n, C))
    PROVE  /\ d \in Seq(Block(n)) /\ DOMAIN d = 1..Len(d) /\ Len(d) \in Nat
           /\ \A i \in 1..Len(d) : d[i] \in Plain(n, C) /\ d[i] \in Block(n)
           /\ \A i \in 1..Len(d) : d[i] \in BlocksOf(d)
           /\ \A b \in BlocksOf(d) : \E i \in 1..Len(d) : b = d[i]
  <1>1. Plain(n, C) \subseteq Block(n)
    BY DEF Plain
  <1>2. d \in Seq(Block(n)) /\ DOMAIN d = 1..Len(d) /\ Len(d) \in Nat
    BY <1>1, SeqMonotonic, LenProperties
  <1>3. \A i \in 1..Len(d) : d[i] \in Plain(n, C)
    BY ElementOfSeq
  <1> QED BY <1>1, <1>2, <1>3 DEF BlocksOf, ToSet

LEMMA PlainEditable ==
    ASSUME NEW n \in 0..MaxUnit, NEW C, C \subseteq 1..n
    PROVE  Editable(Plain(n, C))
  <1>1. n \in Nat /\ NoUnit \notin C
    BY IdsAreUnits
  <1>2. Editable(Block(n))
    BY <1>1, BlocksEditable
  <1>3. ASSUME NEW b \in Plain(n, C), NEW x \in Block(n), x.id = b.id, x.config = b.config,
               x.parent = b.parent, x.heading = b.heading
        PROVE  x \in Plain(n, C)
    BY <1>3 DEF Plain
  <1>4. ASSUME NEW x \in Block(n), x.id = NoUnit, ~x.config
        PROVE  x \in Plain(n, C)
    BY <1>1, <1>4 DEF Plain
  <1>5. ASSUME NEW b \in Plain(n, C), NEW t \in Text, NEW h \in Int
        PROVE  /\ [b EXCEPT !.text = t] \in Plain(n, C)
               /\ [b EXCEPT !.hashes = h] \in Plain(n, C)
               /\ [b EXCEPT !.text = t, !.hashes = h] \in Plain(n, C)
    <2>1. b \in Block(n)
      BY DEF Plain
    <2>2. /\ [b EXCEPT !.text = t] \in Block(n)
          /\ [b EXCEPT !.hashes = h] \in Block(n)
          /\ [b EXCEPT !.text = t, !.hashes = h] \in Block(n)
      BY <1>2, <2>1, BlockWith
    <2>3. ASSUME NEW x \in {[b EXCEPT !.text = t], [b EXCEPT !.hashes = h],
                            [b EXCEPT !.text = t, !.hashes = h]}
          PROVE  x.id = b.id /\ x.config = b.config /\ x.parent = b.parent /\ x.heading = b.heading
      BY <2>1 DEF Block
    <2> QED BY <2>2, <2>3, <1>3
  <1>6. ASSUME NEW b \in Plain(n, C), NEW t \in Text, NEW h \in Int
        PROVE  Piece(b, t) \in Plain(n, C) /\ [Piece(b, t) EXCEPT !.hashes = h] \in Plain(n, C)
    <2> DEFINE p == Piece(b, t)
    <2>1. b \in Block(n)
      BY DEF Plain
    <2>2. p \in Block(n) /\ p.id = NoUnit /\ ~p.config
      BY <1>1, <2>1, PieceIs
    <2>3. [p EXCEPT !.hashes = h] \in Block(n)
      BY <1>2, <2>1, BlockWith
    <2> HIDE DEF p
    <2>4. [p EXCEPT !.hashes = h].id = NoUnit /\ ~[p EXCEPT !.hashes = h].config
      BY <2>2 DEF Block
    <2> QED BY <2>2, <2>3, <2>4, <1>4 DEF p
  <1>7. \E k \in Nat : Plain(n, C) \subseteq Block(k)
    BY <1>1 DEF Plain
  <1> QED BY <1>5, <1>6, <1>7 DEF Editable

(* Blocks of new ids may be notation homes too.                                *)
LEMMA SettledPlain ==
    ASSUME NEW n \in 0..MaxUnit, NEW C, C \subseteq 1..n, NEW d \in Seq(Plain(n, C)),
           n + Unstamped(d) <= MaxUnit
    PROVE  LET q == Settled(d, n)
               m == n + Unstamped(d)
           IN  \E E \in SUBSET (1..m) : /\ \A u \in 1..n : u \in E <=> u \in C
                                        /\ q \in Seq(Plain(m, E))
  <1> DEFINE q == Settled(d, n)
             m == n + Unstamped(d)
             E == C \cup {q[i].id : i \in {j \in 1..Len(d) : d[j].config}}
  <1>1. /\ d \in Seq(Block(n)) /\ Len(d) \in Nat
        /\ \A i \in 1..Len(d) : d[i] \in Plain(n, C)
    BY PlainBlocks
  <1>2. n \in Nat
    BY IdsAreUnits
  <1>3. /\ m \in 0..MaxUnit /\ n <= m
        /\ q \in Seq(Block(m)) /\ Len(q) = Len(d)
        /\ \A i \in 1..Len(d) :
             /\ q[i].id \in 1..m
             /\ ~NeedsId(d, i) => q[i].id = d[i].id
             /\ NeedsId(d, i) => q[i].id > n
             /\ q[i].config = d[i].config
             /\ d[i].config => q[i].heading = d[i].heading /\ q[i].parent = d[i].parent
        /\ \A i, j \in 1..Len(d) : q[i].id = q[j].id => i = j
    BY <1>1, <1>2, SettledIs
  <1> HIDE DEF q, m
  <1>4. m \in Nat
    BY <1>3, IdsAreUnits
  <1>5. \A u : u \in E <=> u \in C \/ \E i \in 1..Len(d) : d[i].config /\ u = q[i].id
    OBVIOUS
  <1> HIDE DEF E
  <1>6. \A i \in 1..Len(d) : (d[i].config <=> d[i].id \in C)
                             /\ (d[i].config => d[i].parent = Top /\ ~d[i].heading)
    BY <1>1 DEF Plain
  <1>7. E \in SUBSET (1..m)
    <2>1. \A u \in C : u \in 1..m
      BY <1>2, <1>3, <1>4
    <2>2. \A i \in 1..Len(d) : q[i].id \in 1..m
      BY <1>3
    <2>3. \A u \in E : u \in 1..m
      <3> TAKE u \in E
      <3>1. u \in C \/ \E i \in 1..Len(d) : u = q[i].id
        BY <1>5
      <3> QED BY <3>1, <2>1, <2>2
    <2> QED BY <2>3
  <1>8. \A i \in 1..Len(d) : ~NeedsId(d, i) \/ q[i].id \notin 1..n
    BY <1>2, <1>3
  <1>9. \A u \in 1..n : u \in E <=> u \in C
    BY <1>3, <1>5, <1>6, <1>8
  <1>10. ASSUME NEW i \in 1..Len(d)
         PROVE  q[i] \in Plain(m, E)
    <2>1. q[i] \in Block(m)
      BY <1>3, ElementOfSeq
    <2>2. q[i].config <=> q[i].id \in E
      <3>1. q[i].config => q[i].id \in E
        BY <1>3, <1>5
      <3>2. ASSUME q[i].id \in E
            PROVE  d[i].config
        <4>1. CASE q[i].id \in C
          <5>1. ~NeedsId(d, i)
            BY <4>1, <1>8
          <5> QED BY <4>1, <5>1, <1>3, <1>6
        <4>2. CASE q[i].id \notin C
          <5>1. PICK k \in 1..Len(d) : d[k].config /\ q[i].id = q[k].id
            BY <3>2, <4>2, <1>5
          <5>2. i = k
            BY <5>1, <1>3
          <5> QED BY <5>1, <5>2
        <4> QED BY <4>1, <4>2
      <3> QED BY <3>1, <3>2, <1>3
    <2>3. q[i].config => q[i].parent = Top /\ ~q[i].heading
      BY <1>3, <1>6
    <2> QED BY <2>1, <2>2, <2>3 DEF Plain
  <1>11. q \in Seq(Plain(m, E))
    <2>1. DOMAIN q = 1..Len(q) /\ Len(q) \in Nat /\ q \in [1..Len(q) -> Block(m)]
      BY <1>3, LenProperties
    <2>2. q = [i \in 1..Len(q) |-> q[i]]
      BY <2>1
    <2>3. [i \in 1..Len(q) |-> q[i]] \in Seq(Plain(m, E))
      BY <2>1, <1>3, <1>10, IsASeq
    <2> QED BY <2>2, <2>3
  <1> QED BY <1>7, <1>9, <1>11 DEF q, m

(* Sections are nested if every block is in the last one that is open.         *)
LEMMA SectionsNested ==
    ASSUME NEW n, NEW q \in Seq(Block(n)),
           \A i \in 1..Len(q) : IF q[i].config THEN q[i].parent = Top /\ ~q[i].heading
                                ELSE q[i].parent = Section(q, i)
    PROVE  Nested(q)
  <1>1. Len(q) \in Nat
    BY LenProperties
  <1>2. ASSUME NEW j \in 1..Len(q), q[j].parent # Top
        PROVE  \E h \in 1..(j - 1) :
                    /\ q[h].heading /\ q[h].id = q[j].parent
                    /\ \A k \in (h + 1)..(j - 1) :
                        \E g \in h..(k - 1) : q[g].heading /\ q[k].parent = q[g].id
    <2>1. OpenAt(q, j) # {} /\ q[j].parent = q[Max(OpenAt(q, j))].id
      BY <1>2 DEF Section
    <2>2. PICK h \in OpenAt(q, j) : h = Max(OpenAt(q, j))
      BY <2>1, OpenIs
    <2>3. h \in 1..(j - 1) /\ q[h].heading /\ q[h].id = q[j].parent
      BY <2>1, <2>2 DEF OpenAt
    <2>4. ASSUME NEW k \in (h + 1)..(j - 1)
          PROVE  \E g \in h..(k - 1) : q[g].heading /\ q[k].parent = q[g].id
      <3>1. k \in 1..Len(q) /\ h \in 1..(k - 1)
        BY <1>1, <2>3
      <3>2. /\ ~(q[k].config /\ q[k].parent = Top)
            /\ q[k].heading => q[h].hashes < q[k].hashes
        BY <2>2 DEF OpenAt
      <3>3. \A l \in (h + 1)..(k - 1) : l \in (h + 1)..(j - 1)
        BY <2>3
      <3>4. \A l \in (h + 1)..(k - 1) : /\ ~(q[l].config /\ q[l].parent = Top)
                                        /\ q[l].heading => q[h].hashes < q[l].hashes
        BY <2>2, <3>3 DEF OpenAt
      <3>5. h \in OpenAt(q, k)
        BY <2>3, <3>1, <3>2, <3>4 DEF OpenAt
      <3>6. q[k].parent = q[Max(OpenAt(q, k))].id
        BY <3>1, <3>2, <3>5 DEF Section
      <3>7. PICK g \in OpenAt(q, k) : g = Max(OpenAt(q, k)) /\ h <= g
        BY <3>1, <3>5, OpenIs
      <3>8. g \in h..(k - 1) /\ q[g].heading
        BY <2>3, <3>7 DEF OpenAt
      <3> QED BY <3>6, <3>7, <3>8
    <2> QED BY <2>3, <2>4
  <1> QED BY <1>2 DEF Nested

LEMMA SettledNested ==
    ASSUME NEW n \in 0..MaxUnit, NEW C, NEW d \in Seq(Plain(n, C)),
           n + Unstamped(d) <= MaxUnit
    PROVE  Nested(Settled(d, n))
  <1> DEFINE q == Settled(d, n)
             m == n + Unstamped(d)
  <1>1. /\ d \in Seq(Block(n))
        /\ \A i \in 1..Len(d) : d[i] \in Plain(n, C)
    BY PlainBlocks
  <1>2. n \in Nat
    BY IdsAreUnits
  <1>3. /\ q \in Seq(Block(m)) /\ Len(q) = Len(d)
        /\ \A i \in 1..Len(d) :
             /\ q[i].config = d[i].config
             /\ d[i].config => q[i].heading = d[i].heading /\ q[i].parent = d[i].parent
             /\ ~d[i].config => q[i].parent = Section(q, i)
    BY <1>1, <1>2, SettledIs
  <1> HIDE DEF q, m
  <1>4. \A i \in 1..Len(q) : IF q[i].config THEN q[i].parent = Top /\ ~q[i].heading
                             ELSE q[i].parent = Section(q, i)
    BY <1>1, <1>3 DEF Plain
  <1>5. Nested(q)
    BY <1>3, <1>4, SectionsNested
  <1> QED BY <1>5 DEF q

(* The first block with an id keeps it.                                        *)
LEMMA SettledKeepsIds ==
    ASSUME NEW n \in 0..MaxUnit, NEW d \in Seq(Block(n)), n + Unstamped(d) <= MaxUnit,
           NEW b \in BlocksOf(d), b.id # NoUnit
    PROVE  \E a \in BlocksOf(d) : \E x \in BlocksOf(Settled(d, n)) :
                /\ a.id = b.id /\ x.id = b.id
                /\ x.hashes = a.hashes /\ x.config = a.config /\ x.text = a.text
                /\ a.config => x.heading = a.heading
                /\ ~a.config =>
                    (x.heading <=> a.hashes > 0 /\ (a.heading \/ Len(a.text) <= 1))
  <1> DEFINE q == Settled(d, n)
             S == {i \in 1..Len(d) : d[i].id = b.id}
  <1>1. DOMAIN d = 1..Len(d) /\ Len(d) \in Nat
    BY LenProperties
  <1>2. PICK i \in 1..Len(d) : d[i].id = b.id
    BY <1>1 DEF BlocksOf, ToSet
  <1>3. PICK k \in S : \A l \in S : k <= l
    <2>1. S \subseteq 0..Len(d) /\ S # {}
      BY <1>2
    <2> HIDE DEF S
    <2>2. \E x \in S : \A y \in S : x <= y
      BY <1>1, <2>1, LeastIs
    <2> QED BY <2>2
  <1>4. k \in 1..Len(d) /\ d[k].id = b.id /\ \A l \in 1..(k - 1) : d[l].id # b.id
    BY <1>1, <1>3
  <1>5. ~NeedsId(d, k)
    BY <1>4 DEF NeedsId
  <1>6. n \in Nat
    BY IdsAreUnits
  <1>7. /\ q \in Seq(Block(n + Unstamped(d))) /\ Len(q) = Len(d)
        /\ q[k].id = d[k].id
        /\ q[k].hashes = d[k].hashes /\ q[k].config = d[k].config /\ q[k].text = d[k].text
        /\ d[k].config => q[k].heading = d[k].heading
        /\ ~d[k].config => (q[k].heading <=> d[k].hashes > 0 /\ (d[k].heading \/ Len(d[k].text) <= 1))
    BY <1>4, <1>5, <1>6, SettledIs
  <1> HIDE DEF q
  <1>8. q[k] \in BlocksOf(q) /\ d[k] \in BlocksOf(d)
    <2>1. DOMAIN q = 1..Len(q)
      BY <1>7, LenProperties
    <2> QED BY <2>1, <1>1, <1>4, <1>7 DEF BlocksOf, ToSet
  <1> QED BY <1>4, <1>7, <1>8 DEF q

--------------------------------------------------------------------------------
(* A content on the screen.                                                    *)

LEMMA ProjectPlain ==
    ASSUME NEW n \in 0..MaxUnit, NEW C, C \subseteq 1..n,
           NEW c, IsContent(c), Acyclic(c), Apart(c), DOMAIN c \subseteq 1..n, HomesOf(c, C)
    PROVE  ProjectToDoc(c) \in Seq(Plain(n, C))
  <1> DEFINE P == ProjectToDoc(c)
             w == Walk(c)
  <1>1. /\ P \in Seq(Block(n)) /\ Len(w) \in Nat /\ Len(P) \in {Len(w), Len(w) + 1}
        /\ \A k \in 1..Len(w) : w[k] \in DOMAIN c /\ P[k] = Shown(c, w[k])
        /\ Len(P) = Len(w) + 1 => P[Len(P)] = LineText
    BY ProjectShows
  <1> HIDE DEF P, w
  <1>2. DOMAIN P = 1..Len(P) /\ Len(P) \in Nat /\ P \in [1..Len(P) -> Block(n)]
    BY <1>1, LenProperties
  <1>3. ASSUME NEW u \in DOMAIN c
        PROVE  Shown(c, u) \in Plain(n, C)
    <2> DEFINE b == Shown(c, u)
    <2>1. /\ b \in Block(n) /\ b.id = u /\ b.parent = c[u].parent
          /\ b.heading <=> c[u].kind = "heading"
          /\ b.config <=> c[u].kind = "config"
      BY ShownIs
    <2> HIDE DEF b
    <2>2. (b.config <=> b.id \in C) /\ (b.config => b.parent = Top /\ ~b.heading)
      BY <2>1 DEF HomesOf
    <2>3. b \in Plain(n, C)
      BY <2>1, <2>2 DEF Plain
    <2> QED BY <2>3 DEF b
  <1>4. LineText \in Plain(n, C)
    <2>1. n \in Nat /\ NoUnit \notin C
      BY IdsAreUnits
    <2>2. LineText \in Block(n)
      BY <2>1, LineTextIsBlock
    <2>3. LineText.id = NoUnit /\ ~LineText.config
      BY DEF LineText
    <2> QED BY <2>1, <2>2, <2>3 DEF Plain
  <1>5. \A i \in 1..Len(P) : P[i] \in Plain(n, C)
    <2> TAKE i \in 1..Len(P)
    <2>1. i \in 1..Len(w) \/ P[i] = LineText
      BY <1>1
    <2>2. i \in 1..Len(w) => P[i] \in Plain(n, C)
      BY <1>1, <1>3
    <2> QED BY <2>1, <2>2, <1>4
  <1>6. P = [i \in 1..Len(P) |-> P[i]]
    BY <1>2
  <1>7. [i \in 1..Len(P) |-> P[i]] \in Seq(Plain(n, C))
    BY <1>2, <1>5, IsASeq
  <1> QED BY <1>6, <1>7 DEF P

(* What the walk comes to between a heading and a unit of its section is       *)
(* somewhere in that section.                                                  *)
LEMMA BetweenIsBelow ==
    ASSUME NEW c, IsContent(c), Acyclic(c), NEW p, NEW x \in DOMAIN c, NEW y \in DOMAIN c,
           p \in Above(c, y), Precedes(c, p, x), Precedes(c, x, y)
    PROVE  p \in Above(c, x)
  <1>1. p \in DOMAIN c
    BY AboveClosed DEF Headings
  <1>2. ~Precedes(c, x, p)
    BY <1>1, PrecedesOnce
  <1>3. CASE x \in Above(c, y)
    <2>1. x = p \/ x \in Above(c, p) \/ p \in Above(c, x)
      BY <1>3, LineageChain DEF Lineage
    <2>2. x # p
      BY <1>1, PrecedesOthers
    <2> QED BY <2>1, <2>2, <1>2 DEF Precedes
  <1>4. ASSUME NEW a \in Lineage(c, x), NEW b \in Lineage(c, y),
               c[a].parent = c[b].parent, c[a].pos < c[b].pos
        PROVE  p \in Above(c, x)
    <2>1. b = p \/ b \in Above(c, p) \/ p \in Above(c, b)
      BY LineageChain DEF Lineage
    <2>2. b \notin Lineage(c, p)
      BY <1>2, <1>4 DEF Precedes
    <2>3. p \in Above(c, b)
      BY <2>1, <2>2 DEF Lineage
    <2>4. Above(c, a) = Above(c, b)
      BY <1>4, AboveStep
    <2> QED BY <2>3, <2>4, AboveGrows
  <1> QED BY <1>3, <1>4 DEF Precedes

LEMMA ProjectNested ==
    ASSUME NEW n \in 0..MaxUnit, NEW c, IsContent(c), WellFormed(c), Acyclic(c),
           DOMAIN c \subseteq 1..n
    PROVE  Nested(ProjectToDoc(c))
  <1> DEFINE P == ProjectToDoc(c)
             w == Walk(c)
  <1>0. Apart(c)
    BY DEF Apart, WellFormed
  <1>1. /\ P \in Seq(Block(n)) /\ Len(w) \in Nat /\ Len(P) \in {Len(w), Len(w) + 1}
        /\ \A k \in 1..Len(w) : w[k] \in DOMAIN c /\ P[k] = Shown(c, w[k])
        /\ Len(P) = Len(w) + 1 => P[Len(P)] = LineText
    BY <1>0, ProjectShows
  <1>2. /\ \A u \in DOMAIN c : \E k \in 1..Len(w) : w[k] = u
        /\ \A j, k \in 1..Len(w) : j < k => Precedes(c, w[j], w[k])
    BY <1>0, WalkLists, WholeWalk
  <1> HIDE DEF P, w
  <1>3. \A k \in 1..Len(w) : /\ P[k].id = w[k] /\ P[k].parent = c[w[k]].parent
                             /\ P[k].heading <=> w[k] \in Headings(c)
    <2> TAKE k \in 1..Len(w)
    <2>1. w[k] \in DOMAIN c /\ P[k] = Shown(c, w[k])
      BY <1>1
    <2>2. /\ Shown(c, w[k]).id = w[k] /\ Shown(c, w[k]).parent = c[w[k]].parent
          /\ Shown(c, w[k]).heading <=> c[w[k]].kind = "heading"
      BY <2>1, ShownIs
    <2> QED BY <2>1, <2>2 DEF Headings
  <1>4. \A j, k \in 1..Len(w) : Precedes(c, w[j], w[k]) => j < k
    <2> TAKE j, k \in 1..Len(w)
    <2> HAVE Precedes(c, w[j], w[k])
    <2>1. w[j] \in DOMAIN c /\ w[k] \in DOMAIN c
      BY <1>1
    <2>2. ~Precedes(c, w[k], w[j]) /\ w[j] # w[k]
      BY <2>1, PrecedesOnce
    <2>3. ~(k < j) /\ j # k
      BY <2>2, <1>2
    <2> QED BY <2>3, <1>1
  <1>5. ASSUME NEW j \in 1..Len(w), P[j].parent # Top
        PROVE  \E h \in 1..(j - 1) :
                    /\ P[h].heading /\ P[h].id = P[j].parent
                    /\ \A k \in (h + 1)..(j - 1) :
                        \E g \in h..(k - 1) : P[g].heading /\ P[k].parent = P[g].id
    <2> DEFINE y == w[j]
               p == c[y].parent
    <2>1. y \in DOMAIN c /\ p \in Headings(c) /\ p \in DOMAIN c
      BY <1>1, <1>3, <1>5 DEF WellFormed, Headings
    <2>2. p \in Above(c, y)
      BY <2>1, AboveStep DEF Lineage
    <2>3. PICK h \in 1..Len(w) : w[h] = p
      BY <2>1, <1>2
    <2>4. Precedes(c, p, y)
      BY <2>2 DEF Precedes
    <2>5. h < j /\ h \in 1..(j - 1)
      BY <2>3, <2>4, <1>1, <1>4
    <2>6. P[h].heading /\ P[h].id = P[j].parent
      BY <2>1, <2>3, <1>3
    <2>7. ASSUME NEW k \in (h + 1)..(j - 1)
          PROVE  \E g \in h..(k - 1) : P[g].heading /\ P[k].parent = P[g].id
      <3> DEFINE x == w[k]
                 o == c[x].parent
      <3>1. k \in 1..Len(w) /\ h < k /\ k < j
        BY <1>1, <2>5
      <3>2. x \in DOMAIN c /\ Precedes(c, p, x) /\ Precedes(c, x, y)
        BY <3>1, <2>3, <1>1, <1>2
      <3> HIDE DEF x, y, p
      <3>3. p \in Above(c, x)
        BY <3>2, <2>1, <2>2, BetweenIsBelow
      <3>4. o \in Headings(c) /\ p \in Lineage(c, o) /\ o \in Above(c, x)
        <4>1. o \in Headings(c) /\ p \in Lineage(c, o)
          BY <3>3, AboveStep
        <4> QED BY <4>1, AboveStep DEF Lineage
      <3>5. PICK g \in 1..Len(w) : w[g] = o
        BY <3>4, <1>2 DEF Headings
      <3>6. g < k
        BY <3>1, <3>4, <3>5, <1>4 DEF Precedes, x
      <3>7. h <= g
        <4>1. p = o \/ p \in Above(c, o)
          BY <3>4 DEF Lineage
        <4>2. p = o => ~(g < h)
          <5>1. g < h => Precedes(c, w[g], w[h])
            BY <1>2
          <5>2. ~Precedes(c, o, o)
            BY <3>4, PrecedesOthers DEF Headings
          <5> QED BY <5>1, <5>2, <2>3, <3>5
        <4>3. p \in Above(c, o) => h < g
          BY <2>3, <3>5, <1>4 DEF Precedes
        <4> QED BY <4>1, <4>2, <4>3, <3>1
      <3>8. g \in h..(k - 1) /\ P[g].heading /\ P[k].parent = P[g].id
        BY <3>1, <3>4, <3>5, <3>6, <3>7, <1>3 DEF x
      <3> QED BY <3>8
    <2> QED BY <2>5, <2>6, <2>7
  <1>6. \A j \in 1..Len(P) : P[j].parent # Top => j \in 1..Len(w)
    <2> TAKE j \in 1..Len(P)
    <2>1. j \in 1..Len(w) \/ P[j] = LineText
      BY <1>1
    <2>2. LineText.parent = Top
      BY DEF LineText
    <2> QED BY <2>1, <2>2
  <1>7. Nested(P)
    BY <1>5, <1>6 DEF Nested
  <1> QED BY <1>7 DEF P

LEMMA OverlaidPlain ==
    ASSUME NEW n, NEW C, NEW d \in Seq(Plain(n, C)), NEW m, NEW keep \in SUBSET Block(m)
    PROVE  Overlaid(d, keep) \in Seq(Plain(n, C))
  <1> DEFINE o == Overlaid(d, keep)
  <1>1. /\ d \in Seq(Block(n)) /\ Len(d) \in Nat
        /\ \A i \in 1..Len(d) : d[i] \in Plain(n, C)
    BY PlainBlocks
  <1>2. /\ o \in Seq(Block(n)) /\ Len(o) = Len(d)
        /\ \A i \in 1..Len(d) :
            /\ o[i].id = d[i].id /\ o[i].config = d[i].config
            /\ o[i] = d[i] \/ ~d[i].config
    BY <1>1, OverlaidIs
  <1> HIDE DEF o
  <1>3. \A i \in 1..Len(o) : o[i] \in Plain(n, C)
    <2> TAKE i \in 1..Len(o)
    <2>1. o[i] \in Block(n) /\ d[i] \in Plain(n, C)
      BY <1>1, <1>2, ElementOfSeq
    <2>2. o[i] = d[i] \/ (~o[i].config /\ o[i].id \notin C)
      BY <2>1, <1>2 DEF Plain
    <2> QED BY <2>1, <2>2 DEF Plain
  <1>4. o = [i \in 1..Len(o) |-> o[i]]
    BY <1>2, LenProperties
  <1>5. [i \in 1..Len(o) |-> o[i]] \in Seq(Plain(n, C))
    BY <1>1, <1>2, <1>3, IsASeq
  <1> QED BY <1>4, <1>5 DEF o

(* A document q in which m ids are given out and that shows c: up to n the     *)
(* notation homes are those of C, and every heading has its block.             *)
Reshown(c, C, n, q, m) ==
    /\ \E E \in SUBSET (1..m) : (\A u \in 1..n : u \in E <=> u \in C) /\ q \in Seq(Plain(m, E))
    /\ Nested(q)
    /\ \A u \in Reached(c) : c[u].kind = "heading" =>
            \E b \in BlocksOf(q) : b.id = u /\ ~IsDisplay(b)

(* A content comes on the screen, with gestures laid over it.                  *)
LEMMA Reprojected ==
    ASSUME NEW n \in 0..MaxUnit, NEW C, C \subseteq 1..n,
           NEW c, IsContent(c), Acyclic(c), Apart(c), DOMAIN c \subseteq 1..n, HomesOf(c, C),
           NEW m, NEW keep \in SUBSET Block(m),
           n + Unstamped(Overlaid(ProjectToDoc(c), keep)) <= MaxUnit
    PROVE  LET o == Overlaid(ProjectToDoc(c), keep)
           IN  Reshown(c, C, n, Settled(o, n), n + Unstamped(o))
  <1> DEFINE P == ProjectToDoc(c)
             w == Walk(c)
             o == Overlaid(P, keep)
             q == Settled(o, n)
  <1>1. P \in Seq(Plain(n, C))
    BY ProjectPlain
  <1>2. /\ P \in Seq(Block(n)) /\ Len(w) \in Nat /\ Len(P) \in {Len(w), Len(w) + 1}
        /\ \A k \in 1..Len(w) : w[k] \in DOMAIN c /\ P[k] = Shown(c, w[k])
    BY ProjectShows
  <1>3. \A u \in Reached(c) : \E k \in 1..Len(w) : w[k] = u
    BY WalkLists
  <1> HIDE DEF P, w
  <1>4. o \in Seq(Plain(n, C))
    BY <1>1, OverlaidPlain
  <1>5. /\ o \in Seq(Block(n)) /\ Len(o) = Len(P)
        /\ \A i \in 1..Len(P) : o[i].id = P[i].id /\ o[i].hashes = P[i].hashes
    BY <1>2, OverlaidIs
  <1>6. n + Unstamped(o) <= MaxUnit
    BY DEF P
  <1> HIDE DEF o
  <1>7. \E E \in SUBSET (1..(n + Unstamped(o))) :
            /\ \A u \in 1..n : u \in E <=> u \in C
            /\ q \in Seq(Plain(n + Unstamped(o), E))
    BY <1>4, <1>6, SettledPlain
  <1>8. Nested(q)
    BY <1>4, <1>6, SettledNested
  <1>9. ASSUME NEW u \in Reached(c), c[u].kind = "heading"
        PROVE  \E b \in BlocksOf(q) : b.id = u /\ ~IsDisplay(b)
    <2>1. PICK k \in 1..Len(w) : w[k] = u
      BY <1>3
    <2>2. k \in 1..Len(o) /\ DOMAIN o = 1..Len(o)
      BY <1>2, <1>5, LenProperties
    <2>3. u \in DOMAIN c
      BY DEF Reached
    <2>4. P[k].id = u /\ P[k].hashes = 1 + Cardinality(Above(c, u)) /\ Cardinality(Above(c, u)) \in Nat
      BY <2>1, <2>3, <1>2, <1>9, ShownIs
    <2>5. o[k] \in BlocksOf(o) /\ o[k].id = u /\ o[k].id # NoUnit
      BY <2>2, <2>3, <2>4, <1>5, IdsAreUnits DEF BlocksOf, ToSet
    <2>6. PICK a \in BlocksOf(o), x \in BlocksOf(q) : a.id = u /\ x.id = u /\ x.hashes = a.hashes
      BY <2>5, <1>5, <1>6, SettledKeepsIds
    <2>7. PICK l \in 1..Len(o) : a = o[l]
      BY <2>2 DEF BlocksOf, ToSet
    <2>8. P[l].id = P[k].id
      BY <2>4, <2>6, <2>7, <1>5
    <2>9. l = k
      <3>1. Stamps(P) /\ DOMAIN P = 1..Len(P)
        BY <1>2, ProjectShows, LenProperties DEF P
      <3> QED BY <3>1, <2>2, <2>7, <2>8, <1>5 DEF Stamps
    <2>10. x.hashes # 0
      BY <2>2, <2>4, <2>6, <2>7, <2>9, <1>5
    <2> QED BY <2>6, <2>10 DEF IsDisplay
  <1>10. Reshown(c, C, n, q, n + Unstamped(o))
    BY <1>7, <1>8, <1>9 DEF Reshown
  <1> QED BY <1>10 DEF P, o

--------------------------------------------------------------------------------
(* The notation homes of the contents.                                         *)

(* Ids given out since may be of notation homes.                               *)
LEMMA HomesGrow ==
    ASSUME NEW c, NEW n, DOMAIN c \subseteq 1..n, NEW C, HomesOf(c, C),
           NEW E, \A u \in 1..n : u \in E <=> u \in C
    PROVE  HomesOf(c, E)
  BY DEF HomesOf

(* Nothing becomes a notation home, or stops to be one, by being sent.         *)
LEMMA FlushHomes ==
    ASSUME NEW n \in 0..MaxUnit, NEW C, C \subseteq 1..n, NEW d \in Seq(Plain(n, C)), Stamps(d),
           NEW c, IsContent(c), DOMAIN c \subseteq 1..n, HomesOf(c, C)
    PROVE  HomesOf(FlushToContent(d, c, n).upserts, C)
  <1> DEFINE ups == FlushToContent(d, c, n).upserts
  <1>1. /\ d \in Seq(Block(n)) /\ Len(d) \in Nat
        /\ \A i \in 1..Len(d) : d[i] \in Plain(n, C) /\ d[i] \in Block(n)
    BY PlainBlocks
  <1>2. /\ \A i \in Changed(d, c) : ups[SentId(d, c, n, i)] = FlushedAs(d, c, i)
        /\ \A u \in DOMAIN ups : \E i \in Changed(d, c) : u = SentId(d, c, n, i)
    BY <1>1, FlushWrites
  <1> HIDE DEF ups
  <1>3. ASSUME NEW u \in DOMAIN ups
        PROVE  (ups[u].kind = "config" <=> u \in C) /\ (u \in C => ups[u].parent = Top)
    <2>1. PICK i \in Changed(d, c) : u = SentId(d, c, n, i)
      BY <1>2
    <2>2. i \in Sent(d, c) /\ i \in 1..Len(d)
      BY DEF Changed, Sent
    <2> DEFINE b == d[i]
    <2>3. b \in Plain(n, C) /\ b \in Block(n)
      BY <1>1, <2>2
    <2>4. ups[u].parent = Family(b, c) /\ ups[u].kind = SentKind(b, c)
      <3>1. FlushedAs(d, c, i).parent = Family(b, c) /\ FlushedAs(d, c, i).kind = SentKind(b, c)
        BY <1>1, <2>2, FlushedIs
      <3> QED BY <3>1, <2>1, <1>2
    <2>5. /\ IsFlip(b, c) <=> u > n
          /\ ~IsFlip(b, c) => u = b.id
      BY <1>1, <2>1, <2>2, SentIds
    <2>6. /\ IsEdit(b, c) => /\ b.id \in DOMAIN c /\ c[b.id].kind = SentKind(b, c)
                             /\ Family(b, c) = c[b.id].parent /\ ~IsFlip(b, c)
          /\ b.config /\ ~IsEdit(b, c) => Family(b, c) = Top
          /\ IsFlip(b, c) => b.id \in DOMAIN c /\ ~IsEdit(b, c)
      BY <2>3, SentKinds
    <2>7. SentKind(b, c) = "config" <=> b.config
      <3>1. b.config => SentKind(b, c) = "config"
        BY DEF SentKind, IsDisplay
      <3>2. KindIn(c, b.id) \in {"prose", "heading"} => KindIn(c, b.id) # "config"
        OBVIOUS
      <3> HIDE DEF b
      <3>3. ~b.config => SentKind(b, c) # "config"
        BY <3>2 DEF SentKind, IsDisplay
      <3> QED BY <3>1, <3>3
    <2>8. CASE IsEdit(b, c)
      BY <2>4, <2>5, <2>6, <2>8 DEF HomesOf
    <2>9. CASE ~IsEdit(b, c) /\ b.config
      <3>1. b.id \in C
        BY <2>3, <2>9 DEF Plain
      <3>2. ~IsFlip(b, c)
        BY <2>6, <2>7, <2>9, <3>1 DEF HomesOf, IsEdit, KindIn
      <3> QED BY <2>4, <2>5, <2>6, <2>7, <2>9, <3>1, <3>2
    <2>10. CASE ~b.config
      <3>1. b.id \notin C
        BY <2>3, <2>10 DEF Plain
      <3>2. u \notin C
        <4>1. n \in Nat
          BY IdsAreUnits
        <4>2. u > n => u \notin C
          BY <4>1
        <4> HIDE DEF b
        <4> QED BY <3>1, <2>5, <4>2
      <3> QED BY <2>4, <2>7, <2>10, <3>2
    <2> QED BY <2>8, <2>9, <2>10
  <1> QED BY <1>3 DEF HomesOf, ups

LEMMA SavedHomes ==
    ASSUME NEW C, NEW c, NEW ups, NEW dels, HomesOf(c, C), HomesOf(ups, C)
    PROVE  HomesOf(Saved(c, ups, dels), C)
  BY DEF HomesOf, Saved

LEMMA RebasedHomes ==
    ASSUME NEW C, NEW merged, NEW theirs, IsContent(merged), HomesOf(merged, C)
    PROVE  HomesOf(RebasedDelta(merged, theirs).upserts, C)
  <1> DEFINE r == RebasedDelta(merged, theirs)
  <1>1. DOMAIN r.upserts \subseteq DOMAIN merged /\ \A u \in DOMAIN r.upserts : r.upserts[u] = merged[u]
    BY RebasedIs
  <1> HIDE DEF r
  <1>2. HomesOf(r.upserts, C)
    BY <1>1 DEF HomesOf
  <1> QED BY <1>2 DEF r

LEMMA ToggledHomes ==
    ASSUME NEW C, NEW c, IsContent(c), WellFormed(c), Acyclic(c), HomesOf(c, C),
           NEW u, MayToggle(c, u)
    PROVE  HomesOf(Toggled(c, u), C)
  <1>1. u \in DOMAIN c /\ c[u].kind \in {"prose", "heading"}
    BY DEF MayToggle
  <1>2. CASE c[u].kind = "prose"
    <2>1. Toggled(c, u) = [c EXCEPT ![u].kind = "heading"]
      BY <1>2 DEF Toggled, Promoted
    <2> DEFINE d == [c EXCEPT ![u].kind = "heading"]
    <2>2. /\ DOMAIN d = DOMAIN c
          /\ \A v \in DOMAIN c : d[v].parent = c[v].parent
                /\ d[v].kind = IF v = u THEN "heading" ELSE c[v].kind
      <3>1. c[u] \in UnitRecord
        BY <1>1 DEF IsContent
      <3> QED BY <3>1, <1>1 DEF UnitRecord
    <2> HIDE DEF d
    <2>3. HomesOf(d, C)
      BY <1>1, <2>2 DEF HomesOf
    <2> QED BY <2>1, <2>3 DEF d
  <1>3. CASE c[u].kind = "heading"
    <2> DEFINE d == Dissolved(c, u)
    <2>1. Toggled(c, u) = d
      BY <1>3 DEF Toggled
    <2>2. LiftedFrom(c, d, u)
      BY <1>1, DissolvedLifts
    <2> HIDE DEF d
    <2>3. u # Top
      BY <1>1, TreeAssumption DEF IsContent
    <2>4. HomesOf(d, C)
      BY <1>1, <1>3, <2>2, <2>3 DEF HomesOf, LiftedFrom
    <2> QED BY <2>1, <2>4
  <1> QED BY <1>1, <1>2, <1>3

LEMMA ReparentedHomes ==
    ASSUME NEW C, NEW c, IsContent(c), HomesOf(c, C), NEW u \in DOMAIN c, u \notin C,
           NEW p \in DOMAIN c \cup {Top}, NEW at \in Place
    PROVE  HomesOf(Reparented(c, u, p, at), C)
  <1> DEFINE d == Reparented(c, u, p, at)
  <1>1. MovedBelow(c, d, u, p)
    BY ReparentedMoves
  <1> HIDE DEF d
  <1>2. HomesOf(d, C)
    BY <1>1 DEF HomesOf, MovedBelow
  <1> QED BY <1>2 DEF d

LEMMA TextHomes ==
    ASSUME NEW C, NEW c, IsContent(c), HomesOf(c, C), NEW u \in DOMAIN c, NEW t
    PROVE  HomesOf([c EXCEPT ![u].text = t], C)
  <1> DEFINE d == [c EXCEPT ![u].text = t]
  <1>1. /\ DOMAIN d = DOMAIN c
        /\ \A v \in DOMAIN c : d[v].parent = c[v].parent /\ d[v].kind = c[v].kind
    <2>1. c[u] \in UnitRecord
      BY DEF IsContent
    <2> QED BY <2>1 DEF UnitRecord
  <1> HIDE DEF d
  <1>2. HomesOf(d, C)
    BY <1>1 DEF HomesOf
  <1> QED BY <1>2 DEF d

LEMMA MergedHomes ==
    ASSUME Sound, ~Clash(prior, tree, FlushToContent(doc, prior, minted)),
           minted + Flips(doc, prior) <= MaxUnit, NEW C, HomesOf(tree, C),
           HomesOf(FlushToContent(doc, prior, minted).upserts, C)
    PROVE  HomesOf(Merged(prior, tree, FlushToContent(doc, prior, minted)), C)
  <1> DEFINE mine == FlushToContent(doc, prior, minted)
             M    == Merged(prior, tree, mine)
  <1>1. /\ DOMAIN M = (DOMAIN tree \ mine.deletes) \cup Added(prior, mine)
        /\ \A u \in DOMAIN M :
             /\ M[u].parent = IF u \in Added(prior, mine) THEN mine.upserts[u].parent
                              ELSE tree[u].parent
             /\ M[u].kind = IF u \in Added(prior, mine) THEN mine.upserts[u].kind
                            ELSE tree[u].kind
    BY MergeHomes
  <1>2. HomesOf(mine.upserts, C)
    OBVIOUS
  <1> HIDE DEF mine, M
  <1>3. HomesOf(M, C)
    <2> SUFFICES ASSUME NEW u \in DOMAIN M
                 PROVE  (M[u].kind = "config" <=> u \in C) /\ (u \in C => M[u].parent = Top)
      BY DEF HomesOf
    <2>1. CASE u \in Added(prior, mine)
      <3>1. u \in DOMAIN mine.upserts
        BY <2>1 DEF Added
      <3> QED BY <3>1, <2>1, <1>1, <1>2 DEF HomesOf
    <2>2. CASE u \notin Added(prior, mine)
      BY <2>2, <1>1 DEF HomesOf
    <2> QED BY <2>1, <2>2
  <1> QED BY <1>3 DEF M, mine

(* Requests are never made for a notation home.                                *)
NeedOf(n, C) == {need \in Need : need.unit \in (1..n) \ C}

LEMMA NeedsOf ==
    ASSUME NEW n \in 0..MaxUnit, NEW C, NEW d \in Seq(Plain(n, C)), Stamps(d),
           NEW c, IsContent(c), DOMAIN c \subseteq 1..n
    PROVE  StructuralNeeds(d, c) \in Seq(NeedOf(n, C))
  <1>1. /\ d \in Seq(Block(n))
        /\ \A i \in 1..Len(d) : d[i] \in Plain(n, C) /\ d[i] \in Block(n)
    BY PlainBlocks
  <1>2. ASSUME NEW i \in 1..Len(d), ~d[i].config, d[i].id \in DOMAIN c, NEW at \in 0..MaxUnit
        PROVE  Toggle(d[i].id) \in NeedOf(n, C) /\ Move(d[i].id, d[i].parent, at) \in NeedOf(n, C)
    <2>1. d[i].parent \in Unit \cup {Top} /\ d[i].id \in Unit /\ d[i].id \in (1..n) \ C
      <3>1. d[i] \in Block(n) /\ d[i] \in Plain(n, C)
        BY <1>1
      <3>2. d[i].parent \in Unit \cup {Top} /\ d[i].id \notin C
        BY <3>1, <1>2 DEF Block, Plain
      <3> QED BY <3>2, <1>2 DEF IsContent
    <2> QED BY <2>1, <1>2, OutlineAssumption DEF NeedOf, Need, Toggle, Move
  <1>3. 0 \in 0..MaxUnit
    BY OutlineAssumption
  <1> QED BY <1>1, <1>2, <1>3, NeedsIn

LEMMA NeedsGrow ==
    ASSUME NEW n \in 0..MaxUnit, NEW m \in 0..MaxUnit, n <= m, NEW C, NEW E,
           \A u \in 1..n : u \in E <=> u \in C, NEW q \in Seq(NeedOf(n, C))
    PROVE  q \in Seq(NeedOf(m, E))
  <1>1. n \in Nat /\ m \in Nat
    BY OutlineAssumption
  <1>2. NeedOf(n, C) \subseteq NeedOf(m, E)
    BY <1>1 DEF NeedOf
  <1> QED BY <1>2, SeqMonotonic

LEMMA PlainGrows ==
    ASSUME NEW n \in 0..MaxUnit, NEW m \in 0..MaxUnit, n <= m, NEW C, NEW d \in Seq(Plain(n, C))
    PROVE  d \in Seq(Plain(m, C))
  <1>1. Block(n) \subseteq Block(m)
    BY BlockGrows, OutlineAssumption
  <1>2. Plain(n, C) \subseteq Plain(m, C)
    BY <1>1 DEF Plain
  <1> QED BY <1>2, SeqMonotonic

--------------------------------------------------------------------------------
(* The baseline of the editor.                                                 *)

(* It is the server's content when it was at that revision.                    *)
Current ==
    /\ priorRev \in Nat /\ priorRev <= revision
    /\ priorRev = revision => prior = tree
    /\ WellFormed(prior) /\ Acyclic(prior)

LEMMA CurrentKept ==
    ASSUME Sound, Current, Sound',
           \/ UNCHANGED <<prior, priorRev, tree, revision>>
           \/ UNCHANGED <<prior, priorRev>> /\ revision' = revision + 1
           \/ prior' = tree' /\ priorRev' = revision'
    PROVE  Current'
  <1>1. revision \in Nat /\ revision' \in Nat /\ WellFormed(tree') /\ Acyclic(tree')
    BY DEF Sound, Grown
  <1> QED BY <1>1 DEF Current

LEMMA CurrentSteps ==
    ASSUME Sound, Current, [Next]_vars, Sound'
    PROVE  Current'
  <1>1. CASE Gesture
    <2>1. PICK new \in Seq(Block(minted)) : Edit(new)
      <3>1. Editing /\ Editable(Block(minted)) /\ doc \in Seq(Block(minted))
        BY BlocksEditable, OutlineAssumption DEF Sound, Editing
      <3> QED BY <3>1, <1>1, GestureEdits
    <2>2. UNCHANGED <<prior, priorRev, tree, revision>>
      BY <2>1 DEF Edit, server
    <2> QED BY <2>2, CurrentKept
  <1>2. CASE FlushNothing \/ FlushSave \/ FlushStructure \/ SaveRefused \/ MergeRefused \/ OpRefused
    <2>1. UNCHANGED <<prior, priorRev, tree, revision>>
      BY <1>2 DEF FlushNothing, FlushSave, FlushStructure, SaveRefused, MergeRefused, OpRefused, server
    <2> QED BY <2>1, CurrentKept
  <1>3. CASE SaveAccepted \/ OpAccepted
    <2>1. prior' = tree' /\ priorRev' = revision'
      BY <1>3 DEF SaveAccepted, OpAccepted, Adopt, Write
    <2> QED BY <2>1, CurrentKept
  <1>4. CASE Merge \/ OpMerge
    <2>1. UNCHANGED <<tree, revision>>
      BY <1>4 DEF Merge, OpMerge, server
    <2>2. UNCHANGED <<prior, priorRev>> \/ (prior' = tree /\ priorRev' = revision)
      BY <1>4 DEF Merge, OpMerge, Conflict, MergeOntoScreen
    <2> QED BY <2>1, <2>2, CurrentKept
  <1>5. CASE OpSave
    <2>1. \/ prior' = tree' /\ priorRev' = revision'
          \/ UNCHANGED <<prior, priorRev, tree, revision>>
      BY <1>5 DEF OpSave, Adopt, server
    <2> QED BY <2>1, CurrentKept
  <1>6. CASE Fail
    <2>1. UNCHANGED <<prior, priorRev>> /\ (UNCHANGED <<tree, revision>> \/ revision' = revision + 1)
      BY <1>6 DEF Fail, server, Write
    <2> QED BY <2>1, CurrentKept
  <1>7. CASE OtherDevice
    <2>1. UNCHANGED <<prior, priorRev>> /\ revision' = revision + 1
      BY <1>7 DEF OtherDevice
    <2> QED BY <2>1, CurrentKept
  <1>8. CASE UNCHANGED vars
    <2>1. UNCHANGED <<prior, priorRev, tree, revision>>
      BY <1>8 DEF vars
    <2> QED BY <2>1, CurrentKept
  <1> QED BY <1>1, <1>2, <1>3, <1>4, <1>5, <1>6, <1>7, <1>8 DEF Next, Sync

--------------------------------------------------------------------------------
(* When the indicator says that everything is saved.                           *)

(* Whether something is to be sent does not depend on the ids it would get.    *)
LEMMA NoDeltaAlways ==
    ASSUME NEW d, NEW c, NEW n, NEW m, NoDelta(FlushToContent(d, c, n))
    PROVE  NoDelta(FlushToContent(d, c, m))
  <1> DEFINE changed == {i \in DOMAIN d : SentKind(d[i], c) # "none"
                            /\ (~IsEdit(d[i], c) \/ FlushedAs(d, c, i) # c[d[i].id])}
             rows(k) == {<<IF IsFlip(d[i], c)
                           THEN k + 1 + Earlier(d, i, LAMBDA j : IsFlip(d[j], c))
                           ELSE d[i].id, FlushedAs(d, c, i)>> : i \in changed}
  <1>1. \A k : /\ FlushToContent(d, c, k).deletes = FlushToContent(d, c, n).deletes
               /\ DOMAIN FlushToContent(d, c, k).upserts = {row[1] : row \in rows(k)}
    BY DEF FlushToContent
  <1>2. {row[1] : row \in rows(n)} = {}
    BY <1>1 DEF NoDelta
  <1>3. \A i \in changed : FALSE
    BY <1>2
  <1>4. {row[1] : row \in rows(m)} = {}
    BY <1>3
  <1> HIDE DEF changed, rows
  <1> QED BY <1>1, <1>4 DEF NoDelta

LEMMA SettleClean ==
    ASSUME NEW failed, Settle(failed)
    PROVE  Cleanly'
  <1> SUFFICES ASSUME status' = "clean"
               PROVE  /\ NoDelta(FlushToContent(doc', prior', minted'))
                      /\ StructuralIntents(doc', prior') = {}
    BY DEF Cleanly
  <1>1. ~Left(doc', prior')
    BY DEF Settle
  <1> QED BY <1>1, NoDeltaAlways DEF Left

LEMMA DrainClean ==
    ASSUME NEW base, NEW tries, NEW rejected, Drain(base, tries, rejected)
    PROVE  Cleanly'
  <1>1. CASE StructuralNeeds(doc', prior') = << >>
    BY <1>1, SettleClean DEF Drain
  <1>2. CASE StructuralNeeds(doc', prior') # << >>
    BY <1>2 DEF Drain, Idle, Cleanly
  <1> QED BY <1>1, <1>2

LEMMA RetryClean ==
    ASSUME Retry
    PROVE  Cleanly'
  <1>1. CASE sync' = [Idle EXCEPT !.pc = "conflict"]
    BY <1>1 DEF Idle, Cleanly
  <1>2. CASE Drain(sync.base, sync.tries + 1, sync.rejected)
    BY <1>2, DrainClean
  <1> QED BY <1>1, <1>2 DEF Retry

LEMMA BusyClean ==
    ASSUME Sound, NEW pc, pc # "idle",
           \/ sync' = [sync EXCEPT !.pc = pc]
           \/ \E body : sync' = [sync EXCEPT !.pc = pc, !.body = body]
           \/ \E queue : sync.pc = pc /\ sync' = [sync EXCEPT !.queue = queue]
           \/ \E body : sync' = [Idle EXCEPT !.pc = pc, !.body = body]
           \/ sync' = [Idle EXCEPT !.pc = pc]
    PROVE  Cleanly'
  <1>1. "pc" \in DOMAIN sync
    BY DEF Sound, Holding
  <1>2. sync'.pc = pc
    BY <1>1 DEF Idle
  <1> QED BY <1>2 DEF Cleanly

LEMMA CleanSteps ==
    ASSUME Sound, Cleanly, [Next]_vars
    PROVE  Cleanly'
  <1>1. CASE Gesture
    <2>1. PICK new \in Seq(Block(minted)) : Edit(new)
      <3>1. Editing /\ Editable(Block(minted)) /\ doc \in Seq(Block(minted))
        BY BlocksEditable, OutlineAssumption DEF Sound, Editing
      <3> QED BY <3>1, <1>1, GestureEdits
    <2>2. status' # "clean"
      BY <2>1 DEF Edit
    <2> QED BY <2>2 DEF Cleanly
  <1>2. CASE FlushNothing
    BY <1>2 DEF FlushNothing, Cleanly
  <1>3. CASE FlushSave
    BY <1>3, BusyClean DEF FlushSave
  <1>4. CASE FlushStructure
    BY <1>4, DrainClean DEF FlushStructure
  <1>5. CASE SaveAccepted
    BY <1>5, DrainClean DEF SaveAccepted
  <1>6. CASE SaveRefused \/ OpRefused
    BY <1>6, BusyClean DEF SaveRefused, OpRefused
  <1>7. CASE Merge
    <2>1. \/ status' = "error"
          \/ Conflict
          \/ Drain(tree, 0, FALSE)
          \/ sync' = [sync EXCEPT !.pc = "merge put",
                        !.body = RebasedDelta(Merged(prior, tree, FlushToContent(doc, prior, minted)), tree)]
      BY <1>7 DEF Merge
    <2>2. CASE status' = "error"
      BY <2>2 DEF Cleanly
    <2>3. CASE Conflict
      BY <2>3, BusyClean DEF Conflict
    <2> QED BY <2>1, <2>2, <2>3, DrainClean, BusyClean
  <1>8. CASE MergeRefused
    <2>1. status' # "clean" \/ Conflict \/ sync' = [sync EXCEPT !.pc = "get"]
      BY <1>8 DEF MergeRefused, Failing
    <2>2. CASE status' # "clean"
      BY <2>2 DEF Cleanly
    <2>3. CASE Conflict
      BY <2>3, BusyClean DEF Conflict
    <2> QED BY <2>1, <2>2, <2>3, BusyClean
  <1>9. CASE OpAccepted
    <2>1. \/ sync.pc = "op" /\ sync' = [sync EXCEPT !.queue = Tail(sync.queue)]
          \/ Settle(sync.rejected)
      BY <1>9 DEF OpAccepted
    <2> QED BY <2>1, BusyClean, SettleClean
  <1>10. CASE OpMerge
    <2>1. \/ Settle(TRUE)
          \/ Conflict
          \/ Retry
          \/ sync' = [sync EXCEPT !.pc = "op put",
                        !.body = RebasedDelta(Merged(prior, tree, FlushToContent(doc, prior, minted)), tree)]
      BY <1>10 DEF OpMerge
    <2>2. CASE Conflict
      BY <2>2, BusyClean DEF Conflict
    <2> QED BY <2>1, <2>2, SettleClean, RetryClean, BusyClean
  <1>11. CASE OpSave
    BY <1>11, RetryClean, SettleClean DEF OpSave
  <1>12. CASE Fail
    <2>1. Settle(TRUE) \/ status' # "clean"
      BY <1>12 DEF Fail, Failing
    <2>2. CASE status' # "clean"
      BY <2>2 DEF Cleanly
    <2> QED BY <2>1, <2>2, SettleClean
  <1>13. CASE OtherDevice
    BY <1>13 DEF OtherDevice, Cleanly
  <1>14. CASE UNCHANGED vars
    BY <1>14 DEF vars, Cleanly
  <1> QED BY <1>1, <1>2, <1>3, <1>4, <1>5, <1>6, <1>7, <1>8, <1>9, <1>10, <1>11, <1>12, <1>13, <1>14
         DEF Next, Sync

--------------------------------------------------------------------------------
(* Which units and blocks are notation homes, and the order of the blocks.     *)

Placed(C) ==
    /\ C \subseteq 1..minted
    /\ doc \in Seq(Plain(minted, C))
    /\ HomesOf(tree, C)
    /\ HomesOf(prior, C)

Pending(C) ==
    /\ HomesOf(sync.body.upserts, C)
    /\ sync.queue \in Seq(NeedOf(minted, C))

(* The document stays as it is.                                                *)
LEMMA PlacedStays ==
    ASSUME NEW C, Placed(C), doc' = doc, minted \in 0..MaxUnit, minted' \in 0..MaxUnit,
           minted <= minted', HomesOf(tree', C), HomesOf(prior', C)
    PROVE  Placed(C)'
  <1>1. C \subseteq 1..minted'
    BY MintedGrows DEF Placed
  <1>2. doc' \in Seq(Plain(minted', C))
    BY PlainGrows DEF Placed
  <1> QED BY <1>1, <1>2 DEF Placed

(* What is held stays, while ids are given out.                                *)
LEMMA PendingStays ==
    ASSUME Sound, NEW C, Pending(C), sync'.body = sync.body, sync'.queue = sync.queue,
           minted' \in 0..MaxUnit, minted <= minted',
           NEW E, \A u \in 1..minted : u \in E <=> u \in C
    PROVE  Pending(E)'
  <1>1. minted \in 0..MaxUnit /\ DOMAIN sync.body.upserts \subseteq 1..minted
    BY DEF Sound, Editing, Holding
  <1>2. HomesOf(sync.body.upserts, E)
    BY <1>1, HomesGrow DEF Pending
  <1>3. sync.queue \in Seq(NeedOf(minted', E))
    BY <1>1, NeedsGrow DEF Pending
  <1> QED BY <1>2, <1>3 DEF Pending

LEMMA NothingPends ==
    ASSUME NEW C, sync'.body = NoRequest, sync'.queue = << >>
    PROVE  Pending(C)'
  <1>1. << >> \in Seq(NeedOf(minted', C))
    BY EmptySeq
  <1>2. HomesOf(sync'.body.upserts, C)
    BY DEF NoRequest, HomesOf
  <1> QED BY <1>1, <1>2 DEF Pending

LEMMA IdlePends ==
    ASSUME NEW C, sync' = Idle \/ sync' = [Idle EXCEPT !.pc = "conflict"]
    PROVE  Pending(C)'
  BY NothingPends DEF Idle

LEMMA DrainPends ==
    ASSUME NEW C, Placed(C)', Editing', Known',
           NEW base, NEW tries, NEW rejected, Drain(base, tries, rejected)
    PROVE  Pending(C)'
  <1> DEFINE needs == StructuralNeeds(doc', prior')
  <1>1. CASE needs = << >>
    BY <1>1, IdlePends DEF Drain, Settle
  <1>2. CASE needs # << >>
    <2>1. needs \in Seq(NeedOf(minted', C))
      BY NeedsOf DEF Placed, Editing, Known
    <2>2. sync' = [Idle EXCEPT !.pc = "op", !.queue = needs, !.base = base,
                               !.tries = tries, !.rejected = rejected]
      BY <1>2 DEF Drain
    <2> HIDE DEF needs
    <2>3. sync'.body = NoRequest /\ sync'.queue = needs
      BY <2>2 DEF Idle
    <2>4. HomesOf(sync'.body.upserts, C)
      BY <2>3 DEF NoRequest, HomesOf
    <2> QED BY <2>1, <2>3, <2>4 DEF Pending
  <1> QED BY <1>1, <1>2

LEMMA RetryPends ==
    ASSUME NEW C, Placed(C)', Editing', Known', Retry
    PROVE  Pending(C)'
  <1>1. \/ sync' = [Idle EXCEPT !.pc = "conflict"]
        \/ Drain(sync.base, sync.tries + 1, sync.rejected)
    BY DEF Retry
  <1> QED BY <1>1, IdlePends, DrainPends

(* A content comes on the screen in place of the document.                     *)
LEMMA PlacedAnew ==
    ASSUME Sound, NEW C, Placed(C), NEW n \in 0..MaxUnit, minted <= n,
           NEW c, IsContent(c), Acyclic(c), Apart(c), DOMAIN c \subseteq 1..n, HomesOf(c, C),
           NEW base,
           n + Unstamped(Overlaid(ProjectToDoc(c), StructuralIntents(doc, base))) <= MaxUnit,
           doc' = Settled(Overlaid(ProjectToDoc(c), StructuralIntents(doc, base)), n),
           minted' = n + Unstamped(Overlaid(ProjectToDoc(c), StructuralIntents(doc, base)))
    PROVE  Reshown(c, C, n, doc', minted')
  <1> DEFINE keep == StructuralIntents(doc, base)
  <1>1. keep \in SUBSET Block(minted)
    <2>1. \A i \in DOMAIN doc : doc[i] \in Block(minted)
      BY LenProperties, ElementOfSeq DEF Sound, Editing
    <2>2. BlocksOf(doc) \subseteq Block(minted)
      BY <2>1 DEF BlocksOf, ToSet
    <2> QED BY <2>2 DEF StructuralIntents
  <1>2. C \subseteq 1..n
    <2>1. minted \in Nat /\ n \in Nat
      BY OutlineAssumption DEF Sound, Editing
    <2> QED BY <2>1 DEF Placed
  <1> HIDE DEF keep
  <1> DEFINE o == Overlaid(ProjectToDoc(c), keep)
  <1>3. /\ n + Unstamped(o) <= MaxUnit /\ doc' = Settled(o, n) /\ minted' = n + Unstamped(o)
    BY DEF keep
  <1>4. Reshown(c, C, n, Settled(o, n), n + Unstamped(o))
    BY <1>1, <1>2, <1>3, Reprojected
  <1> HIDE DEF o
  <1> QED BY <1>3, <1>4

Laid ==
    /\ \E C : Placed(C) /\ Pending(C)
    /\ Nested(doc)

LEMMA LaidQuietly ==
    ASSUME NEW C, Placed(C)', Pending(C)', Nested(doc), doc' = doc
    PROVE  Laid'
  BY DEF Laid

(* The document is taken anew.                                                 *)
LEMMA AnewLaid ==
    ASSUME Sound, NEW C, Placed(C), NEW n \in 0..MaxUnit, minted <= n, NEW c,
           Reshown(c, C, n, doc', minted'),
           DOMAIN tree' \subseteq 1..n, HomesOf(tree', C),
           DOMAIN prior' \subseteq 1..n, HomesOf(prior', C)
    PROVE  /\ \E E : (\A u \in 1..n : u \in E <=> u \in C) /\ Placed(E)'
           /\ Nested(doc')
  <1>1. PICK E \in SUBSET (1..minted') :
            (\A u \in 1..n : u \in E <=> u \in C) /\ doc' \in Seq(Plain(minted', E))
    BY DEF Reshown
  <1>2. HomesOf(tree', E) /\ HomesOf(prior', E)
    BY <1>1, HomesGrow
  <1>3. Placed(E)'
    BY <1>1, <1>2 DEF Placed
  <1>4. Nested(doc')
    BY DEF Reshown
  <1> QED BY <1>1, <1>3, <1>4

LEMMA GestureLaid ==
    ASSUME Sound, Laid, Gesture
    PROVE  Laid'
  <1>1. PICK C : Placed(C) /\ Pending(C)
    BY DEF Laid
  <1>2. Editing /\ Known /\ minted \in 0..MaxUnit
    BY DEF Sound, Editing
  <1>3. PICK new \in Seq(Plain(minted, C)) : Edit(new)
    <2>1. Editable(Plain(minted, C)) /\ doc \in Seq(Plain(minted, C))
      BY <1>1, <1>2, PlainEditable DEF Placed
    <2> QED BY <1>2, <2>1, GestureEdits
  <1>4. /\ minted + Unstamped(new) <= MaxUnit
        /\ doc' = Settled(new, minted) /\ minted' = minted + Unstamped(new)
        /\ tree' = tree /\ prior' = prior /\ sync' = sync
    BY <1>3 DEF Edit, server
  <1>5. PICK E \in SUBSET (1..minted') :
            /\ \A u \in 1..minted : u \in E <=> u \in C
            /\ doc' \in Seq(Plain(minted', E))
    BY <1>1, <1>2, <1>4, SettledPlain DEF Placed
  <1>6. Placed(E)'
    <2>1. HomesOf(tree, E) /\ HomesOf(prior, E)
      BY <1>1, <1>2, <1>5, HomesGrow DEF Placed, Known
    <2> QED BY <2>1, <1>4, <1>5 DEF Placed
  <1>7. Pending(E)'
    <2>1. minted' \in 0..MaxUnit /\ minted <= minted'
      <3>1. new \in Seq(Block(minted))
        BY PlainBlocks
      <3> QED BY <1>2, <1>3, <3>1, EditKeeps DEF Editing
    <2> QED BY <2>1, <1>1, <1>4, <1>5, PendingStays
  <1>8. Nested(doc')
    BY <1>1, <1>2, <1>4, SettledNested DEF Placed
  <1> QED BY <1>6, <1>7, <1>8 DEF Laid

(* The document and the contents stay.                                         *)
LEMMA QuietPlaced ==
    ASSUME Sound, NEW C, Placed(C), UNCHANGED <<doc, tree, prior>>,
           minted' \in 0..MaxUnit, minted <= minted'
    PROVE  Placed(C)'
  <1>1. minted \in 0..MaxUnit /\ HomesOf(tree', C) /\ HomesOf(prior', C)
    BY DEF Sound, Editing, Placed
  <1> QED BY <1>1, PlacedStays

LEMMA FlushLaid ==
    ASSUME Sound, Sound', Laid, FlushNothing \/ FlushSave \/ FlushStructure
    PROVE  Laid'
  <1>1. PICK C : Placed(C) /\ Pending(C)
    BY DEF Laid
  <1>2. Editing /\ Known /\ minted \in 0..MaxUnit /\ Editing' /\ Known' /\ minted' \in 0..MaxUnit
    BY DEF Sound, Editing
  <1>3. UNCHANGED <<doc, tree, prior>>
    BY DEF FlushNothing, FlushSave, FlushStructure, server
  <1>4. minted <= minted'
    <2>1. minted \in Nat
      BY <1>2, OutlineAssumption
    <2>2. CASE FlushSave
      <3>1. minted' = minted + Flips(doc, prior) /\ Flips(doc, prior) \in Nat
        BY <2>2, <1>2, SentIds DEF FlushSave, Editing, Known
      <3> QED BY <3>1, <2>1
    <2>3. CASE FlushNothing \/ FlushStructure
      BY <2>1, <2>3 DEF FlushNothing, FlushStructure
    <2> QED BY <2>2, <2>3
  <1>5. Placed(C)'
    BY <1>1, <1>2, <1>3, <1>4, QuietPlaced
  <1>6. CASE FlushNothing
    <2>1. sync' = sync
      BY <1>6 DEF FlushNothing
    <2>2. Pending(C)'
      BY <2>1, <1>1, <1>2, <1>4, PendingStays
    <2> QED BY <2>2, <1>3, <1>5, LaidQuietly DEF Laid
  <1>7. CASE FlushSave
    <2> DEFINE f == FlushToContent(doc, prior, minted)
    <2>1. sync' = [Idle EXCEPT !.pc = "put", !.body = f]
      BY <1>7 DEF FlushSave
    <2>2. HomesOf(f.upserts, C)
      BY <1>1, <1>2, FlushHomes DEF Placed, Editing, Known
    <2> HIDE DEF f
    <2>3. sync'.body = f /\ sync'.queue = << >>
      BY <2>1 DEF Idle
    <2>4. << >> \in Seq(NeedOf(minted', C))
      BY EmptySeq
    <2>5. Pending(C)'
      BY <2>2, <2>3, <2>4 DEF Pending
    <2> QED BY <2>5, <1>3, <1>5, LaidQuietly DEF Laid
  <1>8. CASE FlushStructure
    <2>1. Drain(prior, 0, ~NoDelta(FlushToContent(doc, prior, minted)))
      BY <1>8 DEF FlushStructure
    <2>2. Pending(C)'
      BY <2>1, <1>2, <1>5, DrainPends
    <2> QED BY <2>2, <1>3, <1>5, LaidQuietly DEF Laid
  <1> QED BY <1>6, <1>7, <1>8

(* A save is carried out, answered or not.                                     *)
LEMMA SaveDoneHomes ==
    ASSUME NEW C, Placed(C), Pending(C)
    PROVE  HomesOf(SaveDone(sync.body), C)
  BY SavedHomes DEF Placed, Pending, SaveDone

LEMMA SaveLaid ==
    ASSUME Sound, Sound', Laid, SaveAccepted \/ OpSave
    PROVE  Laid'
  <1>1. PICK C : Placed(C) /\ Pending(C)
    BY DEF Laid
  <1>2. Editing' /\ Known' /\ minted \in 0..MaxUnit /\ minted \in Nat
    BY OutlineAssumption DEF Sound, Editing
  <1>3. UNCHANGED <<doc, minted>>
    BY DEF SaveAccepted, OpSave
  <1>4. \/ tree' = SaveDone(sync.body) /\ prior' = tree'
        \/ tree' = tree /\ prior' = prior
    BY DEF SaveAccepted, OpSave, Write, Adopt, server
  <1>5. HomesOf(tree', C) /\ HomesOf(prior', C)
    BY <1>1, <1>4, SaveDoneHomes DEF Placed
  <1>6. Placed(C)'
    BY <1>1, <1>2, <1>3, <1>5, PlacedStays
  <1>7. \/ Drain(tree', 0, FALSE)
        \/ Retry
        \/ Settle(TRUE)
    BY DEF SaveAccepted, OpSave
  <1>8. Pending(C)'
    <2>1. CASE Settle(TRUE)
      BY <2>1, IdlePends DEF Settle
    <2> QED BY <2>1, <1>2, <1>6, <1>7, DrainPends, RetryPends
  <1> QED BY <1>3, <1>6, <1>8, LaidQuietly DEF Laid

(* An operation is carried out, answered or not.                               *)
LEMMA DoneHomes ==
    ASSUME Grown, NEW C, NEW n, NEW need \in NeedOf(n, C), Allowed(need), HomesOf(tree, C)
    PROVE  HomesOf(Done(need), C)
  <1>1. need \in Need /\ need.unit \notin C /\ need.at \in Place
    BY OutlineAssumption DEF NeedOf, Need
  <1>2. CASE need.op = "toggle"
    BY <1>2, ToggledHomes DEF Allowed, Done, Grown
  <1>3. CASE need.op # "toggle"
    <2>1. /\ Done(need) = Reparented(tree, need.unit, need.parent, need.at)
          /\ need.unit \in DOMAIN tree /\ need.parent \in DOMAIN tree \cup {Top}
      BY <1>3, Zenon DEF Allowed, Done, MayReparent
    <2> QED BY <1>1, <2>1, ReparentedHomes DEF Grown
  <1> QED BY <1>2, <1>3

LEMMA QueueIs ==
    ASSUME NEW C, Pending(C), sync.queue # << >>
    PROVE  /\ Head(sync.queue) \in NeedOf(minted, C)
           /\ Tail(sync.queue) \in Seq(NeedOf(minted, C))
  <1>1. sync.queue \in Seq(NeedOf(minted, C))
    BY DEF Pending
  <1> QED BY <1>1, HeadTailProperties

LEMMA OpAcceptedLaid ==
    ASSUME Sound, Sound', Laid, OpAccepted
    PROVE  Laid'
  <1> DEFINE need == Head(sync.queue)
             done == Done(need)
             o    == Overlaid(ProjectToDoc(done), StructuralIntents(doc, sync.base))
  <1>1. PICK C : Placed(C) /\ Pending(C)
    BY DEF Laid
  <1>2. /\ Grown /\ Holding /\ DOMAIN tree \subseteq 1..minted
        /\ minted \in 0..MaxUnit /\ minted \in Nat /\ minted <= minted
    BY OutlineAssumption DEF Sound, Editing, Known
  <1>3. sync.pc = "op" /\ Allowed(need) /\ tree' = done /\ prior' = done
    BY DEF OpAccepted, Write, Adopt
  <1>4. sync.queue # << >>
    BY <1>2, <1>3 DEF Holding
  <1>5. need \in NeedOf(minted, C) /\ need \in Need
    BY <1>1, <1>4, QueueIs DEF NeedOf
  <1> HIDE DEF need
  <1>6. /\ HomesOf(done, C)
        /\ IsContent(done) /\ WellFormed(done) /\ Acyclic(done) /\ DOMAIN done \subseteq 1..minted
    BY <1>1, <1>2, <1>3, <1>5, DoneHomes, DoneIs DEF Placed
  <1>7. CASE UNCHANGED <<doc, minted>>
    <2>1. Placed(C)'
      <3> HIDE DEF done
      <3> QED BY <1>1, <1>2, <1>3, <1>6, <1>7, PlacedStays
    <2>2. Pending(C)'
      <3>1. CASE Len(sync.queue) > 1
        <4>1. sync' = [sync EXCEPT !.queue = Tail(sync.queue)]
          BY <3>1 DEF OpAccepted
        <4>2. sync'.body = sync.body /\ sync'.queue = Tail(sync.queue)
          BY <4>1, <1>2 DEF Holding
        <4> QED BY <4>2, <1>1, <1>4, <1>7, QueueIs DEF Pending
      <3>2. CASE ~(Len(sync.queue) > 1)
        <4>1. sync' = Idle
          BY <3>2 DEF OpAccepted, Settle
        <4> QED BY <4>1, IdlePends
      <3> QED BY <3>1, <3>2
    <2> QED BY <2>1, <2>2, <1>7, LaidQuietly DEF Laid
  <1>8. CASE ~UNCHANGED <<doc, minted>>
    <2>1. /\ minted + Unstamped(o) <= MaxUnit
          /\ doc' = Settled(o, minted) /\ minted' = minted + Unstamped(o)
          /\ sync' = Idle
      BY <1>8 DEF OpAccepted, need, Settle
    <2> HIDE DEF done
    <2>2. Apart(done)
      BY <1>6 DEF Apart, WellFormed
    <2>3. Reshown(done, C, minted, doc', minted')
      BY <1>1, <1>2, <1>6, <2>1, <2>2, PlacedAnew
    <2>4. (\E E : (\A u \in 1..minted : u \in E <=> u \in C) /\ Placed(E)') /\ Nested(doc')
      BY <1>1, <1>2, <1>3, <1>6, <2>3, AnewLaid
    <2>5. PICK E : Placed(E)'
      BY <2>4
    <2>6. Pending(E)'
      BY <2>1, IdlePends
    <2> QED BY <2>4, <2>5, <2>6 DEF Laid
  <1> QED BY <1>7, <1>8

(* The screen of a merge, and what it still has to save.                       *)
LEMMA MergePlaced ==
    ASSUME Sound, ~Clash(prior, tree, FlushToContent(doc, prior, minted)),
           MergeOntoScreen(Merged(prior, tree, FlushToContent(doc, prior, minted))),
           UNCHANGED <<tree, revision, gestures>>, NEW C, Placed(C)
    PROVE  LET M == Merged(prior, tree, FlushToContent(doc, prior, minted))
               n == minted + Flips(doc, prior)
           IN  /\ n \in 0..MaxUnit /\ minted <= n /\ minted <= minted'
               /\ Reshown(M, C, n, doc', minted')
               /\ \E E : /\ \A u \in 1..n : u \in E <=> u \in C
                         /\ Placed(E)'
                         /\ HomesOf(RebasedDelta(M, tree).upserts, E)
               /\ Nested(doc')
  <1> DEFINE M == Merged(prior, tree, FlushToContent(doc, prior, minted))
             n == minted + Flips(doc, prior)
             r == RebasedDelta(M, tree)
             o == Overlaid(ProjectToDoc(M), StructuralIntents(doc, prior))
  <1>1. /\ n <= MaxUnit /\ n + Unstamped(o) <= MaxUnit
        /\ doc' = Settled(o, n) /\ minted' = n + Unstamped(o)
        /\ prior' = tree
    BY DEF MergeOntoScreen
  <1>2. /\ n \in 0..MaxUnit /\ minted <= n /\ minted <= minted'
        /\ IsContent(M) /\ Acyclic(M) /\ Apart(M) /\ DOMAIN M \subseteq 1..n
    BY <1>1, MergeMerges, MergeOntoScreenKeeps
  <1>3. HomesOf(FlushToContent(doc, prior, minted).upserts, C)
    BY FlushHomes DEF Placed, Sound, Editing, Known
  <1>4. HomesOf(M, C)
    BY <1>1, <1>3, MergedHomes DEF Placed
  <1>5. HomesOf(r.upserts, C) /\ DOMAIN r.upserts \subseteq 1..n
    <2> HIDE DEF M
    <2>1. DOMAIN r.upserts \subseteq DOMAIN M
      BY <1>2, RebasedIs
    <2>2. HomesOf(r.upserts, C)
      BY <1>2, <1>4, RebasedHomes
    <2> QED BY <2>1, <2>2, <1>2
  <1> HIDE DEF M, n
  <1>6. Reshown(M, C, n, doc', minted')
    BY <1>1, <1>2, <1>4, PlacedAnew
  <1>7. DOMAIN tree \subseteq 1..n /\ HomesOf(tree, C)
    <2>1. DOMAIN tree \subseteq 1..minted /\ minted \in Nat /\ n \in Nat
      BY <1>2, OutlineAssumption DEF Sound, Editing, Known
    <2> QED BY <2>1, <1>2 DEF Placed
  <1>8. (\E E : (\A u \in 1..n : u \in E <=> u \in C) /\ Placed(E)') /\ Nested(doc')
    BY <1>1, <1>2, <1>6, <1>7, AnewLaid
  <1>9. PICK E : (\A u \in 1..n : u \in E <=> u \in C) /\ Placed(E)'
    BY <1>8
  <1> HIDE DEF r
  <1>10. HomesOf(r.upserts, E)
    BY <1>5, <1>9, HomesGrow
  <1> QED BY <1>2, <1>6, <1>8, <1>9, <1>10 DEF M, n, r

LEMMA MergeLaid ==
    ASSUME Sound, Sound', Laid, Merge \/ OpMerge
    PROVE  Laid'
  <1> DEFINE mine == FlushToContent(doc, prior, minted)
             M    == Merged(prior, tree, mine)
             r    == RebasedDelta(M, tree)
  <1>1. PICK C : Placed(C) /\ Pending(C)
    BY DEF Laid
  <1>2. /\ UNCHANGED <<tree, revision, gestures>> /\ Holding /\ Editing' /\ Known'
        /\ minted \in 0..MaxUnit /\ minted' \in 0..MaxUnit
    BY DEF Merge, OpMerge, server, Sound, Editing
  <1>3. CASE UNCHANGED <<doc, minted, prior>> /\ (sync' = Idle \/ sync' = [Idle EXCEPT !.pc = "conflict"])
    <2>1. minted <= minted'
      BY <1>2, <1>3, OutlineAssumption
    <2>2. Placed(C)'
      BY <1>1, <1>2, <1>3, <2>1, QuietPlaced
    <2>3. Pending(C)'
      BY <1>3, IdlePends
    <2> QED BY <1>3, <2>2, <2>3, LaidQuietly DEF Laid
  <1>4. CASE /\ ~Clash(prior, tree, mine) /\ MergeOntoScreen(M)
             /\ \/ Drain(tree, 0, FALSE)
                \/ Retry
                \/ \E pc : sync' = [sync EXCEPT !.pc = pc, !.body = r]
    <2>1. /\ \E E : /\ \A u \in 1..(minted + Flips(doc, prior)) : u \in E <=> u \in C
                    /\ Placed(E)'
                    /\ HomesOf(r.upserts, E)
          /\ Nested(doc')
          /\ minted + Flips(doc, prior) \in 0..MaxUnit /\ minted <= minted + Flips(doc, prior)
          /\ minted <= minted'
      BY <1>1, <1>2, <1>4, MergePlaced
    <2> HIDE DEF mine, M, r
    <2>2. PICK E : /\ \A u \in 1..(minted + Flips(doc, prior)) : u \in E <=> u \in C
                   /\ Placed(E)'
                   /\ HomesOf(r.upserts, E)
      BY <2>1
    <2>3. Pending(E)'
      <3>1. CASE \E pc : sync' = [sync EXCEPT !.pc = pc, !.body = r]
        <4>1. sync'.body = r /\ sync'.queue = sync.queue
          BY <3>1, <1>2 DEF Holding
        <4>2. \A u \in 1..minted : u \in E <=> u \in C
          BY <2>1, <2>2, <1>2, OutlineAssumption
        <4>3. sync.queue \in Seq(NeedOf(minted', E))
          BY <1>1, <1>2, <2>1, <4>2, NeedsGrow DEF Pending
        <4> QED BY <2>2, <4>1, <4>3 DEF Pending
      <3> QED BY <3>1, <1>2, <1>4, <2>2, DrainPends, RetryPends
    <2> QED BY <2>1, <2>2, <2>3 DEF Laid
  <1>5. CASE revision <= priorRev
    <2>1. UNCHANGED <<doc, minted, prior>> /\ sync' = Idle
      BY <1>5 DEF Merge, OpMerge, Settle
    <2> QED BY <2>1, <1>3
  <1>6. CASE ~(revision <= priorRev) /\ Clash(prior, tree, mine)
    <2>1. Conflict
      BY <1>6 DEF Merge, OpMerge
    <2> QED BY <2>1, <1>3 DEF Conflict
  <1>7. CASE ~(revision <= priorRev) /\ ~Clash(prior, tree, mine)
    <2>1. /\ MergeOntoScreen(M)
          /\ \/ Drain(tree, 0, FALSE)
             \/ Retry
             \/ sync' = [sync EXCEPT !.pc = "merge put", !.body = r]
             \/ sync' = [sync EXCEPT !.pc = "op put", !.body = r]
      BY <1>7 DEF Merge, OpMerge
    <2> QED BY <2>1, <1>4, <1>7
  <1> QED BY <1>5, <1>6, <1>7

LEMMA FailLaid ==
    ASSUME Sound, Sound', Laid, Fail
    PROVE  Laid'
  <1>1. PICK C : Placed(C) /\ Pending(C)
    BY DEF Laid
  <1>2. /\ UNCHANGED <<doc, minted, prior>> /\ Holding /\ Grown
        /\ minted \in 0..MaxUnit /\ minted \in Nat
    <2>1. UNCHANGED <<doc, minted, prior>>
      BY DEF Fail
    <2> QED BY <2>1, OutlineAssumption DEF Sound, Editing
  <1>3. HomesOf(tree', C)
    <2>1. CASE UNCHANGED server
      BY <2>1, <1>1 DEF server, Placed
    <2>2. CASE ~UNCHANGED server /\ sync.pc = "op"
      <3>1. Allowed(Head(sync.queue)) /\ tree' = Done(Head(sync.queue))
        BY <2>2 DEF Fail, Write
      <3>2. Head(sync.queue) \in NeedOf(minted, C)
        BY <1>1, <1>2, <2>2, QueueIs DEF Holding
      <3>3. HomesOf(Done(Head(sync.queue)), C)
        BY <1>1, <1>2, <3>1, <3>2, DoneHomes DEF Placed
      <3> QED BY <3>1, <3>3
    <2>3. CASE ~UNCHANGED server /\ sync.pc # "op"
      <3>1. tree' = SaveDone(sync.body)
        BY <2>3 DEF Fail, Write
      <3> QED BY <3>1, <1>1, SaveDoneHomes
    <2> QED BY <2>1, <2>2, <2>3
  <1>4. Placed(C)'
    BY <1>1, <1>2, <1>3, PlacedStays DEF Placed
  <1>5. sync' = Idle
    BY DEF Fail, Settle
  <1>6. Pending(C)'
    BY <1>5, IdlePends
  <1> QED BY <1>2, <1>4, <1>6, LaidQuietly DEF Laid

LEMMA OtherDeviceLaid ==
    ASSUME Sound, Laid, OtherDevice
    PROVE  Laid'
  <1>1. PICK C : Placed(C) /\ Pending(C)
    BY DEF Laid
  <1>2. /\ UNCHANGED <<doc, minted, prior, sync>> /\ Grown
        /\ minted \in 0..MaxUnit /\ minted \in Nat
    BY OutlineAssumption DEF OtherDevice, editor, Sound, Editing
  <1>3. HomesOf(tree, C)
    BY <1>1 DEF Placed
  <1>4. HomesOf(tree', C)
    <2>1. CASE \E u \in DOMAIN tree, x \in Foreign : tree' = [tree EXCEPT ![u].text = <<x>>]
      <3>1. PICK u \in DOMAIN tree, x \in Foreign : tree' = [tree EXCEPT ![u].text = <<x>>]
        BY <2>1
      <3>2. HomesOf([tree EXCEPT ![u].text = <<x>>], C)
        <4>1. PICK t : t = <<x>>
          OBVIOUS
        <4>2. HomesOf([tree EXCEPT ![u].text = t], C)
          BY <1>2, <1>3, TextHomes DEF Grown
        <4> QED BY <4>1, <4>2
      <3> QED BY <3>1, <3>2
    <2>2. CASE \E u \in DOMAIN tree : MayToggle(tree, u) /\ tree' = Toggled(tree, u)
      BY <2>2, <1>2, <1>3, ToggledHomes DEF Grown
    <2>3. CASE \E u \in DOMAIN tree, p \in DOMAIN tree \cup {Top} :
                /\ tree[u].kind # "config" /\ tree' = Reparented(tree, u, p, 0)
      <3>1. 0 \in Place
        BY OutlineAssumption
      <3> QED BY <2>3, <1>2, <1>3, <3>1, ReparentedHomes DEF Grown, HomesOf
    <2> QED BY <2>1, <2>2, <2>3 DEF OtherDevice
  <1>5. Placed(C)'
    BY <1>1, <1>2, <1>4, PlacedStays DEF Placed
  <1>6. Pending(C)'
    BY <1>1, <1>2, PendingStays
  <1> QED BY <1>2, <1>5, <1>6, LaidQuietly DEF Laid

(* A request is refused, and nothing is changed by it.                         *)
LEMMA RefusedLaid ==
    ASSUME Sound, Laid, SaveRefused \/ OpRefused \/ MergeRefused \/ UNCHANGED vars
    PROVE  Laid'
  <1>1. PICK C : Placed(C) /\ Pending(C)
    BY DEF Laid
  <1>2. /\ UNCHANGED <<doc, minted, prior, tree>> /\ Holding
        /\ minted \in 0..MaxUnit /\ minted \in Nat
    <2>1. UNCHANGED <<doc, minted, prior, tree>>
      BY DEF SaveRefused, OpRefused, MergeRefused, server, editor, vars
    <2> QED BY <2>1, OutlineAssumption DEF Sound, Editing
  <1>3. Placed(C)'
    BY <1>1, <1>2, QuietPlaced
  <1>4. \/ sync' = Idle \/ sync' = [Idle EXCEPT !.pc = "conflict"]
        \/ sync' = sync \/ \E pc : sync' = [sync EXCEPT !.pc = pc]
    BY DEF SaveRefused, OpRefused, MergeRefused, Conflict, vars
  <1>5. Pending(C)'
    <2>1. CASE sync' = sync \/ \E pc : sync' = [sync EXCEPT !.pc = pc]
      <3>1. sync'.body = sync.body /\ sync'.queue = sync.queue
        BY <2>1, <1>2 DEF Holding
      <3> QED BY <3>1, <1>1, <1>2, PendingStays
    <2> QED BY <2>1, <1>4, IdlePends
  <1> QED BY <1>2, <1>3, <1>5, LaidQuietly DEF Laid

LEMMA LaidSteps ==
    ASSUME Sound, Laid, [Next]_vars, Sound'
    PROVE  Laid'
  BY GestureLaid, FlushLaid, SaveLaid, OpAcceptedLaid, MergeLaid, FailLaid, OtherDeviceLaid,
     RefusedLaid DEF Next, Sync

--------------------------------------------------------------------------------
(* The headings are on the screen.                                             *)

(* What is to be toggled or moved is on the screen, and what is to become a    *)
(* heading is no equation.                                                     *)
Wanted(queue, d) ==
    \A need \in ToSet(queue) :
        \E b \in BlocksOf(d) : b.id = need.unit /\ (need.op = "toggle" => ~IsDisplay(b))

Headed ==
    /\ HeadsOn(doc, prior)
    /\ sync.pc = "op" => Wanted(sync.queue, doc)

LEMMA NeedsWanted ==
    ASSUME NEW n \in 0..MaxUnit, NEW d \in Seq(Block(n)), Stamps(d), NEW c, IsContent(c),
           HeadsOn(d, c)
    PROVE  Wanted(StructuralNeeds(d, c), d)
  <1> DEFINE S == {need \in Need :
                    \E b \in BlocksOf(d) : b.id = need.unit /\ (need.op = "toggle" => ~IsDisplay(b))}
  <1>1. DOMAIN d = 1..Len(d) /\ \A i \in 1..Len(d) : d[i] \in Block(n) /\ d[i] \in BlocksOf(d)
    <2>1. DOMAIN d = 1..Len(d) /\ \A i \in 1..Len(d) : d[i] \in Block(n)
      BY LenProperties, ElementOfSeq
    <2> QED BY <2>1 DEF BlocksOf, ToSet
  <1>2. ASSUME NEW i \in 1..Len(d), ~d[i].config, d[i].id \in DOMAIN c
        PROVE  /\ d[i].heading # (c[d[i].id].kind = "heading") => Toggle(d[i].id) \in S
               /\ \A at \in 0..MaxUnit : Move(d[i].id, d[i].parent, at) \in S
    <2>1. d[i] \in BlocksOf(d) /\ d[i].parent \in Unit \cup {Top} /\ d[i].id \in Unit
          /\ d[i].heading \in BOOLEAN
      <3>1. d[i] \in Block(n) /\ d[i] \in BlocksOf(d)
        BY <1>1
      <3>2. d[i].parent \in Unit \cup {Top} /\ d[i].heading \in BOOLEAN
        BY <3>1 DEF Block
      <3> QED BY <3>1, <3>2, <1>2 DEF IsContent
    <2>2. \A at \in 0..MaxUnit : Move(d[i].id, d[i].parent, at) \in S
      BY <2>1, OutlineAssumption DEF Need, Move
    <2>3. ASSUME d[i].heading # (c[d[i].id].kind = "heading")
          PROVE  \E b \in BlocksOf(d) : b.id = d[i].id /\ ~IsDisplay(b)
      <3>1. CASE d[i].heading
        BY <2>1, <3>1 DEF IsDisplay
      <3>2. CASE ~d[i].heading
        <4>1. c[d[i].id].kind = "heading"
          BY <2>1, <2>3, <3>2
        <4> QED BY <4>1, <1>2 DEF HeadsOn, Headings
      <3> QED BY <3>1, <3>2
    <2>4. Toggle(d[i].id) \in Need /\ Toggle(d[i].id).unit = d[i].id
      BY <2>1, OutlineAssumption DEF Need, Toggle
    <2>5. d[i].heading # (c[d[i].id].kind = "heading") => Toggle(d[i].id) \in S
      BY <2>3, <2>4
    <2> QED BY <2>2, <2>5
  <1> HIDE DEF S
  <1>3. StructuralNeeds(d, c) \in Seq(S)
    BY <1>2, NeedsIn
  <1>4. \A need \in ToSet(StructuralNeeds(d, c)) : need \in S
    BY <1>3, LenProperties, ElementOfSeq DEF ToSet
  <1> QED BY <1>4 DEF Wanted, S

LEMMA SettleHeaded ==
    ASSUME HeadsOn(doc', prior'), sync'.pc # "op"
    PROVE  Headed'
  BY DEF Headed

LEMMA DrainHeaded ==
    ASSUME Editing', Known', HeadsOn(doc', prior'),
           NEW base, NEW tries, NEW rejected, Drain(base, tries, rejected)
    PROVE  Headed'
  <1> DEFINE needs == StructuralNeeds(doc', prior')
  <1>1. CASE needs = << >>
    <2>1. sync'.pc # "op"
      BY <1>1 DEF Drain, Settle, Idle
    <2> QED BY <2>1, SettleHeaded
  <1>2. CASE needs # << >>
    <2>1. Wanted(needs, doc')
      BY NeedsWanted DEF Editing, Known
    <2>2. sync' = [Idle EXCEPT !.pc = "op", !.queue = needs, !.base = base,
                               !.tries = tries, !.rejected = rejected]
      BY <1>2 DEF Drain
    <2> HIDE DEF needs
    <2>3. sync'.queue = needs
      BY <2>2 DEF Idle
    <2> QED BY <2>1, <2>3 DEF Headed
  <1> QED BY <1>1, <1>2

LEMMA RetryHeaded ==
    ASSUME Editing', Known', HeadsOn(doc', prior'), Retry
    PROVE  Headed'
  <1>1. CASE sync' = [Idle EXCEPT !.pc = "conflict"]
    <2>1. sync'.pc # "op"
      BY <1>1 DEF Idle
    <2> QED BY <2>1, SettleHeaded
  <1>2. CASE Drain(sync.base, sync.tries + 1, sync.rejected)
    BY <1>2, DrainHeaded
  <1> QED BY <1>1, <1>2 DEF Retry

(* A gesture that leaves the block of every heading.                           *)
LEMMA EditHeaded ==
    ASSUME Sound, Headed, NEW new \in Seq(Block(minted)), Kept(new), Edit(new)
    PROVE  Headed'
  <1>1. /\ minted \in 0..MaxUnit /\ minted + Unstamped(new) <= MaxUnit
        /\ doc' = Settled(new, minted) /\ prior' = prior /\ sync' = sync
    BY DEF Edit, Sound, Editing
  <1>2. ASSUME NEW b \in BlocksOf(doc), b.id \in Unit,
               \/ KindIn(prior, b.id) = "heading"
               \/ \E need \in ToSet(sync.queue) : need.unit = b.id
        PROVE  \E x \in BlocksOf(doc') : x.id = b.id /\ ~IsDisplay(x)
    <2>1. /\ b.id \in Ids(new)
          /\ \A n \in BlocksOf(new) : n.id = b.id /\ n.text = <<Display>> => n.hashes > 0
      BY <1>2 DEF Kept
    <2>2. PICK a \in BlocksOf(new) : a.id = b.id
      BY <2>1 DEF Ids
    <2>3. a.id # NoUnit
      BY <1>2, <2>2, OutlineAssumption
    <2>4. PICK y \in BlocksOf(new), x \in BlocksOf(Settled(new, minted)) :
                y.id = a.id /\ x.id = a.id /\ x.hashes = y.hashes /\ x.text = y.text
      BY <1>1, <2>3, SettledKeepsIds
    <2>5. ~IsDisplay(x)
      BY <2>1, <2>2, <2>4 DEF IsDisplay
    <2> QED BY <1>1, <2>2, <2>4, <2>5
  <1>3. HeadsOn(doc', prior')
    <2> SUFFICES ASSUME NEW u \in Headings(prior)
                 PROVE  \E x \in BlocksOf(doc') : x.id = u /\ ~IsDisplay(x)
      BY <1>1 DEF HeadsOn
    <2>1. u \in Unit /\ KindIn(prior, u) = "heading"
      BY DEF Headings, KindIn, Sound, Known, IsContent
    <2>2. PICK b \in BlocksOf(doc) : b.id = u
      BY DEF Headed, HeadsOn
    <2> QED BY <2>1, <2>2, <1>2
  <1>4. sync.pc = "op" => Wanted(sync.queue, doc')
    <2> SUFFICES ASSUME sync.pc = "op", NEW need \in ToSet(sync.queue)
                 PROVE  \E x \in BlocksOf(doc') :
                            x.id = need.unit /\ (need.op = "toggle" => ~IsDisplay(x))
      BY DEF Wanted
    <2>1. need.unit \in Unit
      <3>1. sync.queue \in Seq(Need)
        BY DEF Sound, Holding
      <3>2. need \in Need
        BY <3>1, LenProperties, ElementOfSeq DEF ToSet
      <3> QED BY <3>2 DEF Need
    <2>2. PICK b \in BlocksOf(doc) : b.id = need.unit
      BY DEF Headed, Wanted
    <2> QED BY <2>1, <2>2, <1>2
  <1> QED BY <1>1, <1>3, <1>4 DEF Headed

(* A save makes no heading.                                                    *)
LEMMA SaveHeads ==
    ASSUME NEW c, NEW ups, NEW dels, MaySave(c, ups, dels), NEW d, HeadsOn(d, c)
    PROVE  HeadsOn(d, Saved(c, ups, dels))
  <1>1. Headings(Saved(c, ups, dels)) \subseteq Headings(c)
    <2> SUFFICES ASSUME NEW u \in Headings(Saved(c, ups, dels))
                 PROVE  u \in Headings(c)
      OBVIOUS
    <2>1. /\ u \in DOMAIN c \/ u \in DOMAIN ups
          /\ IF u \in DOMAIN ups THEN ups[u].kind = "heading" ELSE c[u].kind = "heading"
      BY DEF Headings, Saved
    <2>2. u \in DOMAIN ups =>
            IF u \in DOMAIN c THEN c[u].kind = ups[u].kind ELSE ups[u].kind # "heading"
      BY DEF MaySave, FacetsKept, NewUnitAllowed
    <2> QED BY <2>1, <2>2 DEF Headings
  <1> QED BY <1>1 DEF HeadsOn

(* A toggle makes one, a move none.                                            *)
LEMMA DoneHeads ==
    ASSUME Grown, NEW need \in Need, Allowed(need), NEW d, HeadsOn(d, tree),
           need.op = "toggle" => \E b \in BlocksOf(d) : b.id = need.unit /\ ~IsDisplay(b)
    PROVE  HeadsOn(d, Done(need))
  <1>1. \A u \in Headings(Done(need)) :
            u \in Headings(tree) \/ (need.op = "toggle" /\ u = need.unit)
    <2>1. CASE need.op = "toggle" /\ tree[need.unit].kind = "prose"
      <3>1. Done(need) = Promoted(tree, need.unit)
        BY <2>1 DEF Done, Toggled
      <3>2. \A u \in DOMAIN tree : u # need.unit => Promoted(tree, need.unit)[u] = tree[u]
        BY DEF Promoted
      <3>3. DOMAIN Promoted(tree, need.unit) = DOMAIN tree
        BY DEF Promoted
      <3> QED BY <2>1, <3>1, <3>2, <3>3 DEF Headings
    <2>2. CASE need.op = "toggle" /\ tree[need.unit].kind # "prose"
      <3>1. Done(need) = Dissolved(tree, need.unit) /\ need.unit \in DOMAIN tree
        BY <2>2 DEF Done, Toggled, Allowed, MayToggle
      <3>2. LiftedFrom(tree, Done(need), need.unit)
        BY <3>1, DissolvedLifts DEF Grown
      <3> QED BY <3>2 DEF Headings, LiftedFrom
    <2>3. CASE need.op # "toggle"
      <3>1. /\ Done(need) = Reparented(tree, need.unit, need.parent, need.at)
            /\ need.unit \in DOMAIN tree /\ need.parent \in DOMAIN tree \cup {Top}
        BY <2>3, Zenon DEF Allowed, Done, MayReparent
      <3>2. need.at \in Place
        BY OutlineAssumption DEF Need
      <3>3. MovedBelow(tree, Done(need), need.unit, need.parent)
        BY <3>1, <3>2, ReparentedMoves DEF Grown
      <3> QED BY <3>3 DEF Headings, MovedBelow
    <2> QED BY <2>1, <2>2, <2>3
  <1> QED BY <1>1 DEF HeadsOn

(* What the screen of a merge shows has every heading of the server.           *)
LEMMA MergeHeads ==
    ASSUME Sound, ~Clash(prior, tree, FlushToContent(doc, prior, minted)),
           MergeOntoScreen(Merged(prior, tree, FlushToContent(doc, prior, minted))),
           UNCHANGED <<tree, revision, gestures>>, NEW C, Placed(C)
    PROVE  HeadsOn(doc', prior')
  <1> DEFINE mine == FlushToContent(doc, prior, minted)
             M    == Merged(prior, tree, mine)
  <1>1. Reshown(M, C, minted + Flips(doc, prior), doc', minted')
    BY MergePlaced
  <1>2. /\ \A u \in DOMAIN M :
             M[u].parent = IF u \in Added(prior, mine) THEN mine.upserts[u].parent
                           ELSE tree[u].parent
        /\ Added(prior, mine) \cap DOMAIN tree = {}
        /\ \A h \in Headings(tree) : h \in DOMAIN M /\ M[h].kind = "heading"
        /\ \A u \in DOMAIN M : M[u].parent = Top \/ M[u].parent \in Headings(tree) => u \in Reached(M)
    BY MergeHomes DEF MergeOntoScreen
  <1>3. prior' = tree
    BY DEF MergeOntoScreen
  <1> HIDE DEF M, mine
  <1>4. \A h \in Headings(tree) : h \in Reached(M) /\ M[h].kind = "heading"
    <2> TAKE h \in Headings(tree)
    <2>1. h \in DOMAIN tree /\ (tree[h].parent = Top \/ tree[h].parent \in Headings(tree))
      BY DEF Headings, Sound, Grown, WellFormed
    <2> QED BY <2>1, <1>2
  <1> QED BY <1>1, <1>3, <1>4 DEF Reshown, HeadsOn

LEMMA OpAcceptedHeaded ==
    ASSUME Sound, Sound', Current, Laid, Headed, OpAccepted
    PROVE  Headed'
  <1> DEFINE need == Head(sync.queue)
             done == Done(need)
             o    == Overlaid(ProjectToDoc(done), StructuralIntents(doc, sync.base))
  <1>1. PICK C : Placed(C) /\ Pending(C)
    BY DEF Laid
  <1>2. /\ Grown /\ Holding /\ DOMAIN tree \subseteq 1..minted
        /\ minted \in 0..MaxUnit /\ minted \in Nat /\ minted <= minted
    BY OutlineAssumption DEF Sound, Editing, Known
  <1>3. /\ sync.pc = "op" /\ Fresh /\ Allowed(need) /\ tree' = done /\ prior' = done
    BY DEF OpAccepted, Write, Adopt
  <1>4. sync.queue # << >> /\ need \in Need /\ sync.queue \in Seq(Need)
    BY <1>2, <1>3, HeadIs DEF Holding
  <1>5. need \in ToSet(sync.queue) /\ \A x \in ToSet(Tail(sync.queue)) : x \in ToSet(sync.queue)
    <2>1. Len(sync.queue) \in Nat /\ Len(sync.queue) # 0 /\ DOMAIN sync.queue = 1..Len(sync.queue)
      BY <1>4, EmptySeq, LenProperties
    <2>2. need = sync.queue[1]
      BY <1>4, HeadTailProperties
    <2>3. /\ Tail(sync.queue) \in Seq(Need) /\ Len(Tail(sync.queue)) = Len(sync.queue) - 1
          /\ \A i \in 1..Len(Tail(sync.queue)) : Tail(sync.queue)[i] = sync.queue[i + 1]
      BY <1>4, HeadTailProperties
    <2>4. DOMAIN Tail(sync.queue) = 1..(Len(sync.queue) - 1)
      BY <2>3, LenProperties
    <2> QED BY <2>1, <2>2, <2>3, <2>4 DEF ToSet
  <1> HIDE DEF need
  <1>6. tree = prior
    BY <1>3 DEF Current, Fresh
  <1>7. CASE UNCHANGED <<doc, minted>>
    <2>1. HeadsOn(doc', prior')
      <3>1. need.op = "toggle" => \E b \in BlocksOf(doc) : b.id = need.unit /\ ~IsDisplay(b)
        BY <1>3, <1>5 DEF Headed, Wanted
      <3>2. HeadsOn(doc, done)
        BY <1>2, <1>3, <1>4, <1>6, <3>1, DoneHeads DEF Headed
      <3> QED BY <3>2, <1>3, <1>7
    <2>2. CASE Len(sync.queue) > 1
      <3>1. sync' = [sync EXCEPT !.queue = Tail(sync.queue)]
        BY <2>2 DEF OpAccepted
      <3>2. sync'.queue = Tail(sync.queue)
        BY <3>1, <1>2 DEF Holding
      <3>3. Wanted(sync'.queue, doc')
        BY <3>2, <1>3, <1>5, <1>7 DEF Headed, Wanted
      <3> QED BY <2>1, <3>3 DEF Headed
    <2>3. CASE ~(Len(sync.queue) > 1)
      <3>1. sync'.pc # "op"
        BY <2>3 DEF OpAccepted, Settle, Idle
      <3> QED BY <2>1, <3>1, SettleHeaded
    <2> QED BY <2>2, <2>3
  <1>8. CASE ~UNCHANGED <<doc, minted>>
    <2>1. /\ minted + Unstamped(o) <= MaxUnit
          /\ doc' = Settled(o, minted) /\ minted' = minted + Unstamped(o)
          /\ sync' = Idle
      BY <1>8 DEF OpAccepted, need, Settle
    <2>2. need \in NeedOf(minted, C)
      BY <1>1, <1>4, QueueIs DEF need
    <2>3. /\ HomesOf(done, C)
          /\ IsContent(done) /\ WellFormed(done) /\ Acyclic(done) /\ DOMAIN done \subseteq 1..minted
      BY <1>1, <1>2, <1>3, <1>4, <2>2, DoneHomes, DoneIs DEF Placed
    <2> HIDE DEF done
    <2>4. Apart(done)
      BY <2>3 DEF Apart, WellFormed
    <2>5. Reshown(done, C, minted, doc', minted')
      BY <1>1, <1>2, <2>1, <2>3, <2>4, PlacedAnew
    <2>6. HeadsOn(doc', prior')
      <3>1. Headings(done) \subseteq Reached(done)
        BY <2>3, WholeWalk DEF Headings
      <3> QED BY <3>1, <2>5, <1>3 DEF Reshown, HeadsOn, Headings
    <2>7. sync'.pc # "op"
      BY <2>1 DEF Idle
    <2> QED BY <2>6, <2>7, SettleHeaded
  <1> QED BY <1>7, <1>8

LEMMA HeadedSteps ==
    ASSUME Sound, Sound', Current, Laid, Headed, KeepHeadings, [Next]_vars
    PROVE  Headed'
  <1>1. /\ Editing /\ Known /\ Holding /\ Grown /\ Editing' /\ Known'
        /\ HeadsOn(doc, prior)
    BY DEF Sound, Headed
  <1>2. PICK C : Placed(C) /\ Pending(C)
    BY DEF Laid
  <1>3. CASE Gesture
    <2>1. PICK new \in Seq(Block(minted)) : Edit(new)
      <3>1. Editable(Block(minted)) /\ doc \in Seq(Block(minted))
        BY <1>1, BlocksEditable, OutlineAssumption DEF Editing
      <3> QED BY <1>1, <3>1, <1>3, GestureEdits
    <2>2. Kept(new)
      BY <2>1 DEF Edit
    <2> QED BY <2>1, <2>2, EditHeaded
  <1>4. CASE FlushNothing \/ FlushSave \/ SaveRefused \/ OpRefused \/ Fail \/ MergeRefused
    <2>1. UNCHANGED <<doc, prior>>
      BY <1>4 DEF FlushNothing, FlushSave, SaveRefused, OpRefused, Fail, MergeRefused, editor
    <2>2. sync'.pc # "op"
      <3>1. "pc" \in DOMAIN sync
        BY <1>1 DEF Holding
      <3>2. CASE FlushNothing
        BY <3>2 DEF FlushNothing
      <3>3. CASE FlushSave
        BY <3>3 DEF FlushSave, Idle
      <3>4. CASE SaveRefused \/ OpRefused
        BY <3>1, <3>4 DEF SaveRefused, OpRefused
      <3>5. CASE Fail
        <4>1. sync' = Idle
          BY <3>5 DEF Fail, Settle
        <4> QED BY <4>1 DEF Idle
      <3>6. CASE MergeRefused
        <4>1. \/ sync' = Idle \/ sync' = [Idle EXCEPT !.pc = "conflict"]
              \/ sync' = [sync EXCEPT !.pc = "get"]
          BY <3>6 DEF MergeRefused, Conflict
        <4> QED BY <3>1, <4>1 DEF Idle
      <3> QED BY <1>4, <3>2, <3>3, <3>4, <3>5, <3>6
    <2> QED BY <1>1, <2>1, <2>2, SettleHeaded
  <1>5. CASE FlushStructure
    BY <1>1, <1>5, DrainHeaded DEF FlushStructure
  <1>6. CASE SaveAccepted \/ OpSave
    <2>1. CASE UNCHANGED prior /\ Settle(TRUE)
      <3>1. doc' = doc /\ sync'.pc # "op"
        BY <1>6, <2>1 DEF SaveAccepted, OpSave, Settle, Idle
      <3> QED BY <1>1, <2>1, <3>1, SettleHeaded
    <2>2. CASE /\ Fresh /\ SaveAllowed(sync.body) /\ prior' = SaveDone(sync.body)
               /\ Drain(tree', 0, FALSE) \/ Retry
      <3>1. tree = prior /\ doc' = doc
        BY <1>6, <2>2 DEF Current, Fresh, SaveAccepted, OpSave
      <3>2. HeadsOn(doc', prior')
        BY <1>1, <2>2, <3>1, SaveHeads DEF SaveAllowed, SaveDone
      <3> QED BY <1>1, <2>2, <3>2, DrainHeaded, RetryHeaded
    <2> QED BY <1>6, <2>1, <2>2 DEF SaveAccepted, OpSave, Write, Adopt
  <1>7. CASE Merge \/ OpMerge
    <2> DEFINE mine == FlushToContent(doc, prior, minted)
               M    == Merged(prior, tree, mine)
               r    == RebasedDelta(M, tree)
    <2>1. UNCHANGED <<tree, revision, gestures>>
      BY <1>7 DEF Merge, OpMerge, server
    <2>2. \/ UNCHANGED <<doc, prior>> /\ (sync' = Idle \/ sync' = [Idle EXCEPT !.pc = "conflict"])
          \/ /\ ~Clash(prior, tree, mine) /\ MergeOntoScreen(M)
             /\ \/ Drain(tree, 0, FALSE)
                \/ Retry
                \/ sync' = [sync EXCEPT !.pc = "merge put", !.body = r]
                \/ sync' = [sync EXCEPT !.pc = "op put", !.body = r]
      BY <1>7 DEF Merge, OpMerge, Conflict, Settle
    <2>3. CASE UNCHANGED <<doc, prior>> /\ (sync' = Idle \/ sync' = [Idle EXCEPT !.pc = "conflict"])
      <3>1. sync'.pc # "op"
        BY <2>3 DEF Idle
      <3> QED BY <1>1, <2>3, <3>1, SettleHeaded
    <2>4. CASE /\ ~Clash(prior, tree, mine) /\ MergeOntoScreen(M)
               /\ \/ Drain(tree, 0, FALSE)
                  \/ Retry
                  \/ sync' = [sync EXCEPT !.pc = "merge put", !.body = r]
                  \/ sync' = [sync EXCEPT !.pc = "op put", !.body = r]
      <3>1. HeadsOn(doc', prior')
        BY <1>2, <2>1, <2>4, MergeHeads
      <3> HIDE DEF mine, M, r
      <3>2. CASE \/ sync' = [sync EXCEPT !.pc = "merge put", !.body = r]
                 \/ sync' = [sync EXCEPT !.pc = "op put", !.body = r]
        <4>1. sync'.pc # "op"
          BY <3>2, <1>1 DEF Holding
        <4> QED BY <3>1, <4>1, SettleHeaded
      <3> QED BY <2>4, <3>1, <3>2, <1>1, DrainHeaded, RetryHeaded
    <2> QED BY <2>2, <2>3, <2>4
  <1>8. CASE OpAccepted
    BY <1>8, OpAcceptedHeaded
  <1>9. CASE OtherDevice
    <2>1. UNCHANGED <<doc, prior, sync>>
      BY <1>9 DEF OtherDevice, editor
    <2> QED BY <2>1 DEF Headed
  <1>10. CASE UNCHANGED vars
    BY <1>10 DEF vars, Headed
  <1> QED BY <1>3, <1>4, <1>5, <1>6, <1>7, <1>8, <1>9, <1>10 DEF Next, Sync

--------------------------------------------------------------------------------
(* The invariant.                                                              *)
Screen == Current /\ Laid /\ Cleanly /\ (KeepHeadings => Headed)

LEMMA ScreenStarts == Init => Screen
  <1> SUFFICES ASSUME Init PROVE Screen
    OBVIOUS
  <1>1. /\ Sound /\ Grown /\ Editing /\ Known
        /\ minted \in 0..MaxUnit /\ doc = ProjectToDoc(tree) /\ prior = tree /\ sync = Idle
    BY SoundStarts DEF Sound, Init, Editing
  <1>2. /\ IsContent(tree) /\ WellFormed(tree) /\ Acyclic(tree) /\ Apart(tree)
        /\ DOMAIN tree \subseteq 1..minted
    BY <1>1 DEF Grown, Known, Apart, WellFormed
  <1>3. Current
    BY <1>1, <1>2 DEF Init, Current
  <1> DEFINE C == {u \in DOMAIN tree : tree[u].kind = "config"}
  <1>4. C \subseteq 1..minted /\ HomesOf(tree, C)
    <2>1. \A u \in DOMAIN tree : tree[u].kind = "config" => tree[u].parent = Top
      BY OutlineAssumption DEF Init, Canonical
    <2> QED BY <1>2, <2>1 DEF HomesOf
  <1> HIDE DEF C
  <1>5. Laid
    <2>1. doc \in Seq(Plain(minted, C))
      BY <1>1, <1>2, <1>4, ProjectPlain
    <2>2. Nested(doc)
      BY <1>1, <1>2, ProjectNested
    <2>3. Pending(C)
      <3>1. << >> \in Seq(NeedOf(minted, C))
        BY EmptySeq
      <3> QED BY <1>1, <3>1 DEF Pending, Idle, NoRequest, HomesOf
    <2> QED BY <1>1, <1>4, <2>1, <2>2, <2>3 DEF Laid, Placed
  <1>6. Cleanly
    BY <1>1 DEF Cleanly
  <1>7. Headed
    <2>1. HeadsOn(doc, prior)
      <3> SUFFICES ASSUME NEW u \in Headings(tree)
                   PROVE  \E b \in BlocksOf(doc) : b.id = u /\ ~IsDisplay(b)
        BY <1>1 DEF HeadsOn
      <3>1. u \in Reached(tree)
        BY <1>2, WholeWalk DEF Headings
      <3>2. PICK k \in 1..Len(Walk(tree)) : Walk(tree)[k] = u
        BY <1>1, <1>2, <3>1, WalkLists
      <3>3. /\ doc \in Seq(Block(minted)) /\ Len(Walk(tree)) \in Nat
            /\ Len(doc) \in {Len(Walk(tree)), Len(Walk(tree)) + 1}
            /\ doc[k] = Shown(tree, u)
        BY <1>1, <1>2, <3>2, ProjectShows
      <3>4. doc[k].id = u /\ doc[k].heading
        BY <1>1, <1>2, <3>3, ShownIs DEF Headings
      <3>5. doc[k] \in BlocksOf(doc)
        BY <3>2, <3>3, LenProperties DEF BlocksOf, ToSet
      <3> QED BY <3>4, <3>5 DEF IsDisplay
    <2>2. sync.pc # "op"
      BY <1>1 DEF Idle
    <2> QED BY <2>1, <2>2 DEF Headed
  <1> QED BY <1>3, <1>5, <1>6, <1>7 DEF Screen

LEMMA ScreenSteps ==
    Sound /\ Screen /\ [Next]_vars => Screen'
  <1> SUFFICES ASSUME Sound, Screen, [Next]_vars
               PROVE  Screen'
    OBVIOUS
  <1>1. Sound'
    BY SoundSteps
  <1>2. Current' /\ Laid' /\ Cleanly'
    BY <1>1, CurrentSteps, LaidSteps, CleanSteps DEF Screen
  <1>3. KeepHeadings => Headed'
    BY <1>1, HeadedSteps DEF Screen
  <1> QED BY <1>2, <1>3 DEF Screen

(* If the user deletes no heading that is stored or about to be, nor makes an  *)
(* equation of one, then whenever the indicator says that everything is saved, *)
(* the stored blocks are on the screen in the stored order, with their         *)
(* sections and text, and what is not stored is empty (settleAfterFlush,       *)
(* autosaveController.ts; flushToContent and projectToDoc, projection.ts).     *)
THEOREM OutlineShownIsStored == Spec => [](KeepHeadings => ShownIsStored)
  <1>1. Sound /\ Screen => (KeepHeadings => ShownIsStored)
    BY CleanIsShown DEF Screen, Laid, Placed, Headed, Current
  <1> QED BY <1>1, SoundStarts, SoundSteps, ScreenStarts, ScreenSteps, PTL DEF Spec

--------------------------------------------------------------------------------
(* Nothing an editor sends is refused while nobody else writes.                *)

(* What a flush writes and deletes, and what it leaves, are the blocks that    *)
(* are sent, each at its place.                                                *)
SentFrom(d, c, n, s) ==
    \A u \in DOMAIN s : \E i \in Sent(d, c) :
        u = SentId(d, c, n, i) /\ s[u] = FlushedAs(d, c, i)

LEMMA FlushLeaves ==
    ASSUME NEW n \in 0..MaxUnit, NEW C, NEW d \in Seq(Plain(n, C)), Stamps(d),
           NEW c, IsContent(c), DOMAIN c \subseteq 1..n, HomesOf(c, C), HeadsOn(d, c)
    PROVE  LET f == FlushToContent(d, c, n) IN
           SentFrom(d, c, n, Saved(c, f.upserts, f.deletes))
  <1> DEFINE f == FlushToContent(d, c, n)
             s == Saved(c, f.upserts, f.deletes)
  <1> SUFFICES ASSUME NEW u \in DOMAIN s
               PROVE  \E i \in Sent(d, c) : u = SentId(d, c, n, i) /\ s[u] = FlushedAs(d, c, i)
    BY DEF SentFrom
  <1>1. d \in Seq(Block(n)) /\ \A i \in 1..Len(d) : d[i] \in Plain(n, C) /\ d[i] \in Block(n)
    BY PlainBlocks
  <1>2. \A b \in BlocksOf(d) : \E i \in 1..Len(d) : b = d[i]
    BY PlainBlocks
  <1>3. /\ f = [upserts |-> f.upserts, deletes |-> f.deletes]
        /\ \A i \in Changed(d, c) : /\ SentId(d, c, n, i) \in DOMAIN f.upserts
                                    /\ f.upserts[SentId(d, c, n, i)] = FlushedAs(d, c, i)
        /\ \A v \in DOMAIN f.upserts : \E i \in Changed(d, c) : v = SentId(d, c, n, i)
        /\ f.upserts = [v \in DOMAIN f.upserts |-> f.upserts[v]]
        /\ f.deletes = {v \in DOMAIN c :
                          /\ c[v].kind # "heading"
                          /\ \A i \in Sent(d, c) : d[i].id # v \/ IsFlip(d[i], c)}
    BY <1>1, FlushIs
  <1> HIDE DEF f
  <1>4. /\ u \in (DOMAIN c \cup DOMAIN f.upserts) \ f.deletes
        /\ s[u] = IF u \in DOMAIN f.upserts THEN f.upserts[u] ELSE c[u]
    BY DEF Saved
  <1> HIDE DEF s
  <1>5. CASE u \in DOMAIN f.upserts
    BY <1>3, <1>4, <1>5 DEF Changed
  <1>6. CASE u \notin DOMAIN f.upserts
    <2>1. u \in DOMAIN c /\ u \notin f.deletes
      BY <1>4, <1>6
    <2>2. PICK i \in Sent(d, c) : d[i].id = u /\ IsEdit(d[i], c)
      <3>1. CASE c[u].kind = "heading"
        <4>1. PICK b \in BlocksOf(d) : b.id = u /\ ~IsDisplay(b)
          BY <2>1, <3>1 DEF HeadsOn, Headings
        <4>2. PICK i \in 1..Len(d) : b = d[i]
          BY <1>2
        <4>3. ~b.config
          BY <2>1, <3>1, <4>1, <4>2, <1>1 DEF Plain, HomesOf
        <4>4. SentKind(b, c) = "heading" /\ KindIn(c, b.id) = "heading"
          BY <2>1, <3>1, <4>1, <4>3 DEF SentKind, KindIn
        <4> QED BY <4>1, <4>2, <4>4 DEF Sent, IsEdit
      <3>2. CASE c[u].kind # "heading"
        <4>1. PICK i \in Sent(d, c) : d[i].id = u /\ ~IsFlip(d[i], c)
          BY <2>1, <3>2, <1>3
        <4> QED BY <4>1, <2>1 DEF IsFlip, Sent
      <3> QED BY <3>1, <3>2
    <2>3. u = SentId(d, c, n, i)
      BY <1>1, <2>2, SentAs
    <2>4. FlushedAs(d, c, i) = c[u]
      BY <1>3, <1>6, <2>2, <2>3 DEF Changed
    <2> QED BY <1>4, <1>6, <2>2, <2>3, <2>4
  <1> QED BY <1>5, <1>6

(* What a flush sends is accepted by a server that has the baseline.           *)
LEMMA FlushAllowed ==
    ASSUME NEW n \in 0..MaxUnit, NEW C, NEW d \in Seq(Plain(n, C)), Stamps(d),
           NEW c, IsContent(c), WellFormed(c), DOMAIN c \subseteq 1..n, HomesOf(c, C), HeadsOn(d, c),
           \A u \in DOMAIN c : c[u].type = NoType, n + Flips(d, c) <= MaxUnit
    PROVE  LET f == FlushToContent(d, c, n) IN MaySave(c, f.upserts, f.deletes)
  <1> DEFINE f == FlushToContent(d, c, n)
             s == Saved(c, f.upserts, f.deletes)
  <1>1. d \in Seq(Block(n)) /\ \A i \in 1..Len(d) : d[i] \in Block(n)
    BY PlainBlocks
  <1>2. /\ f.deletes \subseteq DOMAIN c /\ \A u \in f.deletes : c[u].kind # "heading"
        /\ DOMAIN f.upserts \cap f.deletes = {}
        /\ \A u \in DOMAIN f.upserts :
             IF u \in DOMAIN c THEN FacetsKept(c[u], f.upserts[u])
             ELSE NewUnitAllowed(c, f.upserts[u])
    BY <1>1, FlushSends
  <1>3. SentFrom(d, c, n, s)
    BY FlushLeaves
  <1> HIDE DEF f
  <1>4. /\ DOMAIN s = (DOMAIN c \cup DOMAIN f.upserts) \ f.deletes
        /\ \A u \in DOMAIN s : s[u] = IF u \in DOMAIN f.upserts THEN f.upserts[u] ELSE c[u]
    BY DEF Saved
  <1>5. \A h \in Headings(c) : h \in DOMAIN s /\ s[h].kind = "heading"
    <2> SUFFICES ASSUME NEW h \in Headings(c)
                 PROVE  h \in DOMAIN s /\ s[h].kind = "heading"
      OBVIOUS
    <2>1. h \in DOMAIN c /\ c[h].kind = "heading"
      BY DEF Headings
    <2>2. h \in DOMAIN s
      BY <2>1, <1>2, <1>4
    <2>3. h \in DOMAIN f.upserts => f.upserts[h].kind = "heading"
      BY <2>1, <1>2 DEF FacetsKept
    <2> QED BY <2>1, <2>2, <2>3, <1>4
  <1> HIDE DEF s
  <1>6. ASSUME NEW u \in DOMAIN s, s[u].parent # Top
        PROVE  s[u].parent \in DOMAIN s /\ s[s[u].parent].kind = "heading"
    <2>1. PICK i \in Sent(d, c) : u = SentId(d, c, n, i) /\ s[u] = FlushedAs(d, c, i)
      BY <1>3 DEF SentFrom
    <2>2. s[u].parent = Family(d[i], c)
      BY <1>1, <2>1, FlushedIs
    <2>3. \/ Family(d[i], c) \in Headings(c)
          \/ IsEdit(d[i], c) /\ d[i].id \in DOMAIN c /\ Family(d[i], c) = c[d[i].id].parent
      BY <1>1, <1>6, <2>1, <2>2, SentKinds DEF Sent
    <2>4. Family(d[i], c) \in Headings(c)
      BY <2>2, <2>3, <1>6 DEF WellFormed, Headings
    <2> QED BY <2>2, <2>4, <1>5
  <1>7. ASSUME NEW u \in DOMAIN s, NEW v \in DOMAIN s,
               s[u].parent = s[v].parent, s[u].pos = s[v].pos
        PROVE  u = v
    <2>1. PICK i \in Sent(d, c) : u = SentId(d, c, n, i) /\ s[u] = FlushedAs(d, c, i)
      BY <1>3 DEF SentFrom
    <2>2. PICK j \in Sent(d, c) : v = SentId(d, c, n, j) /\ s[v] = FlushedAs(d, c, j)
      BY <1>3 DEF SentFrom
    <2>3. Family(d[i], c) = Family(d[j], c) /\ Slot(d, c, i) = Slot(d, c, j)
      BY <1>1, <1>7, <2>1, <2>2, FlushedIs
    <2>4. i \in 1..Len(d) /\ j \in 1..Len(d) /\ Len(d) \in Nat
      BY LenProperties DEF Sent
    <2>5. ~(i < j) /\ ~(j < i)
      <3>1. Slot(d, c, i) \in Nat /\ Slot(d, c, j) \in Nat
        BY <1>1, <2>4, SlotIs
      <3>2. /\ i < j => Slot(d, c, i) < Slot(d, c, j)
            /\ j < i => Slot(d, c, j) < Slot(d, c, i)
        BY <1>1, <2>3, SlotIs
      <3> QED BY <2>3, <3>1, <3>2
    <2>6. i = j
      BY <2>4, <2>5
    <2> QED BY <2>1, <2>2, <2>6
  <1>8. WellFormed(s)
    BY <1>6, <1>7 DEF WellFormed
  <1>9. \A u \in f.deletes : Deletable(c, u)
    BY <1>2 DEF Deletable
  <1> QED BY <1>2, <1>8, <1>9 DEF MaySave, s, f

--------------------------------------------------------------------------------
(* The operations a flush sends are right one by one.                          *)

(* A document whose sections are nested, where notation homes head none.       *)
Sectioned(d) ==
    /\ \E n \in 0..MaxUnit : d \in Seq(Block(n))
    /\ Stamps(d)
    /\ Nested(d)
    /\ \A i \in 1..Len(d) : d[i].heading => ~d[i].config

(* The places of the blocks that the content c has.                            *)
Has(d, c) == {i \in 1..Len(d) : ~d[i].config /\ d[i].id \in DOMAIN c}

Asked(queue, op, u) == \E k \in 1..Len(queue) : queue[k].op = op /\ queue[k].unit = u

(* `queue` leads from c to the sections of d: what is not as in d is asked for,*)
(* each of d's own, the toggles first, the moves in the order of the document. *)
Leads(d, c, queue) ==
    /\ Sectioned(d)
    /\ \A k \in 1..Len(queue) : \E i \in Has(d, c) :
        /\ queue[k].unit = d[i].id
        /\ queue[k].op = "toggle" => d[i].heading # (c[d[i].id].kind = "heading")
        /\ queue[k].op = "reparent" => queue[k].parent = d[i].parent
    /\ \A k, l \in 1..Len(queue) : k < l =>
        /\ queue[k].op = "reparent" => queue[l].op = "reparent"
        /\ queue[k].op = queue[l].op =>
            \A i, j \in Has(d, c) : d[i].id = queue[k].unit /\ d[j].id = queue[l].unit => i < j
    /\ \A i \in Has(d, c) :
        /\ d[i].parent = c[d[i].id].parent \/ Asked(queue, "reparent", d[i].id)
        /\ d[i].heading => c[d[i].id].kind = "heading" \/ Asked(queue, "toggle", d[i].id)

(* What is refused is the toggle of an equation, or a move to a section that   *)
(* is an equation or not stored.                                               *)
Excused(need, c) ==
    IF need.op = "toggle" THEN KindIn(c, need.unit) = "math"
    ELSE KindIn(c, need.parent) \in {"none", "math"}

LEMMA HeadMay ==
    ASSUME Grown, NEW d, NEW queue \in Seq(Need), queue # << >>, Leads(d, tree, queue),
           \A u \in DOMAIN tree : tree[u].kind = "config" => u # Head(queue).unit
    PROVE  Allowed(Head(queue)) \/ Excused(Head(queue), tree)
  <1> DEFINE need == Head(queue)
             c    == tree
  <1> USE DEF Grown
  <1>1. /\ Len(queue) \in Nat /\ Len(queue) >= 1 /\ need = queue[1] /\ need \in Need
    <2>1. Len(queue) \in Nat /\ Len(queue) # 0
      BY EmptySeq, LenProperties
    <2>2. need = queue[1]
      BY HeadTailProperties
    <2>3. queue[1] \in Need
      BY <2>1, ElementOfSeq
    <2> QED BY <2>1, <2>2, <2>3
  <1> HIDE DEF need
  <1>2. PICK i \in Has(d, c) : /\ need.unit = d[i].id
                               /\ need.op = "reparent" => need.parent = d[i].parent
    BY <1>1 DEF Leads
  <1>3. /\ i \in 1..Len(d) /\ d[i].id \in DOMAIN c /\ Len(d) \in Nat
        /\ \A u \in DOMAIN c : c[u].kind \in Kind
    BY <1>2, LenProperties DEF Has, Leads, Sectioned, IsContent, UnitRecord
  <1>4. CASE need.op = "toggle"
    <2>1. c[need.unit].kind # "config" /\ need.unit \in DOMAIN c
      BY <1>2, <1>3 DEF need
    <2>2. c[need.unit].kind \in {"prose", "heading", "math"}
      BY <2>1, <1>3 DEF Kind
    <2> QED BY <1>4, <2>1, <2>2 DEF Allowed, Excused, MayToggle, KindIn, need
  <1>5. CASE need.op # "toggle"
    <2>1. need.op = "reparent" /\ need.parent = d[i].parent
      BY <1>1, <1>2, <1>5 DEF Need
    <2>2. CASE need.parent = Top
      BY <1>2, <1>3, <1>5, <2>2 DEF Allowed, MayReparent, need
    <2>3. CASE need.parent \notin DOMAIN c
      BY <1>5, <2>3 DEF Excused, KindIn, need
    <2>4. CASE need.parent # Top /\ need.parent \in DOMAIN c
      <3> DEFINE p    == need.parent
                 u    == need.unit
                 done == {v \in DOMAIN c : \E j \in Has(d, c) : j < i /\ d[j].id = v}
                 S    == DOMAIN c \ done
      <3>1. \A j \in Has(d, c) : j <= i => \A k \in 1..Len(queue) :
                queue[k].op = "reparent" /\ queue[k].unit = d[j].id => j = i
        <4> SUFFICES ASSUME NEW j \in Has(d, c), j < i, NEW k \in 1..Len(queue),
                            queue[k].op = "reparent", queue[k].unit = d[j].id
                     PROVE  FALSE
          BY <1>3 DEF Has
        <4>1. CASE k = 1
          <5>1. d[j].id = d[i].id /\ Stamps(d) /\ DOMAIN d = 1..Len(d)
            BY <4>1, <1>1, <1>2, LenProperties DEF Leads, Sectioned
          <5>2. j = i
            BY <5>1, <1>3 DEF Stamps, Has
          <5> QED BY <5>2, <1>3
        <4>2. CASE k # 1
          <5>1. 1 \in 1..Len(queue) /\ 1 < k /\ queue[1].op = queue[k].op /\ d[i].id = queue[1].unit
            BY <4>2, <1>1, <1>2, <2>1
          <5>2. i < j
            BY <5>1, <1>2 DEF Leads
          <5> QED BY <5>2, <1>3 DEF Has
        <4> QED BY <4>1, <4>2
      <3>2. ASSUME NEW j \in Has(d, c), j < i
            PROVE  d[j].parent = c[d[j].id].parent
        <4>1. ~Asked(queue, "reparent", d[j].id)
          BY <3>1, <3>2, <1>3 DEF Asked, Has
        <4> QED BY <4>1 DEF Leads
      <3>3. ASSUME NEW j \in Has(d, c), d[j].parent # Top, d[j].parent \in DOMAIN c
            PROVE  \E h \in Has(d, c) : h < j /\ d[h].id = d[j].parent /\ d[h].heading
        <4>1. j \in 1..Len(d)
          BY DEF Has
        <4>2. PICK h \in 1..(j - 1) : d[h].heading /\ d[h].id = d[j].parent
          BY <3>3, <4>1 DEF Leads, Sectioned, Nested
        <4>3. h \in 1..Len(d) /\ h < j
          BY <1>3, <4>1
        <4> QED BY <3>3, <4>2, <4>3 DEF Has, Leads, Sectioned
      <3>4. \A k \in 1..Len(queue) : queue[k].op # "toggle"
        <4> SUFFICES ASSUME NEW k \in 1..Len(queue)
                     PROVE  queue[k].op # "toggle"
          OBVIOUS
        <4>1. k = 1 \/ 1 < k
          OBVIOUS
        <4> QED BY <4>1, <1>1, <2>1 DEF Leads
      <3>5. PICK h \in Has(d, c) : h < i /\ d[h].id = p /\ d[h].heading
        BY <1>2, <2>1, <2>4, <3>3
      <3>6. c[p].kind = "heading"
        BY <3>4, <3>5 DEF Leads, Asked
      <3>7. u \in S
        <4> SUFFICES ASSUME NEW j \in Has(d, c), j < i, d[j].id = u
                     PROVE  FALSE
          BY <1>2, <1>3
        <4>1. Stamps(d) /\ DOMAIN d = 1..Len(d)
          BY LenProperties DEF Leads, Sectioned
        <4> QED BY <4>1, <1>2, <1>3 DEF Stamps, Has
      <3>8. ASSUME NEW w \in DOMAIN c, c[w].parent \in S
            PROVE  w \in S
        <4> SUFFICES ASSUME NEW j \in Has(d, c), j < i, d[j].id = w
                     PROVE  FALSE
          OBVIOUS
        <4>1. d[j].parent = c[w].parent /\ c[w].parent \in DOMAIN c
          BY <3>2, <3>8
        <4>2. d[j].parent # Top
          BY <4>1, TreeAssumption DEF IsContent
        <4>3. PICK g \in Has(d, c) : g < j /\ d[g].id = d[j].parent
          BY <3>3, <4>1, <4>2
        <4>4. g < i
          BY <4>3, <1>3 DEF Has
        <4> QED BY <4>1, <4>3, <4>4, <3>8
      <3>9. p \notin S
        BY <3>5
      <3> HIDE DEF S
      <3>10. S \in SUBSET DOMAIN c
        BY DEF S
      <3>11. p \notin Subtree(c, u)
        BY <3>7, <3>8, <3>9, <3>10 DEF Subtree
      <3> QED BY <1>2, <1>3, <1>5, <2>4, <3>6, <3>11 DEF Allowed, MayReparent, need
    <2> QED BY <2>2, <2>3, <2>4
  <1> QED BY <1>4, <1>5

(* What an operation makes of parents and kinds.                               *)
LEMMA DoneMakes ==
    ASSUME Grown, NEW need \in Need, Allowed(need)
    PROVE  LET e == Done(need)
               u == need.unit
           IN  /\ DOMAIN e = DOMAIN tree /\ u \in DOMAIN tree
               /\ need.op = "toggle" =>
                    /\ tree[u].kind \in {"prose", "heading"}
                    /\ \A v \in DOMAIN tree :
                        /\ e[v].kind = IF v # u THEN tree[v].kind
                                       ELSE IF tree[u].kind = "prose" THEN "heading" ELSE "prose"
                        /\ e[v].parent = IF tree[u].kind = "heading" /\ tree[v].parent = u
                                         THEN tree[u].parent ELSE tree[v].parent
               /\ need.op = "reparent" =>
                    \A v \in DOMAIN tree :
                        /\ e[v].kind = tree[v].kind
                        /\ e[v].parent = IF v = u THEN need.parent ELSE tree[v].parent
  <1> DEFINE e == Done(need)
             u == need.unit
  <1>1. need.op \in {"toggle", "reparent"}
    BY DEF Need
  <1>2. CASE need.op = "toggle" /\ tree[u].kind = "prose"
    <2>1. e = Promoted(tree, u) /\ u \in DOMAIN tree
      BY <1>2 DEF Done, Toggled, Allowed, MayToggle
    <2>2. \A v \in DOMAIN tree : v # u => e[v] = tree[v]
      BY <2>1 DEF Promoted
    <2>3. tree[u] \in UnitRecord
      BY <2>1 DEF Grown, IsContent
    <2>4. e[u] = [tree[u] EXCEPT !.kind = "heading"]
      BY <2>1 DEF Promoted
    <2>5. e[u].kind = "heading" /\ e[u].parent = tree[u].parent
      BY <2>3, <2>4 DEF UnitRecord
    <2>6. DOMAIN e = DOMAIN tree
      BY <2>1 DEF Promoted
    <2> HIDE DEF e
    <2> QED BY <1>2, <2>1, <2>2, <2>5, <2>6 DEF e
  <1>3. CASE need.op = "toggle" /\ tree[u].kind # "prose"
    <2>1. e = Dissolved(tree, u) /\ u \in DOMAIN tree /\ tree[u].kind = "heading"
      BY <1>3 DEF Done, Toggled, Allowed, MayToggle
    <2>2. LiftedFrom(tree, e, u)
      BY <2>1, DissolvedLifts DEF Grown
    <2> HIDE DEF e
    <2> QED BY <1>3, <2>1, <2>2 DEF LiftedFrom, e
  <1>4. CASE need.op = "reparent"
    <2>1. /\ e = Reparented(tree, u, need.parent, need.at)
          /\ u \in DOMAIN tree /\ need.parent \in DOMAIN tree \cup {Top}
      BY <1>4, Zenon DEF Allowed, Done, MayReparent
    <2>2. need.at \in Place
      BY OutlineAssumption DEF Need
    <2>3. MovedBelow(tree, e, u, need.parent)
      BY <2>1, <2>2, ReparentedMoves DEF Grown
    <2> HIDE DEF e
    <2> QED BY <1>4, <2>1, <2>3 DEF MovedBelow, e
  <1> QED BY <1>1, <1>2, <1>3, <1>4

(* What is left to be sent leads on from there.                                *)
LEMMA TailLeads ==
    ASSUME Grown, NEW d, NEW queue \in Seq(Need), queue # << >>, Leads(d, tree, queue),
           Allowed(Head(queue))
    PROVE  Leads(d, Done(Head(queue)), Tail(queue))
  <1> DEFINE need == Head(queue)
             u    == need.unit
             e    == Done(need)
             rest == Tail(queue)
  <1>1. /\ Len(queue) \in Nat /\ Len(queue) >= 1 /\ need = queue[1] /\ need \in Need
        /\ Len(rest) = Len(queue) - 1
        /\ \A k \in 1..Len(rest) : rest[k] = queue[k + 1]
    <2>1. Len(queue) \in Nat /\ Len(queue) # 0
      BY EmptySeq, LenProperties
    <2>2. /\ need = queue[1] /\ Len(rest) = Len(queue) - 1
          /\ \A k \in 1..Len(rest) : rest[k] = queue[k + 1]
      BY HeadTailProperties
    <2>3. queue[1] \in Need
      BY <2>1, ElementOfSeq
    <2> QED BY <2>1, <2>2, <2>3
  <1>2. /\ DOMAIN e = DOMAIN tree /\ u \in DOMAIN tree
        /\ need.op = "toggle" =>
             /\ tree[u].kind \in {"prose", "heading"}
             /\ \A v \in DOMAIN tree :
                 /\ e[v].kind = IF v # u THEN tree[v].kind
                                ELSE IF tree[u].kind = "prose" THEN "heading" ELSE "prose"
                 /\ e[v].parent = IF tree[u].kind = "heading" /\ tree[v].parent = u
                                  THEN tree[u].parent ELSE tree[v].parent
        /\ need.op = "reparent" =>
             \A v \in DOMAIN tree :
                 /\ e[v].kind = tree[v].kind
                 /\ e[v].parent = IF v = u THEN need.parent ELSE tree[v].parent
    BY <1>1, DoneMakes
  <1>3. need.op \in {"toggle", "reparent"}
    BY <1>1 DEF Need
  <1> HIDE DEF need, e, rest
  <1>4. Has(d, e) = Has(d, tree)
    BY <1>2 DEF Has
  <1>5. PICK at \in Has(d, tree) :
            /\ u = d[at].id
            /\ need.op = "toggle" => d[at].heading # (tree[u].kind = "heading")
            /\ need.op = "reparent" => need.parent = d[at].parent
    BY <1>1 DEF Leads
  <1>6. \A i \in Has(d, tree) : d[i].id = u => i = at
    <2>1. Stamps(d) /\ DOMAIN d = 1..Len(d)
      BY LenProperties DEF Leads, Sectioned
    <2> QED BY <2>1, <1>5 DEF Stamps, Has
  <1>7. \A i \in 1..Len(d) : d[i].heading \in BOOLEAN
    <2>1. PICK n \in 0..MaxUnit : d \in Seq(Block(n))
      BY DEF Leads, Sectioned
    <2>2. \A i \in 1..Len(d) : d[i] \in Block(n)
      BY <2>1, ElementOfSeq
    <2> QED BY <2>2 DEF Block
  <1>8. ASSUME NEW op, NEW v, Asked(queue, op, v)
        PROVE  (op = need.op /\ v = u) \/ Asked(rest, op, v)
    <2>1. PICK k \in 1..Len(queue) : queue[k].op = op /\ queue[k].unit = v
      BY <1>8 DEF Asked
    <2>2. CASE k = 1
      BY <1>1, <2>1, <2>2
    <2>3. CASE k # 1
      <3>1. k - 1 \in 1..Len(rest) /\ rest[k - 1] = queue[k]
        BY <1>1, <2>3
      <3> QED BY <2>1, <3>1 DEF Asked
    <2> QED BY <2>2, <2>3
  <1>9. ASSUME NEW k \in 1..Len(rest)
        PROVE  \E i \in Has(d, e) :
                /\ rest[k].unit = d[i].id
                /\ rest[k].op = "toggle" => d[i].heading # (e[d[i].id].kind = "heading")
                /\ rest[k].op = "reparent" => rest[k].parent = d[i].parent
    <2>1. k + 1 \in 1..Len(queue) /\ 1 \in 1..Len(queue) /\ 1 < k + 1 /\ rest[k] = queue[k + 1]
      BY <1>1
    <2>2. PICK i \in Has(d, tree) :
            /\ rest[k].unit = d[i].id
            /\ rest[k].op = "toggle" => d[i].heading # (tree[d[i].id].kind = "heading")
            /\ rest[k].op = "reparent" => rest[k].parent = d[i].parent
      BY <2>1 DEF Leads
    <2>3. ASSUME rest[k].op = "toggle"
          PROVE  e[d[i].id].kind = tree[d[i].id].kind
      <3>1. d[i].id \in DOMAIN tree
        BY DEF Has
      <3>2. CASE need.op = "reparent"
        BY <1>2, <3>1, <3>2
      <3>3. CASE need.op = "toggle"
        <4>1. d[i].id # u
          <5> SUFFICES ASSUME d[i].id = u
                       PROVE  FALSE
            OBVIOUS
          <5>1. queue[1].op = queue[k + 1].op /\ d[i].id = queue[1].unit /\ d[i].id = queue[k + 1].unit
            BY <1>1, <2>1, <2>2, <2>3, <3>3
          <5>2. i < i
            BY <2>1, <5>1 DEF Leads
          <5>3. i \in Int
            BY LenProperties DEF Has
          <5> QED BY <5>2, <5>3
        <4> QED BY <1>2, <3>1, <3>3, <4>1
      <3> QED BY <1>3, <3>2, <3>3
    <2> QED BY <1>4, <2>2, <2>3
  <1>10. ASSUME NEW k \in 1..Len(rest), NEW l \in 1..Len(rest), k < l
         PROVE  /\ rest[k].op = "reparent" => rest[l].op = "reparent"
                /\ rest[k].op = rest[l].op => \A i, j \in Has(d, e) :
                        d[i].id = rest[k].unit /\ d[j].id = rest[l].unit => i < j
    <2>1. /\ k + 1 \in 1..Len(queue) /\ l + 1 \in 1..Len(queue) /\ k + 1 < l + 1
          /\ rest[k] = queue[k + 1] /\ rest[l] = queue[l + 1]
      BY <1>1, <1>10
    <2> QED BY <2>1, <1>4 DEF Leads
  <1>11. ASSUME NEW i \in Has(d, e)
         PROVE  d[i].parent = e[d[i].id].parent \/ Asked(rest, "reparent", d[i].id)
    <2>1. i \in Has(d, tree) /\ i \in 1..Len(d) /\ d[i].id \in DOMAIN tree
      BY <1>4 DEF Has
    <2>2. d[i].parent = tree[d[i].id].parent \/ Asked(queue, "reparent", d[i].id)
      BY <2>1 DEF Leads
    <2>3. CASE need.op = "reparent"
      BY <1>2, <1>5, <1>6, <1>8, <2>1, <2>2, <2>3
    <2>4. CASE need.op = "toggle"
      <3>1. CASE Asked(queue, "reparent", d[i].id)
        BY <1>8, <2>4, <3>1
      <3>2. CASE d[i].parent = tree[d[i].id].parent
        <4>1. ~(tree[u].kind = "heading" /\ d[i].parent = u)
          <5> SUFFICES ASSUME tree[u].kind = "heading", d[i].parent = u
                       PROVE  FALSE
            OBVIOUS
          <5>1. u # Top
            BY <1>2, TreeAssumption DEF Grown, IsContent
          <5>2. PICK h \in 1..(i - 1) : d[h].heading /\ d[h].id = u
            BY <5>1, <2>1 DEF Leads, Sectioned, Nested
          <5>3. h \in 1..Len(d) /\ Len(d) \in Nat
            BY <2>1, LenProperties
          <5>4. h \in Has(d, tree)
            BY <5>2, <5>3, <1>2 DEF Has, Leads, Sectioned
          <5> QED BY <1>5, <1>6, <2>4, <5>2, <5>4
        <4> QED BY <1>2, <2>1, <2>4, <3>2, <4>1
      <3> QED BY <2>2, <3>1, <3>2
    <2> QED BY <1>3, <2>3, <2>4
  <1>12. ASSUME NEW i \in Has(d, e), d[i].heading
         PROVE  e[d[i].id].kind = "heading" \/ Asked(rest, "toggle", d[i].id)
    <2>1. i \in Has(d, tree) /\ i \in 1..Len(d) /\ d[i].id \in DOMAIN tree
      BY <1>4 DEF Has
    <2>2. tree[d[i].id].kind = "heading" \/ Asked(queue, "toggle", d[i].id)
      BY <2>1, <1>12 DEF Leads
    <2>3. CASE need.op = "reparent"
      BY <1>2, <1>8, <2>1, <2>2, <2>3
    <2>4. CASE need.op = "toggle" /\ d[i].id = u
      BY <1>2, <1>5, <1>6, <1>7, <1>12, <2>1, <2>4
    <2>5. CASE need.op = "toggle" /\ d[i].id # u
      BY <1>2, <1>8, <2>1, <2>2, <2>5
    <2> QED BY <1>3, <2>3, <2>4, <2>5
  <1>13. Sectioned(d)
    BY DEF Leads
  <1> QED BY <1>9, <1>10, <1>11, <1>12, <1>13 DEF Leads, e, rest, need

(* What structuralNeeds lists leads to the document.                           *)
LEMMA NeedsLead ==
    ASSUME NEW n \in 0..MaxUnit, NEW C, NEW d \in Seq(Plain(n, C)), Stamps(d), Nested(d),
           NEW c, IsContent(c)
    PROVE  Leads(d, c, StructuralNeeds(d, c))
  <1> DEFINE A       == {i \in Has(d, c) : d[i].heading # (c[d[i].id].kind = "heading")}
             B       == {i \in Has(d, c) : d[i].parent # c[d[i].id].parent}
             toggles == Ascending(A)
             moves   == Ascending(B)
             slot(i) == Cardinality({j \in 1..(i - 1) : d[j].parent = d[i].parent})
             one(k)  == Toggle(d[toggles[k]].id)
             two(k)  == Move(d[moves[k]].id, d[moves[k]].parent, slot(moves[k]))
             M       == Len(toggles)
             N       == Len(moves)
             q       == StructuralNeeds(d, c)
             aimed(k) == \E i \in Has(d, c) :
                /\ q[k].unit = d[i].id
                /\ q[k].op = "toggle" => d[i].heading # (c[d[i].id].kind = "heading")
                /\ q[k].op = "reparent" => q[k].parent = d[i].parent
             ordered(k, l) ==
                /\ q[k].op = "reparent" => q[l].op = "reparent"
                /\ q[k].op = q[l].op => \A i, j \in Has(d, c) :
                        d[i].id = q[k].unit /\ d[j].id = q[l].unit => i < j
  <1>1. /\ d \in Seq(Block(n)) /\ DOMAIN d = 1..Len(d) /\ Len(d) \in Nat
        /\ \A i \in 1..Len(d) : d[i] \in Plain(n, C) /\ d[i] \in Block(n)
    BY PlainBlocks
  <1>2. A \subseteq 0..Len(d) /\ B \subseteq 0..Len(d)
    BY DEF Has
  <1>3. /\ toggles \in Seq(A) /\ M = Cardinality(A)
        /\ \A x \in A : \E k \in 1..Cardinality(A) : toggles[k] = x
        /\ \A k, l \in 1..Cardinality(A) : k < l => toggles[k] < toggles[l]
    <2> HIDE DEF A
    <2> QED BY <1>1, <1>2, AscendingLists
  <1>4. /\ moves \in Seq(B) /\ N = Cardinality(B)
        /\ \A x \in B : \E k \in 1..Cardinality(B) : moves[k] = x
        /\ \A k, l \in 1..Cardinality(B) : k < l => moves[k] < moves[l]
    <2> HIDE DEF B
    <2> QED BY <1>1, <1>2, AscendingLists
  <1>5. q = [k \in DOMAIN toggles |-> one(k)] \o [k \in DOMAIN moves |-> two(k)]
    <2>1. Has(d, c) = {i \in DOMAIN d : ~d[i].config /\ d[i].id \in DOMAIN c}
      BY <1>1 DEF Has
    <2> QED BY <2>1 DEF StructuralNeeds, Earlier
  <1> HIDE DEF toggles, moves, slot, q, A, B
  <1>6. /\ DOMAIN toggles = 1..M /\ M \in Nat /\ DOMAIN moves = 1..N /\ N \in Nat
        /\ \A k \in 1..M : toggles[k] \in A
        /\ \A k \in 1..N : moves[k] \in B
    BY <1>3, <1>4, LenProperties, ElementOfSeq
  <1> HIDE DEF M, N
  <1>7. /\ Len(q) = M + N
        /\ \A k \in 1..M : q[k] = one(k)
        /\ \A k \in 1..N : q[M + k] = two(k)
    <2> DEFINE S      == {one(k) : k \in 1..M} \cup {two(k) : k \in 1..N}
               first  == [k \in 1..M |-> one(k)]
               second == [k \in 1..N |-> two(k)]
    <2>1. first \in Seq(S) /\ second \in Seq(S)
      <3>1. (\A k \in 1..M : one(k) \in S) /\ (\A k \in 1..N : two(k) \in S)
        OBVIOUS
      <3> HIDE DEF S, one, two
      <3> QED BY <3>1, <1>6, IsASeq
    <2>2. Len(first) = M /\ Len(second) = N
      <3> HIDE DEF one, two
      <3> QED BY <2>1, <1>6, LenProperties
    <2>3. q = first \o second
      BY <1>5, <1>6
    <2>4. \A k \in 1..M : first[k] = one(k)
      OBVIOUS
    <2>5. \A k \in 1..N : second[k] = two(k)
      OBVIOUS
    <2> HIDE DEF S, first, second, one, two
    <2>6. /\ Len(q) = M + N
          /\ \A k \in 1..(M + N) : q[k] = IF k <= M THEN first[k] ELSE second[k - M]
      BY <2>1, <2>2, <2>3, ConcatProperties
    <2>7. ASSUME NEW k \in 1..N
          PROVE  q[M + k] = two(k)
      <3>1. M + k \in 1..(M + N) /\ ~(M + k <= M) /\ (M + k) - M = k
        BY <1>6
      <3> QED BY <3>1, <2>5, <2>6
    <2>8. ASSUME NEW k \in 1..M
          PROVE  q[k] = one(k)
      <3>1. k \in 1..(M + N) /\ k <= M
        BY <1>6
      <3> QED BY <3>1, <2>4, <2>6
    <2> QED BY <2>6, <2>7, <2>8
  <1>8. /\ \A k \in 1..M : q[k].op = "toggle" /\ q[k].unit = d[toggles[k]].id
        /\ \A k \in 1..N : /\ q[M + k].op = "reparent" /\ q[M + k].unit = d[moves[k]].id
                           /\ q[M + k].parent = d[moves[k]].parent
    <2>1. ASSUME NEW k \in 1..M
          PROVE  q[k].op = "toggle" /\ q[k].unit = d[toggles[k]].id
      <3>1. q[k] = one(k)
        BY <1>7
      <3> QED BY <3>1 DEF Toggle
    <2>2. ASSUME NEW k \in 1..N
          PROVE  /\ q[M + k].op = "reparent" /\ q[M + k].unit = d[moves[k]].id
                 /\ q[M + k].parent = d[moves[k]].parent
      <3>1. q[M + k] = two(k)
        BY <1>7
      <3> QED BY <3>1 DEF Move
    <2> QED BY <2>1, <2>2
  <1>9. \A k \in 1..Len(q) : k \in 1..M \/ \E m \in 1..N : k = M + m
    <2> SUFFICES ASSUME NEW k \in 1..Len(q), ~(k \in 1..M)
                 PROVE  \E m \in 1..N : k = M + m
      OBVIOUS
    <2>1. k - M \in 1..N /\ k = M + (k - M)
      BY <1>6, <1>7
    <2> QED BY <2>1
  <1>10. \A i, j \in Has(d, c) : d[i].id = d[j].id => i = j
    BY <1>1 DEF Has, Stamps
  <1>11. A \subseteq Has(d, c) /\ B \subseteq Has(d, c) /\ \A i \in Has(d, c) : i \in 1..Len(d)
    BY DEF A, B, Has
  <1>12. ASSUME NEW k \in 1..Len(q)
         PROVE  aimed(k)
    <2>1. CASE k \in 1..M
      <3>1. toggles[k] \in A /\ q[k].op = "toggle" /\ q[k].unit = d[toggles[k]].id
        BY <2>1, <1>6, <1>8
      <3> QED BY <3>1 DEF A
    <2>2. ASSUME NEW m \in 1..N, k = M + m
          PROVE  aimed(k)
      <3>1. /\ moves[m] \in B /\ q[k].op = "reparent" /\ q[k].unit = d[moves[m]].id
            /\ q[k].parent = d[moves[m]].parent
        BY <2>2, <1>6, <1>8
      <3> QED BY <3>1 DEF B
    <2> QED BY <2>1, <2>2, <1>9
  <1>13. ASSUME NEW k \in 1..Len(q), NEW l \in 1..Len(q), k < l
         PROVE  ordered(k, l)
    <2>1. CASE k \in 1..M /\ l \in 1..M
      <3>1. toggles[k] < toggles[l] /\ toggles[k] \in Has(d, c) /\ toggles[l] \in Has(d, c)
        BY <2>1, <1>3, <1>6, <1>11, <1>13
      <3> QED BY <2>1, <3>1, <1>8, <1>10
    <2>2. ASSUME NEW m \in 1..N, k = M + m
          PROVE  ordered(k, l)
      <3>1. PICK p \in 1..N : l = M + p
        BY <2>2, <1>6, <1>9, <1>13
      <3>2. m < p
        BY <2>2, <3>1, <1>6, <1>13
      <3>3. moves[m] < moves[p] /\ moves[m] \in Has(d, c) /\ moves[p] \in Has(d, c)
        BY <3>2, <1>4, <1>6, <1>11
      <3> QED BY <2>2, <3>1, <3>3, <1>8, <1>10
    <2>3. ASSUME k \in 1..M, NEW p \in 1..N, l = M + p
          PROVE  ordered(k, l)
      <3>1. q[k].op = "toggle" /\ q[l].op = "reparent"
        BY <2>3, <1>8
      <3> QED BY <3>1
    <2> QED BY <2>1, <2>2, <2>3, <1>9
  <1>14. ASSUME NEW i \in Has(d, c)
         PROVE  /\ d[i].parent = c[d[i].id].parent \/ Asked(q, "reparent", d[i].id)
                /\ d[i].heading => c[d[i].id].kind = "heading" \/ Asked(q, "toggle", d[i].id)
    <2>1. ASSUME d[i].parent # c[d[i].id].parent
          PROVE  Asked(q, "reparent", d[i].id)
      <3>1. PICK k \in 1..N : moves[k] = i
        BY <2>1, <1>4 DEF B, N
      <3>2. M + k \in 1..Len(q)
        BY <1>6, <1>7
      <3> QED BY <3>1, <3>2, <1>8 DEF Asked
    <2>2. ASSUME d[i].heading, c[d[i].id].kind # "heading"
          PROVE  Asked(q, "toggle", d[i].id)
      <3>1. d[i].heading \in BOOLEAN
        BY <1>1, <1>11 DEF Block
      <3>2. PICK k \in 1..M : toggles[k] = i
        BY <2>2, <3>1, <1>3 DEF A, M
      <3>3. k \in 1..Len(q)
        BY <1>6, <1>7
      <3> QED BY <3>2, <3>3, <1>8 DEF Asked
    <2> QED BY <2>1, <2>2
  <1>15. Sectioned(d)
    <2>1. \A i \in 1..Len(d) : d[i].heading => ~d[i].config
      BY <1>1 DEF Plain
    <2> QED BY <2>1, <1>1 DEF Sectioned
  <1> QED BY <1>12, <1>13, <1>14, <1>15 DEF Leads, q

--------------------------------------------------------------------------------
(* While nobody else writes and no request fails.                              *)

Untyped(c) == \A u \in DOMAIN c : c[u].type = NoType

LEMMA NumberedTypes ==
    ASSUME NEW c, IsContent(c), NEW S \in SUBSET DOMAIN c
    PROVE  \A v \in DOMAIN c : Numbered(c, S)[v].type = c[v].type
  BY DEF Numbered, IsContent, UnitRecord

LEMMA ReparentedTypes ==
    ASSUME NEW c, IsContent(c), NEW u \in DOMAIN c, NEW p \in DOMAIN c \cup {Top}, NEW at \in Place
    PROVE  \A v \in DOMAIN c : Reparented(c, u, p, at)[v].type = c[v].type
  <1> DEFINE left == Numbered(c, Kids(c, c[u].parent) \ {u})
             room == [v \in DOMAIN c |->
                        IF v = u THEN [left[v] EXCEPT !.parent = p, !.pos = at]
                        ELSE IF c[v].parent = p /\ left[v].pos >= at
                        THEN [left[v] EXCEPT !.pos = @ + 1]
                        ELSE left[v]]
  <1>1. Kids(c, c[u].parent) \ {u} \in SUBSET DOMAIN c /\ Kids(c, p) \cup {u} \in SUBSET DOMAIN c
    BY DEF Kids
  <1>2. /\ IsContent(left) /\ DOMAIN left = DOMAIN c
        /\ \A v \in DOMAIN c : left[v].type = c[v].type
    BY <1>1, NumberedContent, NumberedTypes
  <1> HIDE DEF left
  <1>3. \A v \in DOMAIN c : left[v] \in UnitRecord
    BY <1>2 DEF IsContent
  <1>4. at \in Nat /\ p \in Unit \cup {Top}
    BY TreeAssumption DEF IsContent
  <1>5. \A v \in DOMAIN c : room[v] \in UnitRecord /\ room[v].type = c[v].type
    <2> SUFFICES ASSUME NEW v \in DOMAIN c
                 PROVE  room[v] \in UnitRecord /\ room[v].type = c[v].type
      OBVIOUS
    <2>1. left[v] \in UnitRecord /\ left[v].pos + 1 \in Nat /\ left[v].type = c[v].type
      BY <1>2, <1>3 DEF UnitRecord
    <2>2. /\ [left[v] EXCEPT !.parent = p, !.pos = at] \in UnitRecord
          /\ [left[v] EXCEPT !.parent = p, !.pos = at].type = left[v].type
      BY <2>1, <1>4 DEF UnitRecord
    <2>3. /\ [left[v] EXCEPT !.pos = @ + 1] \in UnitRecord
          /\ [left[v] EXCEPT !.pos = @ + 1].type = left[v].type
      BY <2>1 DEF UnitRecord
    <2>4. \/ room[v] = [left[v] EXCEPT !.parent = p, !.pos = at]
          \/ room[v] = [left[v] EXCEPT !.pos = @ + 1]
          \/ room[v] = left[v]
      OBVIOUS
    <2> HIDE DEF room
    <2> QED BY <2>1, <2>2, <2>3, <2>4
  <1>6. DOMAIN room = DOMAIN c /\ room = [v \in DOMAIN room |-> room[v]]
    OBVIOUS
  <1>7. Reparented(c, u, p, at) = Numbered(room, Kids(c, p) \cup {u})
    BY DEF Reparented, left
  <1> HIDE DEF room
  <1>8. IsContent(room)
    BY <1>5, <1>6 DEF IsContent
  <1> QED BY <1>1, <1>5, <1>6, <1>7, <1>8, NumberedTypes

LEMMA ToggledTypes ==
    ASSUME NEW c, IsContent(c), NEW u \in DOMAIN c
    PROVE  \A v \in DOMAIN c : Toggled(c, u)[v].type = c[v].type
  <1>1. \A v \in DOMAIN c : c[v] \in UnitRecord
    BY DEF IsContent
  <1>2. \A v \in DOMAIN c : Promoted(c, u)[v].type = c[v].type
    BY <1>1 DEF Promoted, UnitRecord
  <1>3. \A v \in DOMAIN c : Dissolved(c, u)[v].type = c[v].type
    BY <1>1 DEF Dissolved, UnitRecord
  <1> QED BY <1>2, <1>3 DEF Toggled

LEMMA DoneTypes ==
    ASSUME Grown, NEW need \in Need, Allowed(need), Untyped(tree)
    PROVE  Untyped(Done(need))
  <1>1. DOMAIN Done(need) = DOMAIN tree
    BY DoneIs
  <1>2. CASE need.op = "toggle"
    <2>1. Done(need) = Toggled(tree, need.unit) /\ need.unit \in DOMAIN tree
      BY <1>2 DEF Done, Allowed, MayToggle
    <2> QED BY <1>1, <2>1, ToggledTypes DEF Grown, Untyped
  <1>3. CASE need.op # "toggle"
    <2>1. /\ Done(need) = Reparented(tree, need.unit, need.parent, need.at)
          /\ need.unit \in DOMAIN tree /\ need.parent \in DOMAIN tree \cup {Top}
      BY <1>3, Zenon DEF Done, Allowed, MayReparent
    <2>2. need.at \in Place
      BY OutlineAssumption DEF Need
    <2> QED BY <1>1, <2>1, <2>2, ReparentedTypes DEF Grown, Untyped
  <1> QED BY <1>2, <1>3

LEMMA SavedTypes ==
    ASSUME NEW c, NEW ups, NEW dels, MaySave(c, ups, dels), Untyped(c)
    PROVE  Untyped(Saved(c, ups, dels))
  BY DEF Untyped, Saved, MaySave, FacetsKept, NewUnitAllowed

(* What is sent is right for what the server has.                              *)
Right ==
    /\ priorRev = revision
    /\ Untyped(tree)
    /\ sync.pc \in {"idle", "put", "op", "op get"}
    /\ sync.pc = "put" => SaveAllowed(sync.body)
    /\ sync.pc = "op" => \E d : Leads(d, tree, sync.queue)
    /\ sync.pc = "op get" => Excused(Head(sync.queue), tree)

Alone ==
    /\ changes \in Nat /\ lost \in Nat
    /\ changes = 0 /\ lost = 0 => Right

LEMMA IdleRight ==
    ASSUME priorRev' = revision', Untyped(tree'), sync' = Idle
    PROVE  Right'
  <1>1. sync'.pc = "idle"
    BY DEF Idle
  <1> QED BY <1>1 DEF Right

LEMMA DrainRight ==
    ASSUME Sound', Laid', prior' = tree', priorRev' = revision', Untyped(tree'),
           NEW base, NEW tries, NEW rejected, Drain(base, tries, rejected)
    PROVE  Right'
  <1> DEFINE needs == StructuralNeeds(doc', prior')
  <1>1. CASE needs = << >>
    <2>1. sync' = Idle
      BY <1>1 DEF Drain, Settle
    <2> QED BY <2>1, IdleRight
  <1>2. CASE needs # << >>
    <2>1. Leads(doc', prior', needs)
      <3>1. PICK C : Placed(C)'
        BY DEF Laid
      <3>2. /\ minted' \in 0..MaxUnit /\ doc' \in Seq(Plain(minted', C))
            /\ Stamps(doc') /\ Nested(doc') /\ IsContent(prior')
        BY <3>1 DEF Placed, Laid, Sound, Editing, Known
      <3> QED BY <3>2, NeedsLead
    <2>2. sync' = [Idle EXCEPT !.pc = "op", !.queue = needs, !.base = base,
                               !.tries = tries, !.rejected = rejected]
      BY <1>2 DEF Drain
    <2> HIDE DEF needs
    <2>3. sync'.queue = needs /\ sync'.pc = "op"
      BY <2>2 DEF Idle
    <2> QED BY <2>1, <2>3 DEF Right
  <1> QED BY <1>1, <1>2

(* An operation is carried out; nothing is merged, as nobody else wrote.       *)
LEMMA OpAcceptedRight ==
    ASSUME Sound, Right, OpAccepted
    PROVE  Right'
  <1> DEFINE need == Head(sync.queue)
  <1>1. /\ Grown /\ Holding /\ sync.pc = "op" /\ Allowed(need)
        /\ tree' = Done(need) /\ priorRev' = revision'
    BY DEF Sound, OpAccepted, Write, Adopt
  <1>2. sync.queue # << >> /\ sync.queue \in Seq(Need) /\ need \in Need
    BY <1>1, HeadIs DEF Holding
  <1>3. Untyped(tree')
    BY <1>1, <1>2, DoneTypes DEF Right
  <1>4. CASE Len(sync.queue) > 1
    <2>1. sync' = [sync EXCEPT !.queue = Tail(sync.queue)]
      BY <1>4 DEF OpAccepted
    <2>2. sync'.queue = Tail(sync.queue) /\ sync'.pc = "op"
      BY <2>1, <1>1 DEF Holding
    <2>3. PICK d : Leads(d, tree, sync.queue)
      BY <1>1 DEF Right
    <2>4. Leads(d, tree', sync'.queue)
      BY <1>1, <1>2, <2>2, <2>3, TailLeads
    <2> QED BY <1>1, <1>3, <2>2, <2>4 DEF Right
  <1>5. CASE ~(Len(sync.queue) > 1)
    <2>1. sync' = Idle
      BY <1>5 DEF OpAccepted, Settle
    <2> QED BY <1>1, <1>3, <2>1, IdleRight
  <1> QED BY <1>4, <1>5

LEMMA RefusedRight ==
    ASSUME Sound, Laid, Right, SaveRefused \/ OpRefused
    PROVE  Right'
  <1>1. CASE SaveRefused
    BY <1>1 DEF SaveRefused, Right, Fresh
  <1>2. CASE OpRefused
    <2> DEFINE need == Head(sync.queue)
    <2>1. /\ Grown /\ Holding /\ sync.pc = "op" /\ ~Allowed(need)
          /\ sync' = [sync EXCEPT !.pc = "op get"]
          /\ UNCHANGED <<tree, revision, priorRev>>
      BY <1>2 DEF Sound, OpRefused, Right, Fresh, server
    <2>2. sync.queue # << >> /\ sync.queue \in Seq(Need) /\ need \in Need
      BY <2>1, HeadIs DEF Holding
    <2>3. PICK d : Leads(d, tree, sync.queue)
      BY <2>1 DEF Right
    <2>4. \A u \in DOMAIN tree : tree[u].kind = "config" => u # need.unit
      <3>1. PICK C : Placed(C) /\ Pending(C)
        BY DEF Laid
      <3>2. need.unit \notin C
        BY <2>2, <3>1, QueueIs DEF NeedOf
      <3> QED BY <3>1, <3>2 DEF Placed, HomesOf
    <2>5. Excused(need, tree)
      BY <2>1, <2>2, <2>3, <2>4, HeadMay
    <2>6. sync'.pc = "op get" /\ sync'.queue = sync.queue
      BY <2>1 DEF Holding
    <2> QED BY <2>1, <2>5, <2>6 DEF Right
  <1> QED BY <1>1, <1>2

LEMMA FlushSaveRight ==
    ASSUME Sound, Current, Laid, Headed, Right, FlushSave
    PROVE  Right'
  <1> DEFINE delta == FlushToContent(doc, prior, minted)
  <1>1. /\ sync' = [Idle EXCEPT !.pc = "put", !.body = delta]
        /\ UNCHANGED <<tree, revision, priorRev>>
        /\ minted + Flips(doc, prior) <= MaxUnit
    BY DEF FlushSave, server
  <1>2. prior = tree
    BY DEF Right, Current
  <1>3. PICK C : Placed(C)
    BY DEF Laid
  <1>4. /\ minted \in 0..MaxUnit /\ Stamps(doc) /\ doc \in Seq(Plain(minted, C))
        /\ IsContent(tree) /\ WellFormed(tree) /\ DOMAIN tree \subseteq 1..minted
        /\ HomesOf(tree, C) /\ HeadsOn(doc, tree)
        /\ \A u \in DOMAIN tree : tree[u].type = NoType
    BY <1>2, <1>3 DEF Sound, Grown, Editing, Known, Placed, Headed, Right, Untyped
  <1>5. minted + Flips(doc, tree) <= MaxUnit
    BY <1>1, <1>2
  <1>6. MaySave(tree, delta.upserts, delta.deletes)
    BY <1>2, <1>4, <1>5, FlushAllowed
  <1> HIDE DEF delta
  <1>7. sync'.pc = "put" /\ sync'.body = delta
    BY <1>1 DEF Idle
  <1>8. MaySave(tree', sync'.body.upserts, sync'.body.deletes)
    BY <1>1, <1>6, <1>7
  <1>9. /\ priorRev' = revision' /\ Untyped(tree')
    BY <1>1 DEF Right
  <1> QED BY <1>7, <1>8, <1>9 DEF Right, SaveAllowed

(* The number of requests that fail and of changes of the other device.        *)
LEMMA Counted ==
    ASSUME Sound, [Next]_vars
    PROVE  \/ UNCHANGED <<changes, lost>>
           \/ lost' = lost + 1 /\ changes' = changes
           \/ changes' = changes + 1 /\ lost' = lost
  <1>1. CASE Gesture
    <2>1. PICK new \in Seq(Block(minted)) : Edit(new)
      <3>1. Editing /\ Editable(Block(minted)) /\ doc \in Seq(Block(minted))
        BY BlocksEditable, OutlineAssumption DEF Sound, Editing
      <3> QED BY <3>1, <1>1, GestureEdits
    <2> QED BY <2>1 DEF Edit, server
  <1>2. CASE FlushNothing \/ FlushSave \/ FlushStructure \/ SaveAccepted \/ SaveRefused
    BY <1>2 DEF FlushNothing, FlushSave, FlushStructure, SaveAccepted, SaveRefused, server, Write
  <1>3. CASE Merge \/ MergeRefused \/ OpMerge
    BY <1>3 DEF Merge, MergeRefused, OpMerge, server
  <1>4. CASE OpAccepted \/ OpRefused \/ OpSave
    BY <1>4 DEF OpAccepted, OpRefused, OpSave, server, Write
  <1>5. CASE Fail
    BY <1>5 DEF Fail, server, Write
  <1>6. CASE OtherDevice
    BY <1>6 DEF OtherDevice
  <1>7. CASE UNCHANGED vars
    BY <1>7 DEF vars
  <1> QED BY <1>1, <1>2, <1>3, <1>4, <1>5, <1>6, <1>7 DEF Next, Sync

LEMMA AloneSteps ==
    ASSUME Sound, Sound', Screen, Screen', KeepHeadings, Alone, [Next]_vars
    PROVE  Alone'
  <1>1. changes' \in Nat /\ lost' \in Nat
    BY Counted DEF Alone
  <1> SUFFICES ASSUME changes' = 0, lost' = 0
               PROVE  Right'
    BY <1>1 DEF Alone
  <1>2. UNCHANGED <<changes, lost>>
    BY Counted DEF Alone
  <1>3. Right /\ Current /\ Laid /\ Headed /\ Laid' /\ Current'
    BY <1>2 DEF Alone, Screen
  <1>4. CASE Gesture \/ FlushNothing \/ UNCHANGED vars
    <2>1. UNCHANGED <<tree, revision, priorRev, sync>>
      <3>1. CASE Gesture
        <4>1. PICK new \in Seq(Block(minted)) : Edit(new)
          <5>1. Editing /\ Editable(Block(minted)) /\ doc \in Seq(Block(minted))
            BY BlocksEditable, OutlineAssumption DEF Sound, Editing
          <5> QED BY <5>1, <3>1, GestureEdits
        <4> QED BY <4>1 DEF Edit, server
      <3>2. CASE FlushNothing
        BY <3>2 DEF FlushNothing, server
      <3>3. CASE UNCHANGED vars
        BY <3>3 DEF vars
      <3> QED BY <1>4, <3>1, <3>2, <3>3
    <2> QED BY <1>3, <2>1 DEF Right, SaveAllowed
  <1>5. CASE FlushSave
    BY <1>3, <1>5, FlushSaveRight
  <1>6. CASE FlushStructure
    <2>1. /\ UNCHANGED <<tree, revision, prior, priorRev>>
          /\ Drain(prior, 0, ~NoDelta(FlushToContent(doc, prior, minted)))
      BY <1>6 DEF FlushStructure, server
    <2>2. prior' = tree' /\ priorRev' = revision' /\ Untyped(tree')
      BY <1>3, <2>1 DEF Right, Current
    <2> QED BY <1>3, <2>1, <2>2, DrainRight
  <1>7. CASE SaveAccepted
    <2>1. /\ SaveAllowed(sync.body) /\ tree' = SaveDone(sync.body)
          /\ prior' = tree' /\ priorRev' = revision' /\ Drain(tree', 0, FALSE)
      BY <1>7 DEF SaveAccepted, Write, Adopt
    <2>2. Untyped(tree')
      BY <1>3, <2>1, SavedTypes DEF Right, SaveAllowed, SaveDone
    <2> QED BY <1>3, <2>1, <2>2, DrainRight
  <1>8. CASE SaveRefused \/ OpRefused
    BY <1>3, <1>8, RefusedRight
  <1>9. CASE Merge \/ MergeRefused \/ OpSave
    BY <1>3, <1>9 DEF Merge, MergeRefused, OpSave, Right
  <1>10. CASE OpAccepted
    BY <1>3, <1>10, OpAcceptedRight
  <1>11. CASE OpMerge
    <2>1. revision <= priorRev
      BY <1>3 DEF Right, Current
    <2>2. UNCHANGED <<tree, revision, priorRev>> /\ sync' = Idle
      BY <1>11, <2>1 DEF OpMerge, Settle, server
    <2>3. priorRev' = revision' /\ Untyped(tree')
      BY <1>3, <2>2 DEF Right
    <2> QED BY <2>2, <2>3, IdleRight
  <1>12. CASE Fail \/ OtherDevice
    <2>1. lost' = lost + 1 \/ changes' = changes + 1
      BY <1>12 DEF Fail, OtherDevice
    <2> QED BY <1>2, <2>1 DEF Alone
  <1> QED BY <1>4, <1>5, <1>6, <1>7, <1>8, <1>9, <1>10, <1>11, <1>12 DEF Next, Sync

LEMMA AloneStarts == Init => Alone
  <1> SUFFICES ASSUME Init
               PROVE  Alone
    OBVIOUS
  <1>1. Canonical(tree)
    BY OutlineAssumption DEF Init
  <1>2. Right
    BY <1>1 DEF Init, Idle, Right, Canonical, Untyped
  <1> QED BY <1>2 DEF Alone, Init

(* As long as nobody else writes and no request fails, no save is refused, and *)
(* no operation but one on a block that is not stored as a paragraph or        *)
(* heading, if the user deletes no heading that is stored or about to be, nor  *)
(* makes an equation of one: the save and the toggles and moves after it       *)
(* (flush and drainStructure, autosaveController.ts) are each valid at the     *)
(* server in the order they come.                                              *)
THEOREM OutlineAloneNeverRefused == Spec => [](KeepHeadings => AloneNeverRefused)
  <1>1. ASSUME Alone
        PROVE  AloneNeverRefused
    BY <1>1 DEF Alone, Right, AloneNeverRefused, Excused
  <1>2. Init => (KeepHeadings => Alone)
    BY AloneStarts
  <1>3. /\ Sound /\ Sound' /\ Screen /\ Screen' /\ [Next]_vars
        => ((KeepHeadings => Alone) => (KeepHeadings => Alone)')
    BY AloneSteps
  <1>4. (KeepHeadings => Alone) => (KeepHeadings => AloneNeverRefused)
    BY <1>1
  <1> QED BY <1>2, <1>3, <1>4, SoundStarts, SoundSteps, ScreenStarts, ScreenSteps, PTL DEF Spec
================================================================================
