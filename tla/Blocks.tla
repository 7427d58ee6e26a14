--------------------------------- MODULE Blocks --------------------------------
(* The editor's flat document of blocks over the tree of units (projection.ts, *)
(* headingRecognize.ts, headingResection.ts, merge.ts): how a content is shown,*)
(* how the `#`s of the headings decide the sections, and what the editor sends *)
(* to bring the server to what is on the screen.  A block's text is its lines; *)
(* the `#`s of a heading are counted apart.  A block that is just the line     *)
(* Display is an equation ($$..$$ on one line); systems of equations, types,   *)
(* names and annotations are not here.                                         *)
EXTENDS TreeOps, SequencesExt

CONSTANTS
    NoUnit,     \* unitId = null
    Display     \* the line $$..$$

LineText == [id |-> NoUnit, parent |-> Top, heading |-> FALSE, hashes |-> 0,
             config |-> FALSE, text |-> << >>]

IsDisplay(b) == ~b.config /\ ~b.heading /\ b.hashes = 0 /\ b.text = <<Display>>

BlocksOf(doc) == ToSet(doc)

Ids(doc) == {b.id : b \in BlocksOf(doc)}

(* How many blocks of `doc` before its i-th satisfy P(_).                      *)
Earlier(doc, i, P(_)) == Cardinality({j \in 1..(i - 1) : P(j)})

--------------------------------------------------------------------------------
(* The sequence as a tuple, which TLC evaluates once.                          *)
Tuple(s) == << >> \o s

(* The members of S in the order that `rank` numbers them in, from 0.          *)
Ranked(S, rank) ==
    Tuple([n \in 1..Cardinality(S) |-> CHOOSE x \in S : rank[x] = n - 1])

Ascending(S) == Ranked(S, [i \in S |-> Cardinality({j \in S : j < i})])

--------------------------------------------------------------------------------
(* projectToDoc: the walk from the top through the headings, in pre-order.     *)
Headings(c) == {u \in DOMAIN c : c[u].kind = "heading"}

(* The headings above u: what the sets have in common that hold the parent of  *)
(* u and of each of their members, where it is a heading.                      *)
Above(c, u) ==
    LET headings == Headings(c) IN
    {h \in headings :
        \A S \in SUBSET headings :
            (\A v \in S \cup {u} : c[v].parent \in headings => c[v].parent \in S) => h \in S}

Lineage(c, u) == Above(c, u) \cup {u}

(* The units the walk comes to.                                                *)
Reached(c) == {u \in DOMAIN c : \E v \in Lineage(c, u) : c[v].parent = Top}

Precedes(c, u, v) ==
    \/ u \in Above(c, v)
    \/ \E a \in Lineage(c, u), b \in Lineage(c, v) :
            c[a].parent = c[b].parent /\ c[a].pos < c[b].pos

Walk(c) ==
    LET reached == Reached(c)
    IN  Ranked(reached, [u \in reached |-> Cardinality({v \in reached : Precedes(c, v, u)})])

(* A heading has as many `#`s as it is deep.                                   *)
Shown(c, u) ==
    [id |-> u, parent |-> c[u].parent, heading |-> c[u].kind = "heading",
     hashes |-> IF c[u].kind = "heading" THEN 1 + Cardinality(Above(c, u)) ELSE 0,
     config |-> c[u].kind = "config", text |-> c[u].text]

(* A line to type on follows a last equation or notation home.                 *)
ProjectToDoc(c) ==
    LET order  == Walk(c)
        blocks == Tuple([n \in DOMAIN order |-> Shown(c, order[n])])
    IN  IF blocks = << >> \/ IsDisplay(Last(blocks)) \/ Last(blocks).config
        THEN Append(blocks, LineText)
        ELSE blocks

--------------------------------------------------------------------------------
(* The plugins that run after every change of the document, in their order.    *)

(* A block without an id, or with one that an earlier block has.               *)
NeedsId(doc, i) ==
    doc[i].id = NoUnit \/ \E j \in 1..(i - 1) : doc[j].id = doc[i].id

Unstamped(doc) == Cardinality({i \in DOMAIN doc : NeedsId(doc, i)})

(* idStamper; `minted` ids have been given out so far.                         *)
Stamped(doc, minted) ==
    [i \in DOMAIN doc |->
        IF NeedsId(doc, i)
        THEN [doc[i] EXCEPT !.id = minted + 1 + Earlier(doc, i, LAMBDA j : NeedsId(doc, j))]
        ELSE doc[i]]

(* headingRecognize                                                            *)
Recognized(doc) ==
    [i \in DOMAIN doc |->
        IF doc[i].config THEN doc[i]
        ELSE [doc[i] EXCEPT
                !.heading = doc[i].hashes > 0 /\ (@ \/ Len(doc[i].text) <= 1)]]

(* The headings before the i-th block whose sections are still open there.     *)
OpenAt(doc, i) ==
    {j \in 1..(i - 1) :
        /\ doc[j].heading
        /\ doc[i].heading => doc[j].hashes < doc[i].hashes
        /\ \A k \in (j + 1)..(i - 1) :
            /\ ~(doc[k].config /\ doc[k].parent = Top)
            /\ doc[k].heading => doc[j].hashes < doc[k].hashes}

(* headingResection                                                            *)
Resectioned(doc) ==
    [i \in DOMAIN doc |->
        IF doc[i].config THEN doc[i]
        ELSE [doc[i] EXCEPT
                !.parent = IF OpenAt(doc, i) = {} THEN Top
                           ELSE doc[Max(OpenAt(doc, i))].id]]

Settled(doc, minted) ==
    LET stamped    == Tuple(Stamped(Tuple(doc), minted))
        recognized == Tuple(Recognized(stamped))
    IN  Tuple(Resectioned(recognized))

--------------------------------------------------------------------------------
(* flushToContent: the units to write and the units to delete.                 *)

KindIn(c, u) == IF u \in DOMAIN c THEN c[u].kind ELSE "none"

(* The kind a block is sent as: a heading stays what the server says it is.    *)
SentKind(b, c) ==
    CASE b.config -> "config"
      [] IsDisplay(b) -> "math"
      [] ~b.config /\ b.text = << >> ->
            IF KindIn(c, b.id) \in {"prose", "heading"} THEN KindIn(c, b.id) ELSE "none"
      [] OTHER -> IF KindIn(c, b.id) = "heading" THEN "heading" ELSE "prose"

(* An edit of the block's own unit; else a new unit is made.                   *)
IsEdit(b, c) == SentKind(b, c) # "none" /\ SentKind(b, c) = KindIn(c, b.id)

(* Mutant: a new paragraph is sent under a heading the server does not have.   *)
FamilyAsShown(b, c) ==
    IF IsEdit(b, c) THEN c[b.id].parent ELSE IF b.config THEN Top ELSE b.parent

(* The parent a unit is written with: its own, or a heading the server knows.  *)
Family(b, c) ==
    IF IsEdit(b, c) THEN c[b.id].parent
    ELSE IF ~b.config /\ KindIn(c, b.parent) = "heading" THEN b.parent
    ELSE Top

(* A block whose unit was of another kind: a new id, and the unit is deleted.  *)
IsFlip(b, c) == SentKind(b, c) # "none" /\ ~IsEdit(b, c) /\ b.id \in DOMAIN c

Slot(doc, c, i) ==
    Earlier(doc, i, LAMBDA j :
        SentKind(doc[j], c) # "none" /\ Family(doc[j], c) = Family(doc[i], c))

FlushedAs(doc, c, i) ==
    IF IsEdit(doc[i], c)
    THEN [c[doc[i].id] EXCEPT !.pos = Slot(doc, c, i), !.text = doc[i].text]
    ELSE [parent |-> Family(doc[i], c), pos |-> Slot(doc, c, i),
          kind |-> SentKind(doc[i], c), type |-> NoType, text |-> doc[i].text]

FlushToContent(doc, c, minted) ==
    LET sent    == {i \in DOMAIN doc : SentKind(doc[i], c) # "none"}
        changed == {i \in sent :
                        ~IsEdit(doc[i], c) \/ FlushedAs(doc, c, i) # c[doc[i].id]}
        id(i)   == IF IsFlip(doc[i], c)
                   THEN minted + 1 + Earlier(doc, i, LAMBDA j : IsFlip(doc[j], c))
                   ELSE doc[i].id
        rows    == {<<id(i), FlushedAs(doc, c, i)>> : i \in changed}
    IN  [upserts |-> [u \in {row[1] : row \in rows} |->
                        (CHOOSE row \in rows : row[1] = u)[2]],
         deletes |-> {u \in DOMAIN c :
                        /\ c[u].kind # "heading"
                        /\ \A i \in sent : doc[i].id # u \/ IsFlip(doc[i], c)}]

Flips(doc, c) == Cardinality({i \in DOMAIN doc : IsFlip(doc[i], c)})

NoDelta(d) == DOMAIN d.upserts = {} /\ d.deletes = {}

--------------------------------------------------------------------------------
(* structuralNeeds: the operations to send, toggles first.                     *)
Toggle(u) == [op |-> "toggle", unit |-> u, parent |-> Top, at |-> 0]

Move(u, p, n) == [op |-> "reparent", unit |-> u, parent |-> p, at |-> n]

StructuralNeeds(doc, c) ==
    LET known   == {i \in DOMAIN doc : ~doc[i].config /\ doc[i].id \in DOMAIN c}
        toggles == Ascending({i \in known :
                                doc[i].heading # (c[doc[i].id].kind = "heading")})
        moves   == Ascending({i \in known : doc[i].parent # c[doc[i].id].parent})
        slot(i) == Earlier(doc, i, LAMBDA j : doc[j].parent = doc[i].parent)
    IN  [n \in DOMAIN toggles |-> Toggle(doc[toggles[n]].id)]
            \o [n \in DOMAIN moves |->
                    Move(doc[moves[n]].id, doc[moves[n]].parent, slot(moves[n]))]

(* structuralIntents: the blocks whose section or heading-ness is not what     *)
(* `base` has, except empty ones it does not know.                             *)
StructuralIntents(doc, base) ==
    {b \in BlocksOf(doc) :
        /\ ~b.config
        /\ b.id # NoUnit
        /\ IF b.id \in DOMAIN base
           THEN b.heading # (base[b.id].kind = "heading") \/ b.parent # base[b.id].parent
           ELSE (b.text # << >> \/ b.hashes > 0) /\ (b.heading \/ b.parent # Top)}

(* reproject: `c` on the screen, with the gestures `keep` laid over it, and    *)
(* then the plugins.                                                           *)
Overlaid(doc, keep) ==
    [i \in DOMAIN doc |->
        IF \E b \in keep : b.id = doc[i].id /\ ~doc[i].config
        THEN LET b == CHOOSE b \in keep : b.id = doc[i].id
             IN  [doc[i] EXCEPT !.heading = b.heading, !.parent = b.parent]
        ELSE doc[i]]

--------------------------------------------------------------------------------
(* planMerge: what the server did to the units of `base`, and my delta `mine`. *)
ChangedOn(base, server) ==
    {u \in DOMAIN base \cap DOMAIN server :
        \/ base[u].pos # server[u].pos
        \/ base[u].kind # server[u].kind
        \/ base[u].text # server[u].text}

MyEdited(base, mine) == DOMAIN mine.upserts \cap DOMAIN base

(* Mutant: a unit I deleted and the server changed is deleted.                 *)
ClashIgnoringDeletes(base, server, mine) ==
    \/ (DOMAIN mine.upserts \ DOMAIN base) \cap DOMAIN server # {}
    \/ MyEdited(base, mine) \cap ChangedOn(base, server) # {}
    \/ MyEdited(base, mine) \ DOMAIN server # {}

Clash(base, server, mine) ==
    \/ (DOMAIN mine.upserts \ DOMAIN base) \cap DOMAIN server # {}
    \/ MyEdited(base, mine) \cap ChangedOn(base, server) # {}
    \/ MyEdited(base, mine) \ DOMAIN server # {}
    \/ mine.deletes \cap ChangedOn(base, server) # {}

(* The server's units in its order with my edits and without my deletes, then  *)
(* my new ones, numbered per parent.                                           *)
Merged(base, server, mine) ==
    LET kept  == DOMAIN server \ mine.deletes
        added == DOMAIN mine.upserts \ DOMAIN base
        unit(u) ==
            IF u \in added THEN mine.upserts[u]
            ELSE IF u \in DOMAIN mine.upserts
            THEN [server[u] EXCEPT !.text = mine.upserts[u].text]
            ELSE server[u]
        before(u) ==
            {v \in kept \cup added :
                /\ unit(v).parent = unit(u).parent
                /\ \/ v \in kept /\ u \in added
                   \/ /\ (v \in added) = (u \in added)
                      /\ unit(v).pos < unit(u).pos}
    IN  [u \in kept \cup added |-> [unit(u) EXCEPT !.pos = Cardinality(before(u))]]

(* diffUnits                                                                   *)
RebasedDelta(merged, server) ==
    [upserts |->
        Restrict(merged, {u \in DOMAIN merged :
            \/ u \notin DOMAIN server
            \/ merged[u].pos # server[u].pos
            \/ merged[u].text # server[u].text}),
     deletes |-> DOMAIN server \ DOMAIN merged]
================================================================================
