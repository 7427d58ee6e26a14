--------------------------------- MODULE Facets --------------------------------
(* What the editor shows besides text: the type of a unit, its names and the   *)
(* braces over its words.  Each goes to the server on a way of its own         *)
(* (set_unit_type, set_handle, reconcile_annotations), worked out as the       *)
(* difference between the document and what was sent last (projection.ts).     *)
(* Units are all on one level and their order does not matter: sections and    *)
(* the order of blocks are in Blocks.  A text is a sequence of words; the      *)
(* words of one block are different.  A brace binds a phrase (prose_span); one *)
(* over mathematics is bound by the id of the expression and is not here.      *)
EXTENDS Integers, Sequences, FiniteSets, Functions, FiniteSetsExt

CONSTANTS
    Id,         \* ids of units, handles and annotations, all minted by the editor
    Type,       \* unit types
    NoType      \* type = None

ASSUME FacetsAssumption == NoType \notin Type

Words(text) == {text[i] : i \in DOMAIN text}

(* What a brace marks: consecutive words.                                      *)
IsPhrase(words, text) ==
    \E i, j \in DOMAIN text : i <= j /\ words = {text[k] : k \in i..j}

(* The function f with v for x, and f with what g has besides.                 *)
With(f, x, v) == [y \in DOMAIN f \cup {x} |-> IF y = x THEN v ELSE f[y]]

Joined(f, g) == [y \in DOMAIN f \cup DOMAIN g |-> IF y \in DOMAIN f THEN f[y] ELSE g[y]]

IsSent(u, c, text) == u \in DOMAIN c \/ text # << >>

--------------------------------------------------------------------------------
(* The document: blocks by the id of their unit.  A brace marks words.         *)

NoNames == [h \in {} |-> ""]

NoBraces == [a \in {} |-> {}]

Blank == [text |-> << >>, type |-> NoType, names |-> NoNames, braces |-> NoBraces]

(* annoSpansInBlock: from before the first marked word to after the last.      *)
Span(text, words) ==
    LET at == {i \in DOMAIN text : text[i] \in words}
    IN  <<Min(at) - 1, Max(at)>>

(* docPosForCpOffsetInBlock: a phrase that ends behind the text is nowhere.    *)
Covered(text, span) ==
    IF span[2] <= Len(text) THEN {text[i] : i \in (span[1] + 1)..span[2]} ELSE {}

(* A mark lives on the words it marks and goes with the last of them.          *)
Marking(braces, text) ==
    [a \in {x \in DOMAIN braces : braces[x] \cap Words(text) # {}} |->
        braces[a] \cap Words(text)]

(* docAnnotationDrafts                                                         *)
Drafts(doc) ==
    UNION {{[brace |-> a, unit |-> u, span |-> Span(doc[u].text, doc[u].braces[a])] :
                a \in DOMAIN doc[u].braces} : u \in DOMAIN doc}

DraftIds(doc) == {d.brace : d \in Drafts(doc)}

(* docProjectedHandles                                                         *)
HandlesOf(doc) ==
    UNION {{[handle |-> h, unit |-> u, name |-> doc[u].names[h]] :
                h \in DOMAIN doc[u].names} : u \in DOMAIN doc}

--------------------------------------------------------------------------------
(* What has to be sent.  `c` is a content: units to their text and type.       *)

(* flushToContent: an empty block the server does not know is not sent.        *)
Delta(doc, c) ==
    [upserts |->
        [u \in {v \in DOMAIN doc : IsSent(v, c, doc[v].text)
                    /\ (v \in DOMAIN c => doc[v].text # c[v].text)} |->
            [text |-> doc[u].text, type |-> IF u \in DOMAIN c THEN c[u].type ELSE NoType]],
     deletes |-> DOMAIN c \ DOMAIN doc]

NoDelta(d) == DOMAIN d.upserts = {} /\ d.deletes = {}

(* typeNeeds                                                                   *)
TypeNeeds(doc, c) ==
    {<<u, doc[u].type>> : u \in {v \in DOMAIN doc \cap DOMAIN c : doc[v].type # c[v].type}}

(* Mutant: every type on the screen is taken for the user's own.               *)
TypesOnScreen(doc, c) == {<<u, doc[u].type>> : u \in DOMAIN doc}

(* typeIntents: also those of blocks the server does not know yet.             *)
TypeIntents(doc, c) ==
    TypeNeeds(doc, c) \cup
        {<<u, doc[u].type>> : u \in {v \in DOMAIN doc \ DOMAIN c : doc[v].type # NoType}}

(* Mutant: a name that was sent once is not sent again.                        *)
NamesNotSent(doc, c, sent) ==
    {h \in HandlesOf(doc) : h.unit \in DOMAIN c /\ h.handle \notin DOMAIN sent}

(* nameNeeds, against the handles sent: an upsert, or "" for a name that went. *)
NameNeeds(doc, c, sent) ==
    LET live == HandlesOf(doc) IN
    {h \in live :
        /\ h.unit \in DOMAIN c
        /\ h.handle \in DOMAIN sent => sent[h.handle].name # h.name}
    \cup
    {[handle |-> h, unit |-> sent[h].unit, name |-> ""] :
        h \in {x \in DOMAIN sent :
                sent[x].unit \in DOMAIN c /\ \A l \in live : l.handle # x}}

(* pendingAnnotations, against the drafts sent.                                *)
Pending(doc, c, sent) ==
    [upserts |-> {d \in Drafts(doc) :
                    /\ d.unit \in DOMAIN c
                    /\ d.brace \in DOMAIN sent => sent[d.brace] # <<d.unit, d.span>>},
     deletes |-> DOMAIN sent \ DraftIds(doc)]

NothingPending(p) == p.upserts = {} /\ p.deletes = {}

--------------------------------------------------------------------------------
(* planMerge of `mine`, a delta on `base`, with what the server has now.       *)
Changed(base, c) == {u \in DOMAIN base \cap DOMAIN c : base[u].text # c[u].text}

Clash(base, c, mine) ==
    LET edited == DOMAIN mine.upserts \cap DOMAIN base
        new    == DOMAIN mine.upserts \ DOMAIN base
    IN  \/ new \cap DOMAIN c # {}
        \/ edited \cap Changed(base, c) # {}
        \/ edited \ DOMAIN c # {}
        \/ mine.deletes \cap Changed(base, c) # {}

Merged(base, c, mine) ==
    [u \in (DOMAIN c \ mine.deletes) \cup (DOMAIN mine.upserts \ DOMAIN base) |->
        IF u \notin DOMAIN mine.upserts THEN c[u]
        ELSE IF u \in DOMAIN base THEN [c[u] EXCEPT !.text = mine.upserts[u].text]
        ELSE mine.upserts[u]]

(* diffUnits                                                                   *)
Rebased(merged, c) ==
    [upserts |-> Restrict(merged, {u \in DOMAIN merged :
                    u \in DOMAIN c => merged[u].text # c[u].text}),
     deletes |-> DOMAIN c \ DOMAIN merged]

(* projectAnnotationsOntoDoc: the drafts of the document over other texts.     *)
Braced(drafts, u, text) ==
    LET here == {d \in drafts : d.unit = u /\ Covered(text, d.span) # {}}
    IN  [a \in {d.brace : d \in here} |->
            Covered(text, (CHOOSE d \in here : d.brace = a).span)]

(* reproject: a content on the screen, over it the types `keep`, and the names *)
(* and braces the document has.                                                *)
Reprojected(doc, c, keep) ==
    [u \in DOMAIN c |->
        [text   |-> c[u].text,
         type   |-> IF \E k \in keep : k[1] = u
                    THEN (CHOOSE k \in keep : k[1] = u)[2] ELSE c[u].type,
         names  |-> IF u \in DOMAIN doc THEN doc[u].names ELSE NoNames,
         braces |-> Braced(Drafts(doc), u, c[u].text)]]

--------------------------------------------------------------------------------
(* The operations of the server.                                               *)

(* save_content: all but the text is frozen, new units have no type, and one   *)
(* with a type is not deleted.                                                 *)
MaySave(c, d) ==
    /\ \A u \in DOMAIN d.upserts :
            d.upserts[u].type = IF u \in DOMAIN c THEN c[u].type ELSE NoType
    /\ \A u \in d.deletes : u \in DOMAIN c /\ c[u].type = NoType

Saved(c, d) ==
    [u \in (DOMAIN c \ d.deletes) \cup DOMAIN d.upserts |->
        IF u \in DOMAIN d.upserts THEN d.upserts[u] ELSE c[u]]

(* set_unit_type                                                               *)
Retyped(c, u, type) == [c EXCEPT ![u].type = type]

(* set_handle; upsertHandle leaves the unit of a stored handle as it is.       *)
Named(handles, need) ==
    IF need.name = "" THEN Restrict(handles, DOMAIN handles \ {need.handle})
    ELSE [h \in DOMAIN handles \cup {need.handle} |->
            IF h # need.handle THEN handles[h]
            ELSE [unit |-> IF h \in DOMAIN handles THEN handles[h].unit ELSE need.unit,
                  name |-> need.name]]

(* persistContentDelta: what is bound to a deleted unit goes with it, the      *)
(* annotation objects excepted.                                                *)
Unbound(handles, units) ==
    Restrict(handles, {h \in DOMAIN handles : handles[h].unit \notin units})

Untargeted(targets, units) ==
    Restrict(targets, {a \in DOMAIN targets : targets[a][1] \notin units})

(* reconcile_annotations: an annotation without a target here is a new one,    *)
(* and only those with a target here are deleted.                              *)
NewObjects(targets, p) == {d.brace : d \in p.upserts} \ DOMAIN targets

MayReconcile(c, targets, annotations, p) ==
    /\ \A d \in p.upserts : d.unit \in DOMAIN c
    /\ NewObjects(targets, p) \cap annotations = {}

Removed(targets, p) == p.deletes \cap DOMAIN targets

(* persistAnnotationDelta                                                      *)
Retargeted(targets, p) ==
    LET put == {d.brace : d \in p.upserts} IN
    [a \in (DOMAIN targets \ Removed(targets, p)) \cup put |->
        IF a \notin put THEN targets[a]
        ELSE LET d == CHOOSE x \in p.upserts : x.brace = a IN <<d.unit, d.span>>]
================================================================================
