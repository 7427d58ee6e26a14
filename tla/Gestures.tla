-------------------------------- MODULE Gestures -------------------------------
(* What the editor's keys and input rules make of the document (cues.ts,       *)
(* headingDepth.ts, moveBlock.ts), before the plugins run.  A gesture is at    *)
(* a block `i` and, where it matters, a line `k` of it; a cursor inside a line *)
(* is a cursor at one of its ends.                                             *)
EXTENDS Blocks

IsEmpty(b) == b.text = << >> /\ b.hashes = 0

(* A block split off `b`: no id yet, in the same section, no heading.          *)
Piece(b, lines) == [LineText EXCEPT !.parent = b.parent, !.text = lines]

Spliced(doc, i, pieces) ==
    SubSeq(doc, 1, i - 1) \o pieces \o SubSeq(doc, i + 1, Len(doc))

LinesBefore(b, k) == SubSeq(b.text, 1, k - 1)

LineAt(b, k) == SubSeq(b.text, k, Min({k, Len(b.text)}))

LinesAfter(b, k) == SubSeq(b.text, k + 1, Len(b.text))

(* The lines a cursor can be on; an empty block has one.                       *)
LinesOf(b) == 1..Max({1, Len(b.text)})

--------------------------------------------------------------------------------
(* Typing, and the soft line break of Shift-Enter or of Enter on a line.       *)
Typed(doc, i, k, x) ==
    [doc EXCEPT ![i].text = IF @ = << >> THEN <<x>> ELSE [@ EXCEPT ![k] = x]]

SoftLine(doc, i, x) == [doc EXCEPT ![i].text = Append(@, x)]

(* splitLineOut: the line becomes a block; it keeps the id if it was the first.*)
LineOut(b, k, line, n) ==
    LET own == IF k = 1 THEN [b EXCEPT !.text = line, !.hashes = n]
               ELSE [Piece(b, line) EXCEPT !.hashes = n]
    IN  (IF k = 1 THEN << >> ELSE <<[b EXCEPT !.text = LinesBefore(b, k)]>>)
            \o <<own>>
            \o (IF LinesAfter(b, k) = << >> THEN << >> ELSE <<Piece(b, LinesAfter(b, k))>>)

(* applyHeadingCue: `#`s and a space typed at the start of a line.             *)
MayCueHeading(b, k) == ~b.config /\ (b.hashes = 0 \/ k > 1)

HeadingCue(doc, i, k, n) ==
    Spliced(doc, i, LineOut(doc[i], k, LineAt(doc[i], k), n))

(* applyDisplayCue: the closing $$ of a line $$..$$.                           *)
MayCueDisplay(b) == ~b.config /\ ~b.heading

DisplayCue(doc, i, k) == Spliced(doc, i, LineOut(doc[i], k, <<Display>>, 0))

(* Editing the `#`s of a heading; with none left it is one no more.            *)
Rehashed(doc, i, n) == [doc EXCEPT ![i].hashes = n]

(* headingEnter, the exit of displayEnter, enterParagraph on an empty line and *)
(* exitTypedUnit: the lines after the cursor go to a new block.  At the start  *)
(* of a heading the cursor is after the `#`s, or before them.                  *)
SplitAfter(doc, i, k) ==
    Spliced(doc, i, <<[doc[i] EXCEPT !.text = SubSeq(@, 1, k)],
                      Piece(doc[i], LinesAfter(doc[i], k))>>)

SplitBeforeHashes(doc, i) ==
    Spliced(doc, i, <<[doc[i] EXCEPT !.text = << >>, !.hashes = 0],
                      [Piece(doc[i], doc[i].text) EXCEPT !.hashes = doc[i].hashes]>>)

(* A copy of a block is pasted, with its id.                                   *)
Pasted(doc, i, at) == InsertAt(doc, at, doc[i])

--------------------------------------------------------------------------------
(* Tab and Shift-Tab.                                                          *)

(* The sections of the document, as a content has them.                        *)
Outlined(doc) ==
    [u \in Ids(doc) |->
        LET b == CHOOSE b \in BlocksOf(doc) : b.id = u
        IN  [parent |-> b.parent, kind |-> IF b.heading THEN "heading" ELSE "prose"]]

(* headingDepthOf: 1 + the headings around it.                                 *)
DepthOf(doc, b) == 1 + Cardinality(Above(Outlined(doc), b.id))

(* parentForHeadingDepth: the parent a heading at the i-th place gets when it  *)
(* wants to be `depth` deep: the heading before it, or one around that.        *)
ParentForDepth(doc, i, depth) ==
    LET above == {j \in 1..(i - 1) : doc[j].heading} IN
    IF depth <= 1 \/ above = {} THEN Top
    ELSE LET last == doc[Max(above)]
             to   == Min({DepthOf(doc, last), depth - 1})
         IN  (CHOOSE h \in BlocksOf(doc) :
                h.id \in Lineage(Outlined(doc), last.id) /\ DepthOf(doc, h) = to).id

(* isDescendantOf: the ids of the blocks somewhere below the heading `id`.     *)
Below(doc, id) ==
    LET c == Outlined(doc) IN
    {u \in DOMAIN c : \E v \in Lineage(c, u) : c[v].parent = id}

(* changeHeadingDepth: Tab only where there is a heading of this depth above   *)
(* to go under, Shift-Tab only below the first level.                          *)
MayIndent(doc, i) ==
    /\ doc[i].heading
    /\ LET p == ParentForDepth(doc, i, DepthOf(doc, doc[i]) + 1) IN
        \E b \in BlocksOf(doc) : b.id = p /\ DepthOf(doc, b) = DepthOf(doc, doc[i])

MayOutdent(doc, i) == doc[i].heading /\ DepthOf(doc, doc[i]) > 1

(* subtreeHeadingPositions: the whole section is shifted.                      *)
Shifted(doc, i, delta) ==
    [j \in DOMAIN doc |->
        IF doc[j].heading /\ (j = i \/ doc[j].id \in Below(doc, doc[i].id))
        THEN [doc[j] EXCEPT !.hashes = @ + delta]
        ELSE doc[j]]

--------------------------------------------------------------------------------
(* Backspace at the start of a block, and Delete at its end.                   *)

(* guardConfigMerge, guardDisplayMerge: neither block is atomic for joins.     *)
Joinable(b) == ~b.config /\ ~IsDisplay(b)

Joined(doc, i) ==
    Spliced(RemoveAt(doc, i), i - 1,
            <<[doc[i - 1] EXCEPT !.text = @ \o doc[i].text]>>)

(* mergeIntoPrevious                                                           *)
MayMergeBack(doc, i) ==
    /\ i > 1 /\ Joinable(doc[i]) /\ Joinable(doc[i - 1])
    /\ doc[i].heading => IsEmpty(doc[i - 1])
    /\ doc[i - 1].heading => IsEmpty(doc[i])

MergedBack(doc, i) ==
    IF doc[i].heading THEN RemoveAt(doc, i - 1) ELSE Joined(doc, i)

(* The forward guards, and joinForward of ProseMirror: an empty block gives    *)
(* way to the next, else the next is joined to it.                             *)
MayMergeForward(doc, i) ==
    /\ i < Len(doc)
    /\ \A b \in {doc[i], doc[i + 1]} : Joinable(b) /\ ~b.heading

MergedForward(doc, i) ==
    IF IsEmpty(doc[i]) THEN RemoveAt(doc, i) ELSE Joined(doc, i + 1)

--------------------------------------------------------------------------------
(* Alt-Up and Alt-Down.                                                        *)

(* The last block of the run that starts at `i` and is below it.               *)
RunEnd(doc, i) ==
    LET below == Below(doc, doc[i].id) IN
    Max({j \in i..Len(doc) : \A k \in (i + 1)..j : doc[k].id \in below})

(* movableItems: a block, or a folded heading with everything below it; and    *)
(* levelSiblingItems for the notation home: its siblings with all they have.   *)
Items(doc, i, folded) ==
    IF doc[i].config
    THEN {<<j, RunEnd(doc, j)>> : j \in {k \in DOMAIN doc : doc[k].parent = doc[i].parent}}
    ELSE LET isFolded(j) == doc[j].heading /\ doc[j].id \in folded
             starts == {j \in DOMAIN doc :
                            \A k \in 1..(j - 1) : isFolded(k) => RunEnd(doc, k) < j}
         IN  {<<j, IF isFolded(j) THEN RunEnd(doc, j) ELSE j>> : j \in starts}

ItemOf(doc, i, folded) ==
    CHOOSE item \in Items(doc, i, folded) : item[1] <= i /\ i <= item[2]

ItemsBelow(doc, i, folded) ==
    {item \in Items(doc, i, folded) : item[1] > ItemOf(doc, i, folded)[2]}

ItemsAbove(doc, i, folded) ==
    {item \in Items(doc, i, folded) : item[2] < ItemOf(doc, i, folded)[1]}

(* Blocks a..b behind block c, or before it.                                   *)
MovedDown(doc, i, folded) ==
    LET item == ItemOf(doc, i, folded)
        to   == CHOOSE t \in ItemsBelow(doc, i, folded) :
                    \A s \in ItemsBelow(doc, i, folded) : t[1] <= s[1]
    IN  SubSeq(doc, 1, item[1] - 1) \o SubSeq(doc, item[2] + 1, to[2])
            \o SubSeq(doc, item[1], item[2]) \o SubSeq(doc, to[2] + 1, Len(doc))

MovedUp(doc, i, folded) ==
    LET item == ItemOf(doc, i, folded)
        to   == CHOOSE t \in ItemsAbove(doc, i, folded) :
                    \A s \in ItemsAbove(doc, i, folded) : t[1] >= s[1]
    IN  SubSeq(doc, 1, to[1] - 1) \o SubSeq(doc, item[1], item[2])
            \o SubSeq(doc, to[1], item[1] - 1) \o SubSeq(doc, item[2] + 1, Len(doc))
================================================================================
