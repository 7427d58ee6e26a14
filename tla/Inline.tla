--------------------------------- MODULE Inline --------------------------------
(* Mathematics and formatting as text the user edits.  The delimiters stay in  *)
(* the document; after every change two recognizers mark what the text means:  *)
(* mathRecognize gives each `$...$` an expression with an id of its own,       *)
(* markRecognize gives the inside of `*...*` and `**...**` a style.  The flush *)
(* turns marked text into atoms without width, the projection turns them back  *)
(* into text.  A block is a sequence of cells, one per character or reference. *)
(* The blocks are plain prose on one line; `~~`, code, backslash escapes, line *)
(* breaks, sections and braces are not here, nor is the parser's verdict.      *)
EXTENDS Integers, Sequences, FiniteSets, SequencesExt, FiniteSetsExt

CONSTANTS
    Letter,     \* what the user types: "$", "*", and what else tells texts apart
    Starts,     \* documents an editor is opened on: sequences of units
    NoMath,     \* no mathExpr mark
    MaxEdit,    \* bound: changes of the document
    MaxRange    \* bound: cells selected at once

VARIABLES
    doc,        \* the document: blocks, sequences of cells
    raw,        \* history: the document a gesture made, before the recognizers had
                \* their turn; empty when the document was only opened
    minted,     \* the expression ids given out so far are 1..minted
    edits

vars == <<doc, raw, minted, edits>>

Digit == "1"

Space == " "

Reference == "@"

Plain(ch) == [ch |-> ch, math |-> NoMath, style |-> "none"]

Shown(block) == [i \in DOMAIN block |-> block[i].ch]

IsMath(cell) == cell.math # NoMath

Slice(seq, at) == SubSeq(seq, at[1], at[2])

(* Maximal intervals of 1..n whose members are In and Joined to the one before.*)
Intervals(n, In(_), Joined(_)) ==
    LET Starting == {a \in 1..n : In(a) /\ (a = 1 \/ ~In(a - 1) \/ ~Joined(a))}
        Going(a) == {b \in a..n : \A i \in a..b : In(i) /\ (i > a => Joined(i))}
    IN  {<<a, Max(Going(a))>> : a \in Starting}

--------------------------------------------------------------------------------
(* The scanners.                                                               *)

(* findMathRegions: the nearest close wins, `$$` is left to display math.      *)
MathRegions(s) ==
    LET n == Len(s)
        Opens(i) == s[i] = "$" /\ i < n /\ s[i + 1] # Space
        Closing(i) == {j \in (i + 1)..n : s[j] = "$" /\ s[j - 1] # Space
                                           /\ (j < n => s[j + 1] # Digit)}
        from[i \in 1..(n + 1)] ==
            IF i > n THEN {}
            ELSE IF ~Opens(i) \/ Closing(i) = {} THEN from[i + 1]
            ELSE LET j == Min(Closing(i))
                 IN  (IF j > i + 1 THEN {<<i, j>>} ELSE {}) \cup from[j + 1]
    IN  from[1]

(* findMarkRegions: `**` before `*`; the insides of what is found.             *)
MarkRegions(s) ==
    LET n == Len(s)
        Is(i, d) == i + Len(d) - 1 <= n /\ \A k \in DOMAIN d : s[i + k - 1] = d[k]
        Lone(i, d) == Len(d) > 1 \/ ((i = 1 \/ s[i - 1] # "*") /\ (i = n \/ s[i + 1] # "*"))
        Opens(i, d) == Is(i, d) /\ i + Len(d) <= n /\ s[i + Len(d)] # Space /\ Lone(i, d)
        Closing(i, d) == {j \in (i + Len(d) + 1)..n :
                            Is(j, d) /\ s[j - 1] # Space /\ Lone(j, d)}
        from[i \in 1..(n + 3)] ==
            IF i > n THEN {}
            ELSE LET d == IF Opens(i, <<"*", "*">>) THEN <<"*", "*">> ELSE <<"*">>
                 IN  IF ~Opens(i, d) THEN from[i + 1]
                     ELSE IF Closing(i, d) = {} THEN from[i + Len(d)]
                     ELSE LET j == Min(Closing(i, d))
                          IN  {<<i + Len(d), j - 1, IF Len(d) = 2 THEN "strong" ELSE "em">>}
                                \cup from[j + Len(d)]
    IN  from[1]

(* wholeDisplaySource: what is between `$$` and the first `$$` that only spaces*)
(* follow; empty if there is no such text.                                     *)
DisplayInner(s) ==
    LET n == Len(s)
        Ends == {k \in 3..(n - 2) : /\ s[1] = "$" /\ s[2] = "$"
                                    /\ s[k + 1] = "$" /\ s[k + 2] = "$"
                                    /\ \A i \in (k + 3)..n : s[i] = Space}
    IN  IF Ends = {} THEN << >> ELSE SubSeq(s, 3, Min(Ends))

IsRegion(s) == MathRegions(s) = {<<1, Len(s)>>}

IsDisplay(block) == DisplayInner(Shown(block)) # << >>
                        /\ \A i \in DOMAIN block : block[i].ch # Reference

Inner(s) == SubSeq(s, 2, Len(s) - 1)

--------------------------------------------------------------------------------
(* mathRecognize.                                                              *)

(* blockMarked                                                                 *)
Marked(block) ==
    Intervals(Len(block),
        LAMBDA i : IsMath(block[i]),
        LAMBDA i : block[i].math.id = block[i - 1].math.id)

ExprAt(block, at) == block[at[1]].math

(* Mutant: the whole block is read again, over the expressions it has.         *)
KeptSpansOfRescan(block) ==
    LET lines == Intervals(Len(block), LAMBDA i : block[i].ch # Reference, LAMBDA i : TRUE)
        found == UNION {{<<l[1] + r[1] - 1, l[1] + r[2] - 1>> :
                            r \in MathRegions(Slice(Shown(block), l))} : l \in lines}
    IN  {at \in Marked(block) : at \in found \/ ExprAt(block, at).cited}

(* reconcileBlock, 1: an expression keeps its text while it reads as one       *)
(* region, and for ever when it is cited.                                      *)
KeptSpans(block) ==
    {at \in Marked(block) :
        IsRegion(Slice(Shown(block), at)) \/ ExprAt(block, at).cited}

(* reconcileBlock, 2: new regions are looked for between what is kept.         *)
NewSpans(block, kept) ==
    LET Free(i) == block[i].ch # Reference /\ \A at \in kept : i \notin at[1]..at[2]
    IN  UNION {{<<gap[1] + r[1] - 1, gap[1] + r[2] - 1>> :
                        r \in MathRegions(Slice(Shown(block), gap))} :
                    gap \in Intervals(Len(block), Free, LAMBDA i : TRUE)}

Unmarked(block) == [i \in DOMAIN block |-> [block[i] EXCEPT !.math = NoMath]]

Fresh(id, surface, display) ==
    [id |-> id, surface |-> surface, cited |-> FALSE, display |-> display]

Placed(expr, display) == [expr EXCEPT !.display = display]

FirstOf(spans) == CHOOSE m \in spans : \A o \in spans : m[1] <= o[1]

(* The expression of a text that now reads as mathematics, `own` being the one *)
(* it had before, if any.                                                      *)
ExprFor(own, reuse, intact, inner, id, display) ==
    IF ~reuse THEN Fresh(id, inner, display)
    ELSE IF intact /\ (own.cited \/ own.surface = inner) THEN Placed(own, display)
    ELSE Fresh(own.id, inner, display)

(* The cells of a text become those of an expression.                          *)
Given(st, block, cells, expr) ==
    [seen |-> st.seen \cup {expr.id},
     minted |-> Max({st.minted, expr.id}),
     block |-> [i \in DOMAIN block |->
                    IF i \in cells THEN [block[i] EXCEPT !.math = expr] ELSE st.block[i]]]

(* reconcileBlock, 3: left to right, the first with an id keeps it, a new      *)
(* region takes over the id of a text it overlaps.  st is [seen, minted, block]*)
Claimed(st, block, at, isKept, priors) ==
    LET own == ExprAt(block, FirstOf(priors))
        reuse == priors # {} /\ own.id \notin st.seen
    IN  Given(st, block, at[1]..at[2],
              ExprFor(own, reuse, isKept, Inner(Slice(Shown(block), at)), st.minted + 1, FALSE))

ReconciledAround(st, block, kept) ==
    FoldLeft(LAMBDA acc, at :
                Claimed(acc, block, at, at \in kept,
                        IF at \in kept THEN {at}
                        ELSE {m \in Marked(block) : m[1] <= at[2] /\ at[1] <= m[2]}),
             [st EXCEPT !.block = Unmarked(block)],
             SetToSortSeq(kept \cup NewSpans(block, kept), LAMBDA a, b : a[1] < b[1]))

Reconciled(st, block) == ReconciledAround(st, block, KeptSpans(block))

(* Mutant: a displayed equation never takes over the id its text has.          *)
DisplayedAnew(st, block) ==
    Given(st, block, DOMAIN block, Fresh(st.minted + 1, DisplayInner(Shown(block)), TRUE))

(* displaySpan                                                                 *)
Displayed(st, block) ==
    LET own == ExprAt(block, FirstOf(Marked(block)))
        reuse == Marked(block) # {} /\ own.id \notin st.seen
    IN  Given(st, block, DOMAIN block,
              ExprFor(own, reuse, TRUE, DisplayInner(Shown(block)), st.minted + 1, TRUE))

Recognize(st, block) ==
    IF IsDisplay(block) THEN Displayed(st, block) ELSE Reconciled(st, block)

(* Mutant: every block starts with no ids taken.                               *)
MathPassPerBlock(d, m) ==
    LET Add(acc, r) == [seen |-> {}, minted |-> r.minted, doc |-> Append(acc.doc, r.block)]
    IN  FoldLeft(LAMBDA acc, block :
                    Add(acc, Recognize([seen |-> {}, minted |-> acc.minted, block |-> block], block)),
                 [seen |-> {}, minted |-> m, doc |-> << >>], d)

(* appendTransaction of mathRecognize: one set of ids for the whole document.  *)
MathPass(d, m) ==
    LET Add(acc, r) == [seen |-> r.seen, minted |-> r.minted, doc |-> Append(acc.doc, r.block)]
    IN  FoldLeft(LAMBDA acc, block :
                    Add(acc, Recognize([seen |-> acc.seen, minted |-> acc.minted, block |-> block], block)),
                 [seen |-> {}, minted |-> m, doc |-> << >>], d)

--------------------------------------------------------------------------------
(* markRecognize: mathematics wins.                                            *)

(* plainRuns                                                                   *)
PlainRuns(block) ==
    Intervals(Len(block),
        LAMBDA i : ~IsMath(block[i]) /\ block[i].ch # Reference,
        LAMBDA i : TRUE)

(* desiredSpans                                                                *)
Styled(block) ==
    LET regions == UNION {{<<run[1] + r[1] - 1, run[1] + r[2] - 1, r[3]>> :
                                r \in MarkRegions(Slice(Shown(block), run))} :
                            run \in PlainRuns(block)}
        Over(i) == {r \in regions : i \in r[1]..r[2]}
    IN  [i \in DOMAIN block |->
            [block[i] EXCEPT !.style =
                IF Over(i) = {} THEN "none" ELSE (CHOOSE r \in Over(i) : TRUE)[3]]]

(* The plugins run until none has anything to add: after at most three rounds. *)
StyledAll(st) == [doc |-> [b \in DOMAIN st.doc |-> Styled(st.doc[b])], minted |-> st.minted]

Round(st) == StyledAll(MathPass(st.doc, st.minted))

Recognized(d, m) ==
    FoldLeft(LAMBDA st, n : Round(st), [doc |-> d, minted |-> m], <<1, 2, 3>>)

--------------------------------------------------------------------------------
(* The flush and the projection of one block.                                  *)

(* Mutant: only the leading `$` is stripped.                                   *)
SurfaceWithClose(s) == IF Len(s) > 0 /\ s[1] = "$" THEN Tail(s) ELSE s

(* blockToProse: strip the one leading and the one trailing `$`.               *)
Surface(s) ==
    LET t == IF Len(s) > 0 /\ s[1] = "$" THEN Tail(s) ELSE s
    IN  IF Len(t) > 0 /\ Last(t) = "$" THEN Front(t) ELSE t

IsPureDisplay(block) ==
    block # << >> /\ \A i \in DOMAIN block : IsMath(block[i]) /\ block[i].math.display

Stored(expr, surface) ==
    [id |-> expr.id, cited |-> expr.cited,
     surface |-> IF expr.cited THEN expr.surface ELSE surface]

Offset(block, i) == Cardinality({k \in 1..(i - 1) : ~IsMath(block[k]) /\ block[k].ch # Reference})

(* The text nodes of mathematics: one mark and one style each.                 *)
MathNodes(block) ==
    Intervals(Len(block),
        LAMBDA i : IsMath(block[i]),
        LAMBDA i : block[i].math = block[i - 1].math /\ block[i].style = block[i - 1].style)

(* canonicalInline: by place, mathematics before references.                   *)
Atoms(block) ==
    LET maths == {[at |-> Offset(block, n[1]), rank |-> 1, pos |-> n[1],
                   expr |-> Stored(ExprAt(block, n), Surface(Slice(Shown(block), n)))] :
                        n \in MathNodes(block)}
        refs == {[at |-> Offset(block, i), rank |-> 2, pos |-> i, expr |-> NoMath] :
                    i \in {k \in DOMAIN block : block[k].ch = Reference}}
        Before(a, b) == \/ a.at < b.at
                        \/ a.at = b.at /\ a.rank < b.rank
                        \/ a.at = b.at /\ a.rank = b.rank /\ a.pos < b.pos
        sorted == SetToSortSeq(maths \cup refs, Before)
    IN  [k \in DOMAIN sorted |-> [at |-> sorted[k].at, expr |-> sorted[k].expr]]

Flushed(block) ==
    IF IsPureDisplay(block)
    THEN [kind |-> "math", expr |-> Stored(block[1].math, DisplayInner(Shown(block)))]
    ELSE LET plain == SelectSeq(block, LAMBDA c : ~IsMath(c) /\ c.ch # Reference)
             spans == Intervals(Len(plain),
                        LAMBDA i : plain[i].style # "none",
                        LAMBDA i : plain[i].style = plain[i - 1].style)
         IN  [kind |-> "prose", text |-> Shown(plain), atoms |-> Atoms(block),
              marks |-> {<<s[1] - 1, s[2], plain[s[1]].style>> : s \in spans}]

Spelled(expr, delim, display) ==
    LET s == delim \o expr.surface \o delim
        mark == [id |-> expr.id, surface |-> expr.surface, cited |-> expr.cited,
                 display |-> display]
    IN  [i \in DOMAIN s |-> [ch |-> s[i], math |-> mark, style |-> "none"]]

(* inlineToNodes: the atoms of a place, then the character that follows.       *)
Projected(unit) ==
    IF unit.kind = "math" THEN Spelled(unit.expr, <<"$", "$">>, TRUE)
    ELSE LET Atom(a) == IF a.expr = NoMath THEN <<Plain(Reference)>>
                                           ELSE Spelled(a.expr, <<"$">>, FALSE)
             Here(p) == SelectSeq(unit.atoms, LAMBDA a : a.at = p)
             style(p) == {m \in unit.marks : m[1] <= p /\ p < m[2]}
             Char(p) == IF p = Len(unit.text) THEN << >>
                        ELSE <<[Plain(unit.text[p + 1]) EXCEPT !.style =
                                IF style(p) = {} THEN "none" ELSE (CHOOSE m \in style(p) : TRUE)[3]]>>
             At(p) == FlattenSeq([k \in DOMAIN Here(p) |-> Atom(Here(p)[k])]) \o Char(p)
         IN  FlattenSeq([k \in 1..(Len(unit.text) + 1) |-> At(k - 1)])

FlushedDoc(d) == [b \in DOMAIN d |-> Flushed(d[b])]

ProjectedDoc(units) == [b \in DOMAIN units |-> Projected(units[b])]

--------------------------------------------------------------------------------
(* What the user does.  Each gesture makes a document without recognition.     *)

Selections(d) ==
    UNION {{<<b, i, j>> : i \in 1..Len(d[b]), j \in 1..Len(d[b])} : b \in DOMAIN d}

Selected(d) == {s \in Selections(d) : s[2] <= s[3] /\ s[3] - s[2] < MaxRange}

Carets(d) == UNION {{<<b, k>> : k \in 0..Len(d[b])} : b \in DOMAIN d}

(* ResolvedPos.marks of ProseMirror: the marks before the caret (after it, at  *)
(* the start); mathExpr is not inclusive and stays only inside its text.       *)
Inherited(block, k) ==
    LET main == IF k > 0 THEN block[k] ELSE block[1]
        other == IF k > 0 /\ k < Len(block) THEN block[k + 1].math ELSE NoMath
    IN  IF block = << >> \/ main.ch = Reference THEN Plain(Space)
        ELSE [main EXCEPT !.math = IF main.math = other THEN other ELSE NoMath]

Inserted(block, k, cells) == SubSeq(block, 1, k) \o cells \o SubSeq(block, k + 1, Len(block))

Removed(block, i, j) == SubSeq(block, 1, i - 1) \o SubSeq(block, j + 1, Len(block))

Typed(block, k, ch) == Inserted(block, k, <<[Inherited(block, k) EXCEPT !.ch = ch]>>)

Becoming(d, settled) ==
    /\ edits < MaxEdit
    /\ edits' = edits + 1
    /\ raw' = d
    /\ doc' = settled.doc
    /\ minted' = settled.minted

Settling(d) == Becoming(d, Recognized(d, minted))

Type ==
    \E c \in Carets(doc), ch \in Letter :
        Settling([doc EXCEPT ![c[1]] = Typed(doc[c[1]], c[2], ch)])

(* A selection is deleted; one character next to mathematics: mathKeys.        *)
Erase ==
    \E s \in Selected(doc) :
        Settling([doc EXCEPT ![s[1]] = Removed(doc[s[1]], s[2], s[3])])

(* The citation picker puts a reference at the caret.                          *)
Cite ==
    \E c \in Carets(doc) :
        Settling([doc EXCEPT ![c[1]] = Inserted(doc[c[1]], c[2], <<Plain(Reference)>>)])

(* A selection with mathematics is dragged to another place.  Its marks go with*)
(* it; when it is a copy, so does the id of an expression.  The clipboard loses*)
(* marks (the schema parses none) and makes text, which Type does by hand.     *)
Drag ==
    \E s \in Selected(doc), c \in Carets(doc), copy \in BOOLEAN :
        LET cells == SubSeq(doc[s[1]], s[2], s[3])
            without == Removed(doc[s[1]], s[2], s[3])
            k == IF c[1] # s[1] \/ c[2] < s[2] THEN c[2] ELSE c[2] - Len(cells)
        IN  /\ c[1] = s[1] => c[2] \notin (s[2] - 1)..s[3]
            /\ \E x \in DOMAIN cells : IsMath(cells[x])
            /\ ~IsDisplay(cells)
            /\ Settling(
                IF copy
                THEN [doc EXCEPT ![c[1]] = Inserted(@, c[2], cells)]
                ELSE LET moved == [doc EXCEPT ![s[1]] = without]
                     IN  [moved EXCEPT ![c[1]] = Inserted(@, k, cells)])

(* toggleDelimiter around a selection: wrap, or unwrap what is wrapped.        *)
Toggled(block, i, j, delim) ==
    LET n == Len(delim)
        wrapped == /\ i > n /\ j + n <= Len(block)
                   /\ SubSeq(Shown(block), i - n, i - 1) = delim
                   /\ SubSeq(Shown(block), j + 1, j + n) = delim
        In(b, k) == Inserted(b, k, [x \in 1..n |-> [Inherited(b, k) EXCEPT !.ch = delim[x]]])
    IN  IF wrapped THEN Removed(Removed(block, j + 1, j + n), i - n, i - 1)
        ELSE In(In(block, j), i - 1)

CrossesMathOrAtom(block, i, j) ==
    \E k \in i..j : IsMath(block[k]) \/ block[k].ch = Reference

(* Mod-i, Mod-b, and `$` over a selection of plain text.                       *)
Wrap ==
    \E s \in Selected(doc), delim \in {<<"*">>, <<"*", "*">>, <<"$">>} :
        /\ ~CrossesMathOrAtom(doc[s[1]], s[2], s[3])
        /\ Settling([doc EXCEPT ![s[1]] = Toggled(doc[s[1]], s[2], s[3], delim)])

(* wrapSelectionAsMath over an equation that fills its line: display it.       *)
Upgrade ==
    \E b \in DOMAIN doc :
        /\ Marked(doc[b]) = {<<1, Len(doc[b])>>}
        /\ ~doc[b][1].math.display
        /\ Settling([doc EXCEPT ![b] = Typed(Typed(@, Len(@), "$"), 0, "$")])

(* The document is opened again: no recognizer runs before the next change.    *)
Reopen ==
    /\ doc' = ProjectedDoc(FlushedDoc(doc))
    /\ raw' = << >>
    /\ UNCHANGED <<minted, edits>>

Init ==
    /\ doc \in {ProjectedDoc(units) : units \in Starts}
    /\ raw = << >>
    /\ minted = 1
    /\ edits = 0

Next == Type \/ Erase \/ Cite \/ Drag \/ Wrap \/ Upgrade \/ Reopen

Spec == Init /\ [][Next]_vars

--------------------------------------------------------------------------------
(* The recognizers come to rest: after a change nothing is left for them.      *)
Settled ==
    LET now == [doc |-> doc, minted |-> minted]
    IN  raw # << >> => Round(now) = now

(* A cited expression shows what is stored for it: its text is not torn.       *)
ShownAsStored ==
    \A b \in DOMAIN doc : \A at \in Marked(doc[b]) :
        LET e == ExprAt(doc[b], at)
        IN  e.cited /\ ~e.display =>
                Slice(Shown(doc[b]), at) = <<"$">> \o e.surface \o <<"$">>

(* What was flushed, opened and flushed again is the same.  After a change that*)
(* left no cited equation torn, the recognizers have nothing to add to what was*)
(* opened either ("loading the server projection produces no spurious edit"):  *)
(* an untouched document sends nothing.                                        *)
NoPhantomDelta ==
    LET opened == ProjectedDoc(FlushedDoc(doc))
        now == [doc |-> opened, minted |-> minted]
    IN  /\ FlushedDoc(opened) = FlushedDoc(doc)
        /\ raw # << >> /\ ShownAsStored => Round(now) = now

(* The expressions a flush sends all have different ids, whatever was copied or*)
(* torn apart: the server refuses content in which two have the same one.      *)
OneAtomEach ==
    LET units == FlushedDoc(doc)
        In(b) == IF units[b].kind = "math" THEN {<<b, 0, units[b].expr.id>>}
                 ELSE {<<b, k, units[b].atoms[k].expr.id>> :
                        k \in {x \in DOMAIN units[b].atoms : units[b].atoms[x].expr # NoMath}}
        all == UNION {In(b) : b \in DOMAIN units}
    IN  \A x, y \in all : x[3] = y[3] => x = y

(* The text a gesture leaves of an expression keeps its id if it still is an   *)
(* equation, and for ever if it is cited, whatever now stands next to it.  Only*)
(* the first with an id has it, and a block that becomes one displayed equation*)
(* has one expression.                                                         *)
EquationsKept ==
    \A b \in DOMAIN raw : ~IsDisplay(raw[b]) =>
        \A at \in Marked(raw[b]) :
            LET e == ExprAt(raw[b], at)
                equation == e.cited \/ IsRegion(Slice(Shown(raw[b]), at))
                first == \A o \in DOMAIN raw : \A m \in Marked(raw[o]) :
                            ExprAt(raw[o], m).id = e.id =>
                                o > b \/ (o = b /\ m[1] >= at[1])
            IN  equation /\ first =>
                    \A i \in at[1]..at[2] :
                        /\ IsMath(doc[b][i])
                        /\ doc[b][i].math.id = e.id
                        /\ e.cited => doc[b][i].math = Placed(e, FALSE)

================================================================================
