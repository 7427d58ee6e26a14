--------------------------------- MODULE Outline -------------------------------
(* One open editor on a day or note with sections (autosaveController.ts wired *)
(* to DayEditor.tsx), the server's tree, and another device that changes it.   *)
(* A flush first saves the text (PUT), then sends what changed in the outline, *)
(* one operation at a time, each against the revision the last one answered;   *)
(* whatever is refused is merged with what the server has now.                 *)
EXTENDS Gestures

CONSTANTS
    Starts,         \* contents a day can be opened with
    MaxUnit,        \* bound: ids given out
    MaxGesture,     \* bound: what the user does
    MaxFault,       \* bound: changes of the other device and requests that fail
    MaxRetry,       \* MAX_MERGE_RETRIES and MAX_STRUCT_RETRIES
    Foreign,        \* lines the other device types
    KeepHeadings,   \* the user never deletes the block of a stored heading
    NoDoc

(* A notation home is in no section; the core numbers siblings from 0.  The    *)
(* types of units are in Axes, so that none has one here.                      *)
Canonical(c) ==
    \A u \in DOMAIN c :
        /\ c[u].type = NoType
        /\ c[u].kind = "config" => c[u].parent = Top
        /\ c[u].pos = Cardinality({v \in Kids(c, c[u].parent) : c[v].pos < c[u].pos})

ASSUME OutlineAssumption ==
    /\ MaxUnit \in Nat /\ MaxGesture \in Nat /\ MaxFault \in Nat /\ MaxRetry \in Nat
    /\ Unit = 1..MaxUnit
    /\ NoUnit \notin Unit
    /\ 0..MaxUnit \subseteq Place
    /\ {Display} \cup Foreign \cup 1..MaxGesture \subseteq Line
    /\ \A c \in Starts : IsContent(c) /\ WellFormed(c) /\ Acyclic(c) /\ Canonical(c)

VARIABLES
    tree, revision,     \* content_units and objects.revision
    doc, minted,        \* the document, and how many ids were given out
    prior, priorRev,    \* prior.current
    latch,              \* semanticLatch: the document whose save was refused
    sync,               \* where flush is, and what it holds on to
    merges,             \* mergeRetries
    status,             \* what the indicator shows
    gestures, changes, lost

vars == <<tree, revision, doc, minted, prior, priorRev, latch, sync, merges, status,
          gestures, changes, lost>>

server == <<tree, revision, changes>>
editor == <<doc, minted, gestures, latch>>

NoRequest == [upserts |-> << >>, deletes |-> {}]

Idle == [pc |-> "idle", body |-> NoRequest, queue |-> << >>, base |-> << >>,
         tries |-> 0, rejected |-> FALSE]

Init ==
    /\ tree \in Starts
    /\ revision = 0
    /\ doc = ProjectToDoc(tree)
    /\ minted = Max(DOMAIN tree \cup {0})
    /\ prior = tree
    /\ priorRev = 0
    /\ latch = NoDoc
    /\ sync = Idle
    /\ merges = 0
    /\ status = "clean"
    /\ gestures = 0
    /\ changes = 0
    /\ lost = 0

--------------------------------------------------------------------------------
(* Under KeepHeadings the block of a heading, on the screen, stored or about   *)
(* to be, is neither deleted nor turned into an equation.                      *)
Kept(new) ==
    \A b \in BlocksOf(doc) :
        \/ b.heading
        \/ KindIn(prior, b.id) = "heading"
        \/ \E need \in ToSet(sync.queue) : need.unit = b.id
        =>
            /\ b.id \in Ids(new)
            /\ \A n \in BlocksOf(new) : n.id = b.id /\ n.text = <<Display>> => n.hashes > 0

(* The user.  noteEdit: every change of the document lifts the latch.          *)
MayEdit == gestures < MaxGesture /\ sync.pc # "conflict"

Edit(new) ==
    /\ KeepHeadings => Kept(new)
    /\ minted + Unstamped(new) <= MaxUnit
    /\ doc' = Settled(new, minted)
    /\ minted' = minted + Unstamped(new)
    /\ gestures' = gestures + 1
    /\ latch' = NoDoc
    /\ status' = IF status = "clean" THEN "dirty" ELSE status
    /\ UNCHANGED <<server, prior, priorRev, sync, lost, merges>>

(* The lines typed are all different: the number of the gesture.               *)
NewLine == gestures + 1

TypeText ==
    /\ MayEdit
    /\ \E i \in DOMAIN doc : \E k \in LinesOf(doc[i]) : Edit(Typed(doc, i, k, NewLine))

BreakLine ==
    /\ MayEdit
    /\ \E i \in DOMAIN doc : doc[i].text # << >> /\ Edit(SoftLine(doc, i, NewLine))

CueHeading ==
    /\ MayEdit
    /\ \E i \in DOMAIN doc, n \in 1..2 : \E k \in LinesOf(doc[i]) :
           MayCueHeading(doc[i], k) /\ Edit(HeadingCue(doc, i, k, n))

CueDisplay ==
    /\ MayEdit
    /\ \E i \in DOMAIN doc : \E k \in LinesOf(doc[i]) :
           MayCueDisplay(doc[i]) /\ Edit(DisplayCue(doc, i, k))

EditHashes ==
    /\ MayEdit
    /\ \E i \in DOMAIN doc, n \in 0..3 :
           doc[i].hashes \notin {0, n} /\ Edit(Rehashed(doc, i, n))

Enter ==
    /\ MayEdit
    /\ \E i \in DOMAIN doc : ~doc[i].config /\
           \/ \E k \in 0..Len(doc[i].text) : Edit(SplitAfter(doc, i, k))
           \/ doc[i].hashes > 0 /\ Edit(SplitBeforeHashes(doc, i))

Paste ==
    /\ MayEdit
    /\ \E i \in DOMAIN doc, at \in {1, Len(doc) + 1} : Edit(Pasted(doc, i, at))

Tab ==
    /\ MayEdit
    /\ \E i \in DOMAIN doc :
           \/ MayIndent(doc, i) /\ Edit(Shifted(doc, i, 1))
           \/ MayOutdent(doc, i) /\ Edit(Shifted(doc, i, -1))

Backspace ==
    /\ MayEdit
    /\ \E i \in DOMAIN doc : MayMergeBack(doc, i) /\ Edit(MergedBack(doc, i))

Delete ==
    /\ MayEdit
    /\ \E i \in DOMAIN doc : MayMergeForward(doc, i) /\ Edit(MergedForward(doc, i))

(* A selection is deleted: a block, or all its text, with or without its `#`s. *)
DeleteSelection ==
    /\ MayEdit
    /\ \E i \in DOMAIN doc :
           \/ /\ i > 1 /\ ~doc[i].config /\ ~doc[i - 1].config
              /\ Edit(RemoveAt(doc, i))
           \/ \E n \in {0, doc[i].hashes} : Edit([doc EXCEPT ![i].text = << >>, ![i].hashes = n])

MoveBlock ==
    /\ MayEdit
    /\ \E i \in DOMAIN doc, folded \in {{}, {b.id : b \in {h \in BlocksOf(doc) : h.heading}}} :
           /\ \E item \in Items(doc, i, folded) : item[1] = i
           /\ \/ ItemsBelow(doc, i, folded) # {} /\ Edit(MovedDown(doc, i, folded))
              \/ ItemsAbove(doc, i, folded) # {} /\ Edit(MovedUp(doc, i, folded))

--------------------------------------------------------------------------------
(* The server: an operation is done if it is allowed and meets the revision it *)
(* was made for.                                                               *)

Fresh == priorRev = revision

Allowed(need) ==
    IF need.op = "toggle" THEN MayToggle(tree, need.unit)
    ELSE MayReparent(tree, need.unit, need.parent)

Done(need) ==
    IF need.op = "toggle" THEN Toggled(tree, need.unit)
    ELSE Reparented(tree, need.unit, need.parent, need.at)

(* Mutant: the server does not look at what it is sent.                        *)
SaveUnchecked(d) == DOMAIN d.upserts \cap d.deletes = {}

SaveAllowed(d) == MaySave(tree, d.upserts, d.deletes)

SaveDone(d) == Saved(tree, d.upserts, d.deletes)

Write(c) ==
    /\ tree' = c
    /\ revision' = revision + 1
    /\ UNCHANGED changes

(* The answer 200 carries the whole content.                                   *)
Adopt(c) == prior' = c /\ priorRev' = revision'

--------------------------------------------------------------------------------
(* flush.                                                                      *)

(* Mutant: only the text counts as unsaved.                                    *)
LeftInText(d, c) == ~NoDelta(FlushToContent(d, c, minted))

(* What settleAfterFlush finds still to be saved.                              *)
Left(d, c) ==
    \/ ~NoDelta(FlushToContent(d, c, minted))
    \/ StructuralIntents(d, c) # {}

(* settleAfterFlush, with the document and the content of the next state.  A   *)
(* failure is shown as an error unless the browser is offline (isOnline).      *)
Settle(failed) ==
    /\ sync' = Idle
    /\ \/ failed /\ status' = "error"
       \/ status' = IF Left(doc', prior') THEN "dirty" ELSE "clean"
    /\ latch' = IF NoDelta(FlushToContent(doc', prior', minted)) THEN NoDoc ELSE latch

(* The indicator after a failure: an error, or nothing while offline.          *)
Failing == {"error", "dirty"}

(* drainStructure begins (an attempt of it): the operations are worked out     *)
(* once.                                                                       *)
Drain(base, tries, rejected) ==
    LET needs == StructuralNeeds(doc', prior') IN
    IF needs = << >> THEN Settle(rejected)
    ELSE /\ sync' = [Idle EXCEPT !.pc = "op", !.queue = needs, !.base = base,
                                    !.tries = tries, !.rejected = rejected]
         /\ UNCHANGED <<status, latch>>

FlushNothing ==
    /\ sync.pc = "idle"
    /\ NoDelta(FlushToContent(doc, prior, minted))
    /\ StructuralNeeds(doc, prior) = << >>
    /\ latch' = NoDoc
    /\ status' = IF StructuralIntents(doc, prior) = {} THEN "clean" ELSE "dirty"
    /\ UNCHANGED <<server, doc, minted, gestures, prior, priorRev, sync, lost, merges>>

FlushSave ==
    LET delta == FlushToContent(doc, prior, minted) IN
    /\ sync.pc = "idle"
    /\ ~NoDelta(delta)
    /\ latch # doc
    /\ minted + Flips(doc, prior) <= MaxUnit
    /\ minted' = minted + Flips(doc, prior)
    /\ latch' = NoDoc
    /\ sync' = [Idle EXCEPT !.pc = "put", !.body = delta]
    /\ UNCHANGED <<server, doc, gestures, prior, priorRev, status, lost, merges>>

(* Only the outline changed, or the text is known to be refused.               *)
FlushStructure ==
    /\ sync.pc = "idle"
    /\ StructuralNeeds(doc, prior) # << >>
    /\ NoDelta(FlushToContent(doc, prior, minted)) \/ latch = doc
    /\ UNCHANGED <<server, doc, minted, gestures, prior, priorRev, lost, merges>>
    /\ Drain(prior, 0, ~NoDelta(FlushToContent(doc, prior, minted)))

SaveAccepted ==
    /\ sync.pc \in {"put", "merge put"}
    /\ Fresh /\ SaveAllowed(sync.body)
    /\ Write(SaveDone(sync.body))
    /\ Adopt(tree')
    /\ merges' = IF sync.pc = "merge put" THEN 0 ELSE merges
    /\ UNCHANGED <<doc, minted, gestures, lost>>
    /\ Drain(tree', 0, FALSE)

(* 409 or 422: what the server has now is fetched.                             *)
SaveRefused ==
    /\ sync.pc = "put"
    /\ ~(Fresh /\ SaveAllowed(sync.body))
    /\ sync' = [sync EXCEPT !.pc = "get"]
    /\ UNCHANGED <<server, editor, prior, priorRev, status, lost, merges>>

Conflict ==
    /\ sync' = [Idle EXCEPT !.pc = "conflict"]
    /\ status' = "conflict"
    /\ UNCHANGED <<doc, minted, latch, prior, priorRev>>

(* What both merges do: the server's content with my delta and my gestures on  *)
(* the screen, the server's as the baseline.                                   *)
MergeOntoScreen(merged) ==
    LET keep == StructuralIntents(doc, prior)
        free == minted + Flips(doc, prior)
        new  == Overlaid(ProjectToDoc(merged), keep)
    IN  /\ free <= MaxUnit /\ free + Unstamped(new) <= MaxUnit
        /\ doc' = Settled(new, free)
        /\ minted' = free + Unstamped(new)
        /\ prior' = tree
        /\ priorRev' = revision

(* runMerge, with the fresh content at hand.                                   *)
Merge ==
    LET mine    == FlushToContent(doc, prior, minted)
        merged  == Merged(prior, tree, mine)
        rebased == RebasedDelta(merged, tree)
    IN
    /\ sync.pc = "get"
    /\ UNCHANGED <<server, gestures, lost>>
    /\ IF revision <= priorRev
       THEN /\ latch' = doc
            /\ status' = "error"
            /\ sync' = Idle
            /\ merges' = 0
            /\ UNCHANGED <<doc, minted, prior, priorRev>>
       ELSE IF Clash(prior, tree, mine) THEN Conflict /\ UNCHANGED merges
       ELSE /\ MergeOntoScreen(merged)
            /\ IF NoDelta(rebased) THEN merges' = 0 /\ Drain(tree, 0, FALSE)
               ELSE /\ sync' = [sync EXCEPT !.pc = "merge put", !.body = rebased]
                    /\ UNCHANGED <<merges, status, latch>>

MergeRefused ==
    /\ sync.pc = "merge put"
    /\ ~(Fresh /\ SaveAllowed(sync.body))
    /\ UNCHANGED <<server, doc, minted, gestures, prior, priorRev, lost>>
    /\ IF ~SaveAllowed(sync.body)
       THEN sync' = Idle /\ status' \in Failing /\ UNCHANGED <<latch, merges>>
       ELSE IF merges >= MaxRetry THEN Conflict /\ UNCHANGED merges
       ELSE /\ sync' = [sync EXCEPT !.pc = "get"]
            /\ merges' = merges + 1
            /\ UNCHANGED <<status, latch>>

--------------------------------------------------------------------------------
(* drainStructure.                                                             *)

OpAccepted ==
    LET need == Head(sync.queue)
        done == Done(need)
        keep == StructuralIntents(doc, sync.base)
        new  == Overlaid(ProjectToDoc(done), keep)
    IN
    /\ sync.pc = "op"
    /\ Fresh /\ Allowed(need)
    /\ Write(done)
    /\ Adopt(done)
    /\ UNCHANGED <<gestures, lost, merges>>
    /\ IF Len(sync.queue) > 1
       THEN /\ sync' = [sync EXCEPT !.queue = Tail(@)]
            /\ UNCHANGED <<doc, minted, latch, status>>
       ELSE \* finishWithSecondaryOps: what they did besides is taken from the server
            /\ IF StructuralNeeds(doc, done) = << >>
               THEN UNCHANGED <<doc, minted>>
               ELSE /\ minted + Unstamped(new) <= MaxUnit
                    /\ doc' = Settled(new, minted)
                    /\ minted' = minted + Unstamped(new)
            /\ Settle(sync.rejected)

OpRefused ==
    /\ sync.pc = "op"
    /\ ~(Fresh /\ Allowed(Head(sync.queue)))
    /\ sync' = [sync EXCEPT !.pc = "op get"]
    /\ UNCHANGED <<server, editor, prior, priorRev, status, lost, merges>>

(* The next attempt, or the budget is used up.                                 *)
Retry ==
    IF sync.tries >= MaxRetry
    THEN sync' = [Idle EXCEPT !.pc = "conflict"] /\ status' = "conflict" /\ UNCHANGED latch
    ELSE Drain(sync.base, sync.tries + 1, sync.rejected)

OpMerge ==
    LET mine    == FlushToContent(doc, prior, minted)
        merged  == Merged(prior, tree, mine)
        rebased == RebasedDelta(merged, tree)
    IN
    /\ sync.pc = "op get"
    /\ UNCHANGED <<server, gestures, lost, merges>>
    /\ IF revision <= priorRev
       THEN UNCHANGED <<doc, minted, prior, priorRev>> /\ Settle(TRUE)
       ELSE IF Clash(prior, tree, mine) THEN Conflict
       ELSE /\ MergeOntoScreen(merged)
            /\ IF NoDelta(rebased) THEN Retry
               ELSE /\ sync' = [sync EXCEPT !.pc = "op put", !.body = rebased]
                    /\ UNCHANGED <<status, latch>>

OpSave ==
    /\ sync.pc = "op put"
    /\ UNCHANGED <<doc, minted, gestures, lost, merges>>
    /\ IF Fresh /\ SaveAllowed(sync.body)
       THEN Write(SaveDone(sync.body)) /\ Adopt(tree') /\ Retry
       ELSE UNCHANGED <<server, prior, priorRev>> /\ Settle(TRUE)

(* The network fails a request: it may have been carried out or not.           *)
Fail ==
    /\ sync.pc \in {"put", "merge put", "op", "op put"}
    /\ lost + changes < MaxFault
    /\ lost' = lost + 1
    /\ UNCHANGED <<doc, minted, gestures, prior, priorRev, merges>>
    /\ \/ UNCHANGED server
       \/ /\ Fresh
          /\ IF sync.pc = "op"
             THEN Allowed(Head(sync.queue)) /\ Write(Done(Head(sync.queue)))
             ELSE SaveAllowed(sync.body) /\ Write(SaveDone(sync.body))
    /\ IF sync.pc \in {"op", "op put"} THEN Settle(TRUE)
       ELSE sync' = Idle /\ status' \in Failing /\ UNCHANGED latch

--------------------------------------------------------------------------------
(* The other device, one accepted request at a time.  Between two requests of  *)
(* the editor nothing looks at the server, so what it does then is taken to    *)
(* happen while the next request is under way.  Nor does it move a notation    *)
(* home: structuralNeeds sends none.                                           *)
OtherDevice ==
    /\ sync.pc \notin {"idle", "conflict"}
    /\ changes + lost < MaxFault
    /\ changes' = changes + 1
    /\ revision' = revision + 1
    /\ \/ \E u \in DOMAIN tree, x \in Foreign :
            tree[u].kind # "math" /\ tree' = [tree EXCEPT ![u].text = <<x>>]
       \/ \E u \in DOMAIN tree : MayToggle(tree, u) /\ tree' = Toggled(tree, u)
       \/ \E u \in DOMAIN tree, p \in DOMAIN tree \cup {Top} :
            /\ tree[u].kind # "config" /\ MayReparent(tree, u, p)
            /\ tree' = Reparented(tree, u, p, 0)
    /\ UNCHANGED <<editor, prior, priorRev, sync, status, lost, merges>>

Gesture ==
    \/ TypeText \/ BreakLine \/ CueHeading \/ CueDisplay \/ EditHashes \/ Enter
    \/ Paste \/ Tab \/ Backspace \/ Delete \/ DeleteSelection \/ MoveBlock

Sync ==
    \/ FlushNothing \/ FlushSave \/ FlushStructure \/ SaveAccepted \/ SaveRefused
    \/ Merge \/ MergeRefused \/ OpAccepted \/ OpRefused \/ OpMerge \/ OpSave

Next == Gesture \/ Sync \/ Fail \/ OtherDevice

Spec == Init /\ [][Next]_vars

--------------------------------------------------------------------------------
(* PROPERTIES                                                                  *)

Tree == INSTANCE UnitTree WITH tree <- tree, revision <- revision

(* What the requests of two devices do to the server, answered or not, is one  *)
(* allowed operation at a time: every write of save, merge and drainStructure  *)
(* is an operation of UnitTree at the next revision.                           *)
ImplementsUnitTree == Tree!Spec

(* With all the saves, toggles and moves of an editor interleaved with those   *)
(* of another device, the units stay a forest of sections.                     *)
Forest == Tree!Forest

(* As long as nobody else writes and no request fails, no save is refused,     *)
(* whatever the user does while requests are under way, and no operation but   *)
(* one on a block that is not stored as a paragraph or heading (a block that   *)
(* the flush did not send, or sent as an equation): what flushToContent and    *)
(* structuralNeeds work out in two passes is right at the server one by one.   *)
AloneNeverRefused ==
    changes = 0 /\ lost = 0 =>
        /\ sync.pc # "get"
        /\ sync.pc = "op get" =>
            LET need == Head(sync.queue) IN
            IF need.op = "toggle" THEN KindIn(tree, need.unit) = "math"
            ELSE KindIn(tree, need.parent) \in {"none", "math"}

Outlook(blocks) ==
    LET stored == Ascending({i \in DOMAIN blocks : blocks[i].id \in DOMAIN prior})
        facets(b) == [id |-> b.id, parent |-> b.parent, heading |-> b.heading, text |-> b.text]
    IN  [n \in DOMAIN stored |-> facets(blocks[stored[n]])]

(* When the indicator says that everything is saved, the stored blocks are on  *)
(* the screen in the stored order, sections and text, so that opening the day  *)
(* again shows the same; blocks that are not stored are empty.                 *)
ShownIsStored ==
    sync.pc = "idle" /\ status = "clean" =>
        /\ Outlook(doc) = Outlook(ProjectToDoc(prior))
        /\ \A b \in BlocksOf(doc) : b.id \notin DOMAIN prior => b.text = << >>

LinesIn(blocks) == UNION {ToSet(b.text) : b \in blocks}

LinesAt(c, units) == UNION {ToSet(c[u].text) : u \in units \cap DOMAIN c}

(* The lines of `blocks` stay on the screen, but for those the server dropped  *)
(* from their units; and what is new at the server comes on it.                *)
KeepsLines(blocks) ==
    /\ \A b \in blocks :
            ToSet(b.text) \ (LinesAt(prior, {b.id}) \ LinesAt(tree, {b.id}))
                \subseteq LinesIn(BlocksOf(doc'))
    /\ LinesAt(tree, Unit) \ LinesAt(prior, Unit) \subseteq LinesIn(BlocksOf(doc'))

Merging == sync.pc \in {"get", "op get"} /\ doc' # doc /\ gestures' = gestures

(* A merge, of a refused save or of a refused operation, keeps every line the  *)
(* user has on the screen, those typed since the request included, and brings  *)
(* every line of the other device; but for new blocks whose section the other  *)
(* device has dissolved.                                                       *)
MergeKeepsHomedWords ==
    [][Merging =>
        KeepsLines({b \in BlocksOf(doc) :
            IsEdit(b, prior) \/ Family(b, prior) = Family(b, tree)})]_vars
================================================================================
