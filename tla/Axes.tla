---------------------------------- MODULE Axes ---------------------------------
(* One open editor and what it saves besides text (autosaveController.ts wired *)
(* to DayEditor.tsx).  After the text (PUT), a flush sends the types, the names *)
(* and the braces, in this order.  Types and names meet the revision gate and  *)
(* move the revision; braces do neither.  A refused type is merged and tried   *)
(* again, a refused name or brace waits for the next flush.                    *)
(* semanticLatch is not here: no save is refused at the revision it was made   *)
(* for (CurrentNeverRefused).                                                  *)
EXTENDS Facets

CONSTANTS
    Starts,         \* what the day holds when it is opened
    MaxId,          \* bound: ids minted
    MaxWord,        \* bound: words of a block that the user types into
    MaxGesture,     \* bound: what the user does
    MaxFault,       \* bound: changes of the other device and requests that fail
    MaxEvent,       \* bound: both together
    MaxRetry,       \* MAX_MERGE_RETRIES and MAX_TYPE_RETRIES
    Foreign         \* the word the other device types

(* A day as it is opened: ids are given out one after the other, a name is one  *)
(* of one typed block, a brace marks a phrase of one block, and the words are   *)
(* none of those that will be typed.                                           *)
IsBlock(b) ==
    /\ b = [text |-> b.text, type |-> b.type, names |-> b.names, braces |-> b.braces]
    /\ b.text \in Seq(Words(b.text))
    /\ \A i, j \in DOMAIN b.text : b.text[i] = b.text[j] => i = j
    /\ b.type \in Type \cup {NoType}
    /\ b.braces = [a \in DOMAIN b.braces |-> b.braces[a]]
    /\ \A a \in DOMAIN b.braces : IsPhrase(b.braces[a], b.text)

IsStart(s) ==
    /\ \E n \in 1..MaxId : DOMAIN s \cup DraftIds(s) \cup {h.handle : h \in HandlesOf(s)} = 1..n
    /\ \A u \in DOMAIN s :
            /\ IsBlock(s[u])
            /\ DOMAIN s[u].names # {} => s[u].type # NoType
            /\ Words(s[u].text) \cap 1..MaxGesture = {}
    /\ \A u, v \in DOMAIN s :
            \/ DOMAIN s[u].names \cap DOMAIN s[v].names # {}
            \/ DOMAIN s[u].braces \cap DOMAIN s[v].braces # {}
            => u = v

ASSUME AxesAssumption ==
    /\ MaxId \in Nat /\ MaxGesture \in Nat
    /\ Id = 1..MaxId
    /\ Foreign \notin 1..MaxGesture
    /\ \A s \in Starts : IsStart(s)

VARIABLES
    units, revision,    \* content_units and objects.revision
    handles,            \* handles
    targets,            \* annotation_targets: unit and span of each annotation
    annotations,        \* the annotation objects
    doc, minted,        \* the document, and how many ids were given out
    deleted,            \* the block that undo brings back
    prior, priorRev,    \* prior.current
    sentNames,          \* sentNames
    sentBraces,         \* sentAnnotations
    sync,               \* where flush is, and what it holds on to
    merges,             \* mergeRetries
    status,             \* what the indicator shows
    gestures, faults,
    retyped,            \* history: units whose type the user changed, or that were deleted
    restored            \* history: units that came back by undo

vars == <<units, revision, handles, targets, annotations, doc, minted, deleted, prior,
          priorRev, sentNames, sentBraces, sync, merges, status, gestures, faults,
          retyped, restored>>

server == <<units, revision, handles, targets, annotations>>
baseline == <<prior, priorRev>>
sent == <<sentNames, sentBraces>>
user == <<minted, gestures, retyped, restored>>

NoBody == [upserts |-> << >>, deletes |-> {}]

Idle == [pc |-> "idle", body |-> NoBody, queue |-> {}, tries |-> 0, failed |-> FALSE]

Init ==
    /\ \E s \in Starts :
        /\ doc = s
        /\ minted = Max(DOMAIN s \cup DraftIds(s) \cup {h.handle : h \in HandlesOf(s)})
    /\ units = [u \in DOMAIN doc |-> [text |-> doc[u].text, type |-> doc[u].type]]
    /\ revision = 0
    /\ handles = [h \in {x.handle : x \in HandlesOf(doc)} |->
                    LET x == CHOOSE y \in HandlesOf(doc) : y.handle = h
                    IN  [unit |-> x.unit, name |-> x.name]]
    /\ targets = [a \in DraftIds(doc) |->
                    LET d == CHOOSE x \in Drafts(doc) : x.brace = a IN <<d.unit, d.span>>]
    /\ annotations = DraftIds(doc)
    /\ deleted = << >>
    /\ prior = units
    /\ priorRev = 0
    /\ sentNames = handles
    /\ sentBraces = targets
    /\ sync = Idle
    /\ merges = 0
    /\ status = "clean"
    /\ gestures = 0
    /\ faults = 0
    /\ retyped = {}
    /\ restored = {}

--------------------------------------------------------------------------------
(* The user.                                                                   *)

Edit(new, ids, cued) ==
    /\ gestures < MaxGesture
    /\ gestures + faults < MaxEvent
    /\ sync.pc # "conflict"
    /\ minted + ids <= MaxId
    /\ doc' = new
    /\ minted' = minted + ids
    /\ gestures' = gestures + 1
    /\ retyped' = retyped \cup cued
    /\ status' = IF status = "clean" THEN "dirty" ELSE status
    /\ UNCHANGED <<server, baseline, sent, sync, merges, faults>>

Forgotten == deleted' = << >> /\ UNCHANGED restored

WithText(block, text) == [block EXCEPT !.text = text, !.braces = Marking(@, text)]

WordAfter(text, k, word) == SubSeq(text, 1, k) \o <<word>> \o SubSeq(text, k + 1, Len(text))

WithoutWord(text, k) == SubSeq(text, 1, k - 1) \o SubSeq(text, k + 1, Len(text))

(* A word typed within a braced phrase is braced, one at its edge is not.      *)
Around(block, k, word) ==
    [a \in DOMAIN block.braces |->
        IF k \in 1..(Len(block.text) - 1)
            /\ {block.text[k], block.text[k + 1]} \subseteq block.braces[a]
        THEN block.braces[a] \cup {word} ELSE block.braces[a]]

(* The words typed are all different: the number of the gesture.               *)
TypeWord ==
    \E u \in DOMAIN doc : \E k \in 0..Len(doc[u].text) :
        LET word == gestures + 1
            text == WordAfter(doc[u].text, k, word)
        IN  /\ Len(doc[u].text) < MaxWord
            /\ Edit([doc EXCEPT ![u] = [@ EXCEPT !.text = text, !.braces = Around(doc[u], k, word)]],
                    0, {})
            /\ Forgotten

EraseWord ==
    \E u \in DOMAIN doc : \E k \in DOMAIN doc[u].text :
        /\ Edit([doc EXCEPT ![u] = WithText(@, WithoutWord(@.text, k))], 0, {})
        /\ Forgotten

(* "Thm." or "Thm[name]." at the start of a block: a name replaces its names.  *)
Cue ==
    \E u \in DOMAIN doc, t \in Type :
        /\ \/ Edit([doc EXCEPT ![u].type = t], 0, {u})
           \/ Edit([doc EXCEPT ![u].type = t, ![u].names = With(NoNames, minted + 1, "cued")], 1, {u})
        /\ Forgotten

(* Backspace at the start of a typed block.                                    *)
Peel ==
    \E u \in DOMAIN doc :
        /\ doc[u].type # NoType
        /\ Edit([doc EXCEPT ![u].type = NoType, ![u].names = NoNames], 0, {u})
        /\ Forgotten

(* The name editor in the title of a typed block: an alias more, a name        *)
(* changed, a name less.                                                       *)
Name ==
    \E u \in DOMAIN doc :
        /\ doc[u].type # NoType
        /\ \/ Edit([doc EXCEPT ![u].names = With(@, minted + 1, "alias")], 1, {})
           \/ \E h \in DOMAIN doc[u].names :
                \/ doc[u].names[h] # "renamed" /\ Edit([doc EXCEPT ![u].names[h] = "renamed"], 0, {})
                \/ Edit([doc EXCEPT ![u].names = Restrict(@, DOMAIN @ \ {h})], 0, {})
        /\ Forgotten

(* A phrase is selected and braced; the same phrase is not braced twice.       *)
Brace ==
    \E u \in DOMAIN doc : \E i, j \in DOMAIN doc[u].text :
        LET words == {doc[u].text[k] : k \in i..j} IN
        /\ i <= j
        /\ \A a \in DOMAIN doc[u].braces : doc[u].braces[a] # words
        /\ Edit([doc EXCEPT ![u].braces = With(@, minted + 1, words)], 1, {})
        /\ Forgotten

RemoveBrace ==
    \E u \in DOMAIN doc : \E a \in DOMAIN doc[u].braces :
        /\ Edit([doc EXCEPT ![u].braces = Restrict(@, DOMAIN @ \ {a})], 0, {})
        /\ Forgotten

DeleteBlock ==
    \E u \in DOMAIN doc :
        /\ Edit(Restrict(doc, DOMAIN doc \ {u}), 0, {u})
        /\ deleted' = Restrict(doc, {u})
        /\ UNCHANGED restored

(* The block comes back with its unit, its names and its braces.               *)
Undo ==
    /\ deleted # << >>
    /\ Edit(Joined(doc, deleted), 0, DOMAIN deleted)
    /\ deleted' = << >>
    /\ restored' = restored \cup DOMAIN deleted

NewBlock == Edit(With(doc, minted + 1, Blank), 1, {}) /\ Forgotten

(* A copy gets ids of its own (idStamper, annoRecognize): for its unit, its    *)
(* names and its braces.                                                       *)
Reminted(ids) == [n \in ids |-> minted + 1 + Cardinality({x \in ids : x <= n})]

Copied(block) ==
    LET new == Reminted(DOMAIN block.names \cup DOMAIN block.braces) IN
    [block EXCEPT
        !.names  = [h \in {new[x] : x \in DOMAIN @} |-> @[CHOOSE x \in DOMAIN @ : new[x] = h]],
        !.braces = [a \in {new[x] : x \in DOMAIN @} |-> @[CHOOSE x \in DOMAIN @ : new[x] = a]]]

CopyBlock ==
    \E u \in DOMAIN doc :
        /\ Edit(With(doc, minted + 1, Copied(doc[u])),
                1 + Cardinality(DOMAIN doc[u].names) + Cardinality(DOMAIN doc[u].braces),
                {minted + 1})
        /\ Forgotten

Gesture ==
    \/ TypeWord \/ EraseWord \/ Cue \/ Peel \/ Name \/ Brace \/ RemoveBrace
    \/ DeleteBlock \/ Undo \/ NewBlock \/ CopyBlock

--------------------------------------------------------------------------------
(* The server.                                                                 *)
Fresh == priorRev = revision

Write(c) == units' = c /\ revision' = revision + 1

Save(body) ==
    /\ Write(Saved(units, body))
    /\ handles' = Unbound(handles, body.deletes)
    /\ targets' = Untargeted(targets, body.deletes)
    /\ UNCHANGED annotations

SetType(u, type) == Write(Retyped(units, u, type)) /\ UNCHANGED <<handles, targets, annotations>>

SetHandle(need) ==
    Write(units) /\ handles' = Named(handles, need) /\ UNCHANGED <<targets, annotations>>

Reconcile(p) ==
    /\ targets' = Retargeted(targets, p)
    /\ annotations' = (annotations \ Removed(targets, p)) \cup NewObjects(targets, p)
    /\ UNCHANGED <<units, revision, handles>>

(* The answer 200 carries the content.                                         *)
Adopt(c) == prior' = c /\ priorRev' = revision'

--------------------------------------------------------------------------------
(* The end of a flush, with the document of the next state, against the        *)
(* content `c` and what will have been sent.                                   *)

(* Mutant: only what can be sent at once counts as left.                       *)
LeftToSend(c, names, braces) ==
    ~NoDelta(Delta(doc', c)) \/ TypeNeeds(doc', c) # {}

Left(c, names, braces) ==
    \/ ~NoDelta(Delta(doc', c))
    \/ TypeIntents(doc', c) # {}
    \/ NameNeeds(doc', c, names) # {}
    \/ ~NothingPending(Pending(doc', c, braces))

(* settleAfterFlush.  A failure is shown as an error unless the browser is     *)
(* offline (isOnline).                                                         *)
Settle(c, names, braces, failed) ==
    /\ sync' = Idle
    /\ \/ failed /\ status' = "error"
       \/ status' = IF Left(c, names, braces) THEN "dirty" ELSE "clean"

ToBraces(c, names, failed) ==
    LET p == Pending(doc', c, sentBraces) IN
    IF NothingPending(p) THEN Settle(c, names, sentBraces, failed)
    ELSE sync' = [Idle EXCEPT !.pc = "braces", !.body = p, !.failed = failed] /\ UNCHANGED status

ToNames(c, failed) ==
    LET needs == NameNeeds(doc', c, sentNames) IN
    IF needs = {} THEN ToBraces(c, sentNames, failed)
    ELSE sync' = [Idle EXCEPT !.pc = "name", !.queue = needs, !.failed = failed] /\ UNCHANGED status

(* An attempt of drainTypes: what to send is worked out once.                  *)
ToTypes(c, tries) ==
    LET needs == TypeNeeds(doc', c) IN
    IF needs = {} THEN ToNames(c, FALSE)
    ELSE sync' = [Idle EXCEPT !.pc = "type", !.queue = needs, !.tries = tries] /\ UNCHANGED status

(* Mutant: the type of a unit is cleared when the user's own save deletes it,  *)
(* but not when a merge does.                                                  *)
TypedAtHome(body, c) == 
    IF c = prior THEN {u \in body.deletes \cap DOMAIN c : c[u].type # NoType} ELSE {}

(* The deletes of a save that have a type, which is cleared first.             *)
Typed(body, c) == {u \in body.deletes \cap DOMAIN c : c[u].type # NoType}

(* clearTypesForDeletes, then the save: `clear` and `put` are the phases.      *)
ToSave(body, c, clear, put, tries) ==
    LET typed == Typed(body, c) IN
    sync' = [Idle EXCEPT !.pc = IF typed = {} THEN put ELSE clear,
                            !.body = body, !.queue = typed, !.tries = tries]

--------------------------------------------------------------------------------
(* flush.                                                                      *)
Saves == {"put", "mergePut", "typePut"}
Clears == {"clear", "mergeClear", "typeClear"}

After(clear) ==
    CASE clear = "clear" -> "put" [] clear = "mergeClear" -> "mergePut" [] OTHER -> "typePut"

(* Nothing to send but, perhaps, a name.                                       *)
FlushNothing ==
    /\ sync.pc = "idle"
    /\ NoDelta(Delta(doc, prior))
    /\ TypeNeeds(doc, prior) = {}
    /\ NothingPending(Pending(doc, prior, sentBraces))
    /\ status' = IF TypeIntents(doc, prior) = {} THEN "clean" ELSE "dirty"
    /\ UNCHANGED <<server, doc, deleted, user, baseline, sent, sync, merges, faults>>

FlushSave ==
    /\ sync.pc = "idle"
    /\ ~NoDelta(Delta(doc, prior))
    /\ ToSave(Delta(doc, prior), prior, "clear", "put", 0)
    /\ UNCHANGED <<server, doc, deleted, user, baseline, sent, merges, status, faults>>

FlushFacets ==
    /\ sync.pc = "idle"
    /\ NoDelta(Delta(doc, prior))
    /\ \/ TypeNeeds(doc, prior) # {}
       \/ ~NothingPending(Pending(doc, prior, sentBraces))
    /\ UNCHANGED <<server, doc, deleted, user, baseline, sent, merges, faults>>
    /\ ToTypes(prior, 0)

ClearAccepted ==
    /\ sync.pc \in Clears
    /\ Fresh
    /\ \E u \in sync.queue :
        /\ u \in DOMAIN units
        /\ SetType(u, NoType)
        /\ sync' = [sync EXCEPT !.queue = @ \ {u},
                                !.pc = IF sync.queue = {u} THEN After(@) ELSE @]
    /\ Adopt(units')
    /\ UNCHANGED <<doc, deleted, user, sent, merges, status, faults>>

SaveAccepted ==
    /\ sync.pc \in Saves
    /\ Fresh /\ MaySave(units, sync.body)
    /\ Save(sync.body)
    /\ Adopt(units')
    /\ merges' = IF sync.pc = "mergePut" THEN 0 ELSE merges
    /\ UNCHANGED <<doc, deleted, user, sent, faults>>
    /\ IF sync.pc # "typePut" THEN ToTypes(units', 0)
       ELSE IF sync.tries < MaxRetry THEN ToTypes(units', sync.tries + 1)
       ELSE sync' = [Idle EXCEPT !.pc = "conflict"] /\ status' = "conflict"

(* 422 comes before 409, but types are cleared one unit after the other: of    *)
(* several units the next one may be there when another is not.                *)
Invalid ==
    \/ sync.pc \in Clears /\ \E u \in sync.queue : u \notin DOMAIN units
    \/ sync.pc \in Saves /\ ~MaySave(units, sync.body)

Stale ==
    /\ ~Fresh
    /\ sync.pc \in Clears => \E u \in sync.queue : u \in DOMAIN units
    /\ sync.pc \in Saves => MaySave(units, sync.body)

Refused == Invalid \/ Stale

(* The indicator after a failure: an error, or nothing while offline.          *)
Failing == {"error", "dirty"}

SaveRefused ==
    /\ sync.pc \in {"clear", "put"}
    /\ Refused
    /\ sync' = [Idle EXCEPT !.pc = "get"]
    /\ UNCHANGED <<server, doc, deleted, user, baseline, sent, merges, status, faults>>

MergeRefused ==
    /\ sync.pc \in {"mergeClear", "mergePut"}
    /\ \/ /\ Invalid
          /\ sync' = Idle /\ status' \in Failing
          /\ UNCHANGED merges
       \/ /\ Stale
          /\ IF merges >= MaxRetry
             THEN /\ sync' = [Idle EXCEPT !.pc = "conflict"] /\ status' = "conflict"
                  /\ UNCHANGED merges
             ELSE /\ sync' = [Idle EXCEPT !.pc = "get"] /\ merges' = merges + 1
                  /\ UNCHANGED status
    /\ UNCHANGED <<server, doc, deleted, user, baseline, sent, faults>>

(* drainTypes gives up for this time: the names and braces are still sent.     *)
Deferred == ToNames(prior', TRUE)

RetryRefused ==
    /\ sync.pc \in {"typeClear", "typePut"}
    /\ Refused
    /\ UNCHANGED <<server, doc, deleted, user, baseline, sent, merges, faults>>
    /\ Deferred

(* Mutant: only the types of stored units are laid over the merge.             *)
MergeOntoScreenStored(merged) ==
    /\ doc' = Reprojected(doc, merged, TypeNeeds(doc, prior))
    /\ deleted' = << >>
    /\ prior' = units
    /\ priorRev' = revision

(* The server's content with my changes on the screen, the server's as the     *)
(* baseline; undo cannot reach behind it.                                      *)
MergeOntoScreen(merged) ==
    /\ doc' = Reprojected(doc, merged, TypeIntents(doc, prior))
    /\ deleted' = << >>
    /\ prior' = units
    /\ priorRev' = revision

(* The GET of runMerge or of drainTypes.                                       *)
Merge ==
    LET mine    == Delta(doc, prior)
        merged  == Merged(prior, units, mine)
        rebased == Rebased(merged, units)
        tries   == sync.tries
    IN
    /\ sync.pc \in {"get", "typeGet"}
    /\ revision > priorRev
    /\ UNCHANGED <<server, user, sent, faults>>
    /\ IF Clash(prior, units, mine)
       THEN /\ sync' = [Idle EXCEPT !.pc = "conflict"]
            /\ status' = "conflict"
            /\ UNCHANGED <<doc, deleted, baseline, merges>>
       ELSE /\ MergeOntoScreen(merged)
            /\ IF ~NoDelta(rebased)
               THEN /\ UNCHANGED <<status, merges>>
                    /\ IF sync.pc = "get"
                       THEN ToSave(rebased, units, "mergeClear", "mergePut", 0)
                       ELSE ToSave(rebased, units, "typeClear", "typePut", tries)
               ELSE IF sync.pc = "get" THEN merges' = 0 /\ ToTypes(units, 0)
               ELSE /\ UNCHANGED merges
                    /\ IF tries < MaxRetry THEN ToTypes(units, tries + 1)
                       ELSE sync' = [Idle EXCEPT !.pc = "conflict"] /\ status' = "conflict"

TypeAccepted ==
    /\ sync.pc = "type"
    /\ Fresh
    /\ \E need \in sync.queue :
        /\ need[1] \in DOMAIN units
        /\ SetType(need[1], need[2])
        /\ Adopt(units')
        /\ UNCHANGED <<doc, deleted, user, sent, merges, faults>>
        /\ IF sync.queue = {need} THEN ToNames(units', FALSE)
           ELSE sync' = [sync EXCEPT !.queue = @ \ {need}] /\ UNCHANGED status

TypeRefused ==
    /\ sync.pc = "type"
    /\ ~Fresh
    /\ sync' = [sync EXCEPT !.pc = "typeGet", !.queue = {}]
    /\ UNCHANGED <<server, doc, deleted, user, baseline, sent, merges, status, faults>>

NameAccepted ==
    /\ sync.pc = "name"
    /\ Fresh
    /\ \E need \in sync.queue :
        /\ need.unit \in DOMAIN units
        /\ SetHandle(need)
        /\ Adopt(units')
        /\ sentNames' =
            IF need.name = "" THEN Restrict(sentNames, DOMAIN sentNames \ {need.handle})
            ELSE [h \in DOMAIN sentNames \cup {need.handle} |->
                    IF h = need.handle THEN [unit |-> need.unit, name |-> need.name]
                    ELSE sentNames[h]]
        /\ UNCHANGED <<doc, deleted, user, sentBraces, merges, faults>>
        /\ IF sync.queue = {need} THEN ToBraces(units', sentNames', sync.failed)
           ELSE sync' = [sync EXCEPT !.queue = @ \ {need}] /\ UNCHANGED status

NameRefused ==
    /\ sync.pc = "name"
    /\ ~Fresh
    /\ UNCHANGED <<server, doc, deleted, user, baseline, sent, merges, faults>>
    /\ ToBraces(prior, sentNames, TRUE)

BracesAccepted ==
    /\ sync.pc = "braces"
    /\ MayReconcile(units, targets, annotations, sync.body)
    /\ Reconcile(sync.body)
    /\ sentBraces' = Retargeted(Restrict(sentBraces, DOMAIN sentBraces \ sync.body.deletes),
                                [sync.body EXCEPT !.deletes = {}])
    /\ UNCHANGED <<doc, deleted, user, baseline, sentNames, merges, faults>>
    /\ Settle(prior, sentNames, sentBraces', sync.failed)

(* A unit is not there, or an annotation exists without a target.              *)
BracesRefused ==
    /\ sync.pc = "braces"
    /\ ~MayReconcile(units, targets, annotations, sync.body)
    /\ UNCHANGED <<server, doc, deleted, user, baseline, sent, merges, faults>>
    /\ Settle(prior, sentNames, sentBraces, sync.failed)

--------------------------------------------------------------------------------
(* The network fails a request, carried out or not; then as after an error     *)
(* that is not a refusal.                                                      *)
CarriedOut ==
    CASE sync.pc \in Clears ->
            Fresh /\ \E u \in sync.queue : u \in DOMAIN units /\ SetType(u, NoType)
      [] sync.pc \in Saves -> Fresh /\ MaySave(units, sync.body) /\ Save(sync.body)
      [] sync.pc = "type" ->
            Fresh /\ \E n \in sync.queue : n[1] \in DOMAIN units /\ SetType(n[1], n[2])
      [] sync.pc = "name" ->
            Fresh /\ \E n \in sync.queue : n.unit \in DOMAIN units /\ SetHandle(n)
      [] sync.pc = "braces" ->
            MayReconcile(units, targets, annotations, sync.body) /\ Reconcile(sync.body)
      [] OTHER -> UNCHANGED server

Fail ==
    /\ sync.pc \notin {"idle", "conflict"}
    /\ faults < MaxFault
    /\ gestures + faults < MaxEvent
    /\ faults' = faults + 1
    /\ CarriedOut \/ UNCHANGED server
    /\ UNCHANGED <<doc, deleted, user, baseline, sent, merges>>
    /\ CASE sync.pc \in {"clear", "put", "get", "mergeClear", "mergePut"} ->
                sync' = Idle /\ status' \in Failing
         [] sync.pc \in {"type", "typeGet", "typeClear", "typePut"} -> Deferred
         [] sync.pc = "name" -> ToBraces(prior, sentNames, TRUE)
         [] OTHER -> Settle(prior, sentNames, sentBraces, sync.failed)

(* Another device, while a request of this one is under way.                   *)
OtherDevice ==
    /\ sync.pc \notin {"idle", "conflict"}
    /\ faults < MaxFault
    /\ gestures + faults < MaxEvent
    /\ faults' = faults + 1
    /\ revision' = revision + 1
    /\ \E u \in DOMAIN units :
        \/ \E t \in Type \cup {NoType} :
            t # units[u].type /\ units' = Retyped(units, u, t) /\ UNCHANGED <<handles, targets>>
        \/ /\ Foreign \notin Words(units[u].text)
           /\ units' = [units EXCEPT ![u].text = <<Foreign>> \o @]
           /\ UNCHANGED <<handles, targets>>
        \/ /\ units[u].type = NoType
           /\ units' = Restrict(units, DOMAIN units \ {u})
           /\ handles' = Unbound(handles, {u})
           /\ targets' = Untargeted(targets, {u})
    /\ UNCHANGED <<annotations, doc, deleted, user, baseline, sent, sync, merges, status>>

Sync ==
    \/ FlushNothing \/ FlushSave \/ FlushFacets \/ ClearAccepted \/ SaveAccepted
    \/ SaveRefused \/ MergeRefused \/ RetryRefused \/ Merge \/ TypeAccepted \/ TypeRefused
    \/ NameAccepted \/ NameRefused \/ BracesAccepted \/ BracesRefused

Next == Gesture \/ Sync \/ Fail \/ OtherDevice

Spec == Init /\ [][Next]_vars

--------------------------------------------------------------------------------
(* PROPERTIES                                                                  *)

(* When the indicator says that everything is saved, opening the day again     *)
(* shows the text and types that are on the screen, as far as nobody else has  *)
(* changed them; and, if no request was lost, the braces of the blocks that    *)
(* undo has not brought back.                                                  *)
CleanIsStored ==
    sync.pc = "idle" /\ status = "clean" =>
        /\ DOMAIN prior \subseteq DOMAIN doc
        /\ \A u \in DOMAIN doc :
            IF u \in DOMAIN prior
            THEN [text |-> doc[u].text, type |-> doc[u].type] = prior[u]
            ELSE doc[u].text = << >> /\ doc[u].type = NoType
        /\ faults = 0 =>
            /\ \A d \in Drafts(doc) :
                d.unit \notin restored =>
                    d.brace \in DOMAIN targets /\ targets[d.brace] = <<d.unit, d.span>>
            /\ DOMAIN targets \subseteq DraftIds(doc)

(* A request made at the revision the server has is not refused: types are     *)
(* cleared before every save that deletes units with one, also if the user or  *)
(* the other device is quicker (autosaveController.ts:176-180, "a typed-delete *)
(* NEVER 422s on any path").                                                   *)
CurrentNeverRefused ==
    Fresh =>
        /\ sync.pc \in Saves => MaySave(units, sync.body)
        /\ sync.pc \in Clears => sync.queue \subseteq DOMAIN units
        /\ sync.pc = "type" => \A n \in sync.queue : n[1] \in DOMAIN units
        /\ sync.pc = "name" => \A n \in sync.queue : n.unit \in DOMAIN units

(* The editor gives a stored unit another type only if the user did: "a        *)
(* concurrent FOREIGN retype carried in merged content is preserved, NOT       *)
(* clobbered" (projection.ts:896).                                             *)
OnlyMyTypes ==
    [][faults' = faults =>
        \A u \in DOMAIN units \cap DOMAIN units' :
            units'[u].type # units[u].type => u \in retyped]_vars

BaseText(u) == IF u \in DOMAIN prior THEN prior[u].text ELSE << >>

BaseType(u) == IF u \in DOMAIN prior THEN prior[u].type ELSE NoType

(* A merge keeps the names of a block, the type the user chose for it, stored  *)
(* or new (autosaveController.ts:494-498), and its braces on their words where *)
(* it keeps the text.  The blocks it takes off the screen are not on the server*)
(* and have no text of the user's: those another device has deleted, and new   *)
(* ones that are still empty.  These go with the type and names the user gave  *)
(* them, which is not what 494-498 says.                                       *)
MergeKeepsFacets ==
    [][gestures' = gestures =>
        \A u \in DOMAIN doc :
            IF u \in DOMAIN doc'
            THEN /\ doc'[u].names = doc[u].names
                 /\ doc[u].type # BaseType(u) => doc'[u].type = doc[u].type
                 /\ doc'[u].text = doc[u].text => doc'[u].braces = doc[u].braces
            ELSE u \notin DOMAIN units /\ doc[u].text = BaseText(u)]_vars

(* When a flush ends with everything saved, every name of a stored unit is a   *)
(* handle of it, if no request was lost and undo has not brought the unit back.*)
NamesReachServer ==
    [][sync.pc # "idle" /\ sync'.pc = "idle" /\ status' = "clean" /\ faults' = 0 =>
        \A n \in HandlesOf(doc') :
            n.unit \in restored' \/
                (n.handle \in DOMAIN handles' /\ handles'[n.handle] = [unit |-> n.unit, name |-> n.name])]_vars
================================================================================
