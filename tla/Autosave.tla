--------------------------------- MODULE Autosave ------------------------------
(* The editor's autosave: mounts of DayEditor.tsx, each with the controller of  *)
(* autosaveController.ts, on devices that keep one IndexedDB draft each, over a *)
(* network that may lose a reply, against the server's content of one day.      *)
(*                                                                             *)
(* The server is what ContentStore shows it to be: a PUT is one atomic          *)
(* compare-and-write on the revision.  The prose axis is modelled: the type,    *)
(* structure, name and annotation drains of finishWithSecondaryOps find nothing *)
(* to do.                                                                       *)
EXTENDS Merge, FiniteSets

CONSTANTS
    Mount,          \* the DayEditor instances that may come to life
    Device,         \* the devices (browser profiles) they run on
    DeviceOf,       \* DeviceOf[m]: the device mount m runs on
    Happens,        \* the events of Event this instance includes
    MaxEdits,       \* bound: the user edits of all mounts together
    MaxMergeRetries,\* re-409 retries before runMerge gives up to a conflict
    None

(* loss: the client sees a request fail that the server may still serve; kill:  *)
(* the tab dies; close: pagehide; hide: visibilitychange; leave: unmount by     *)
(* navigation inside the app; return: a new mount while calls of a left one are *)
(* under way (a browser otherwise opens the day once its last tab is gone);     *)
(* insert/delete: what the user does beside editing text; keepMine, takeTheirs: *)
(* the conflict buttons; blur, online: the DOM events.                          *)
Event == {"loss", "kill", "close", "hide", "leave", "return",
          "insert", "delete",
          "keepMine", "takeTheirs", "blur", "online"}

ASSUME AutosaveAssumption ==
    /\ DeviceOf \in [Mount -> Device]
    /\ Happens \subseteq Event
    /\ MaxEdits \in Nat
    /\ MaxMergeRetries \in Nat

VARIABLES
    server,     \* the day's revision and units, as stored
    draft,      \* draft[d]: the IndexedDB draft of device d
    beacons,    \* PUTs under way whose reply nobody waits for
    mount,      \* mount[m]: the state of mount m, its controller and its call
    edits,      \* how many edits the users made: the last text and id minted
    kept        \* ghost: the texts somebody wrote and nobody took back

vars == <<server, draft, beacons, mount, edits, kept>>

Unborn ==
    [stage |-> "unborn", doc |-> << >>, prior |-> [revision |-> 0, units |-> << >>],
     pc |-> "idle", force |-> FALSE, conflict |-> FALSE, latch |-> None, retries |-> 0,
     dirty |-> FALSE, drafter |-> FALSE, timer |-> FALSE,
     request |-> None, reply |-> None, touched |-> {}, loaded |-> None]

Init ==
    /\ server = [revision |-> 1, units |-> <<[id |-> 0, text |-> 0]>>]
    /\ draft = [d \in Device |-> None]
    /\ beacons = {}
    /\ mount = [m \in Mount |-> Unborn]
    /\ edits = 0
    /\ kept = {0}

Open(m) == mount[m].stage = "open"
Disposed(m) == mount[m].stage = "left"
Busy(m) == mount[m].pc # "idle"
MyDelta(t) == DeltaBetween(t.doc, t.prior.units)

--------------------------------------------------------------------------------
(* The draft writers: setDraft and clearDraft of the mount's device.            *)
Draft(t) == [doc |-> t.doc, base |-> t.prior.revision, touched |-> t.touched]

PersistDraft(m, t) == draft' = [draft EXCEPT ![DeviceOf[m]] = Draft(t)]
ClearDraft(m) == draft' = [draft EXCEPT ![DeviceOf[m]] = None]

Become(m, t) == mount' = [mount EXCEPT ![m] = t]

(* A call of the controller: its promise is pending until reply is taken.       *)
Put(t, delta) ==
    [t EXCEPT !.request = [kind |-> "put", expected |-> t.prior.revision, delta |-> delta],
              !.reply = None]
Get(t) == [t EXCEPT !.request = [kind |-> "get"], !.reply = None]
Taken(t) == [t EXCEPT !.request = None, !.reply = None]
Idle(t) == [Taken(t) EXCEPT !.pc = "idle", !.force = FALSE]

(* Mutants: a conflict keeps the controller busy; a settled flush is called     *)
(* clean whatever was typed during the PUT.                                    *)
EnterConflictStaysBusy(m, t) ==
    /\ Become(m, [t EXCEPT !.conflict = TRUE, !.timer = FALSE])
    /\ PersistDraft(m, t)

SettleBlindly(m, t) ==
    /\ Become(m, [Idle(t) EXCEPT !.latch = None, !.dirty = FALSE])
    /\ ClearDraft(m)

(* enterConflict, settleAfterFlush, and the catch branches that keep the draft. *)
EnterConflict(m, t) ==
    /\ Become(m, [Idle(t) EXCEPT !.conflict = TRUE, !.timer = FALSE])
    /\ PersistDraft(m, t)

Settle(m, t) ==
    IF MyDelta(t) = NoDelta
    THEN /\ Become(m, [Idle(t) EXCEPT !.latch = None, !.dirty = FALSE])
         /\ ClearDraft(m)
    ELSE /\ Become(m, [Idle(t) EXCEPT !.dirty = TRUE])
         /\ PersistDraft(m, t)

Defer(m, t) == Become(m, Idle(t)) /\ PersistDraft(m, t)

--------------------------------------------------------------------------------
(* A mount comes to life: the page's GET, then the draft is read, then (once    *)
(* the annotations are there too) decideRestore picks what to show.            *)
Neighbours(m) == {n \in Mount \ {m} : DeviceOf[n] = DeviceOf[m]}

Fetch(m) ==
    /\ mount[m].stage = "unborn"
    /\ \A n \in Neighbours(m) : mount[n].stage \in {"unborn", "gone"}
    /\ Become(m, [Unborn EXCEPT !.stage = "fetched", !.prior = server])
    /\ UNCHANGED <<server, draft, beacons, edits, kept>>

Loading(t, d) == [t EXCEPT !.stage = "loading", !.loaded = d]

ReadDraft(m) ==
    /\ mount[m].stage = "fetched"
    /\ Become(m, Loading(mount[m], draft[DeviceOf[m]]))
    /\ UNCHANGED <<server, draft, beacons, edits, kept>>

(* Back by navigation inside the app: the query cache still has what the left   *)
(* mount seeded, its baseline, so no GET is waited for.                        *)
Return(m) ==
    /\ "return" \in Happens
    /\ mount[m].stage = "unborn"
    /\ \E n \in Neighbours(m) :
            /\ Disposed(n)
            /\ Become(m, Loading([Unborn EXCEPT !.prior = mount[n].prior], draft[DeviceOf[m]]))
    /\ UNCHANGED <<server, draft, beacons, edits, kept>>

Opened(t) == [t EXCEPT !.stage = "open", !.loaded = None]

(* Mutants of decideRestore: a draft of an older revision is synced at once;    *)
(* such a draft is dropped.                                                    *)
BuildSyncsStale(m) ==
    LET t == mount[m]
        d == t.loaded
    IN
    /\ t.stage = "loading"
    /\ IF d # None
       THEN Become(m, [Opened(t) EXCEPT !.doc = d.doc, !.touched = d.touched,
                                        !.dirty = TRUE, !.timer = TRUE])
       ELSE Become(m, [Opened(t) EXCEPT !.doc = t.prior.units])
    /\ UNCHANGED <<server, draft, beacons, edits, kept>>

BuildDropsStale(m) ==
    LET t == mount[m]
        d == t.loaded
    IN
    /\ t.stage = "loading"
    /\ IF d # None /\ d.base = t.prior.revision
       THEN /\ Become(m, [Opened(t) EXCEPT !.doc = d.doc, !.touched = d.touched,
                                           !.dirty = TRUE, !.timer = TRUE])
            /\ UNCHANGED draft
       ELSE Become(m, [Opened(t) EXCEPT !.doc = t.prior.units]) /\ ClearDraft(m)
    /\ UNCHANGED <<server, beacons, edits, kept>>

(* decideRestore, then the mount: nothing to restore when the draft says what   *)
(* the server says; a draft of the revision on the server is synced, an older   *)
(* one is shown as a conflict; a draft newer than the server is dropped.       *)
Build(m) ==
    LET t == mount[m]
        d == t.loaded
    IN
    /\ t.stage = "loading"
    /\ IF d # None /\ DeltaBetween(d.doc, t.prior.units) # NoDelta /\ d.base <= t.prior.revision
       THEN /\ Become(m, [Opened(t) EXCEPT !.doc = d.doc, !.touched = d.touched,
                                           !.dirty = TRUE,
                                           !.timer = (d.base = t.prior.revision),
                                           !.conflict = (d.base < t.prior.revision)])
            /\ UNCHANGED draft
       ELSE /\ Become(m, [Opened(t) EXCEPT !.doc = t.prior.units])
            /\ IF d = None THEN UNCHANGED draft ELSE ClearDraft(m)
    /\ UNCHANGED <<server, beacons, edits, kept>>

--------------------------------------------------------------------------------
(* The user edits: dispatchTransaction and noteEdit.                           *)
Edited(t, doc, id) ==
    [t EXCEPT !.doc = doc, !.touched = @ \cup {id}, !.latch = None, !.dirty = TRUE,
              !.drafter = TRUE, !.timer = IF t.conflict THEN @ ELSE TRUE]

UserEdit(m, doc, id, overwritten) ==
    /\ Open(m)
    /\ edits < MaxEdits
    /\ edits' = edits + 1
    /\ Become(m, Edited(mount[m], doc, id))
    /\ kept' = (kept \ overwritten) \cup (Texts(doc) \ Texts(mount[m].doc))
    /\ UNCHANGED <<server, draft, beacons>>

EditText(m) ==
    \E i \in DOMAIN mount[m].doc :
        LET b == mount[m].doc[i] IN
        UserEdit(m, [mount[m].doc EXCEPT ![i].text = edits + 1], b.id, {b.text})

InsertBlock(m) ==
    /\ "insert" \in Happens
    /\ \E i \in 1..Len(mount[m].doc) + 1 :
        LET b == [id |-> edits + 1, text |-> edits + 1] IN
        UserEdit(m, InsertAt(mount[m].doc, i, b), b.id, {})

DeleteBlock(m) ==
    /\ "delete" \in Happens
    /\ \E i \in DOMAIN mount[m].doc :
        LET b == mount[m].doc[i] IN UserEdit(m, RemoveAt(mount[m].doc, i), b.id, {b.text})

(* The draft debounce fires.                                                   *)
WriteDraft(m) ==
    /\ Open(m)
    /\ mount[m].drafter
    /\ Become(m, [mount[m] EXCEPT !.drafter = FALSE])
    /\ PersistDraft(m, mount[m])
    /\ UNCHANGED <<server, beacons, edits, kept>>

--------------------------------------------------------------------------------
(* flush, from the mount t it runs in, with the draft as `present`.            *)
Flush(m, t, present) ==
    IF t.conflict \/ t.pc # "idle"
    THEN Become(m, t) /\ draft' = present
    ELSE IF MyDelta(t) = NoDelta
    THEN /\ Become(m, [t EXCEPT !.latch = None, !.dirty = FALSE])
         /\ draft' = [present EXCEPT ![DeviceOf[m]] = None]
    ELSE /\ Become(m, IF t.latch = t.doc THEN t
                      ELSE Put([t EXCEPT !.latch = None, !.pc = "saving"], MyDelta(t)))
         /\ draft' = present

(* An edit arms both debounces, 200 ms and 800 ms: the draft is written first. *)
FlushTimer(m) ==
    /\ Open(m)
    /\ mount[m].timer /\ ~mount[m].drafter
    /\ Flush(m, [mount[m] EXCEPT !.timer = FALSE], draft)
    /\ UNCHANGED <<server, beacons, edits, kept>>

Blur(m) ==
    /\ "blur" \in Happens
    /\ Open(m)
    /\ Flush(m, [mount[m] EXCEPT !.timer = FALSE],
             [draft EXCEPT ![DeviceOf[m]] = Draft(mount[m])])
    /\ UNCHANGED <<server, beacons, edits, kept>>

(* canFlushOnReconnect: the browser is back online.                            *)
Online(m) ==
    /\ "online" \in Happens
    /\ Open(m)
    /\ mount[m].dirty /\ ~mount[m].conflict /\ ~Busy(m)
    /\ Become(m, [mount[m] EXCEPT !.timer = TRUE])
    /\ UNCHANGED <<server, draft, beacons, edits, kept>>

--------------------------------------------------------------------------------
(* The server: GET of the page, PUT of a delta.                                *)
(* Mutant: the revision gate is forgotten.                                      *)
AcceptsLate(put) == put.expected <= server.revision /\ CoreAccepts(server.units, put.delta)

Accepts(put) == put.expected = server.revision /\ CoreAccepts(server.units, put.delta)

Committed(put) ==
    [revision |-> server.revision + 1, units |-> Saved(server.units, put.delta)]

PutReply(put) ==
    IF Accepts(put) THEN [status |-> "ok", content |-> Committed(put)]
    ELSE IF CoreAccepts(server.units, put.delta) THEN [status |-> "conflict"]
    ELSE [status |-> "invalid"]

Serve(m) ==
    LET t == mount[m] IN
    /\ t.request # None
    /\ t.reply = None
    /\ IF t.request.kind = "get"
       THEN /\ Become(m, [t EXCEPT !.reply = [status |-> "ok", content |-> server]])
            /\ UNCHANGED server
       ELSE /\ Become(m, [t EXCEPT !.reply = PutReply(t.request)])
            /\ server' = IF Accepts(t.request) THEN Committed(t.request) ELSE server
    /\ UNCHANGED <<draft, beacons, edits, kept>>

ServeBeacon(put) ==
    /\ put \in beacons
    /\ beacons' = beacons \ {put}
    /\ server' = IF Accepts(put) THEN Committed(put) ELSE server
    /\ UNCHANGED <<draft, mount, edits, kept>>

(* The PUTs of m the server may still serve once m no longer waits for them.   *)
Unawaited(t) ==
    IF t.request # None /\ t.reply = None /\ t.request.kind = "put" THEN {t.request} ELSE {}

--------------------------------------------------------------------------------
(* The controller takes its reply.                                             *)
Failed(m) == "loss" \in Happens /\ mount[m].request # None

Answered(m, status) == mount[m].reply # None /\ mount[m].reply.status = status

FetchFresh(m, t) == Become(m, Get([t EXCEPT !.pc = "fetching"])) /\ UNCHANGED draft

(* flush's save.  Its success branch does not look at `disposed`.              *)
FlushSaved(m) ==
    /\ mount[m].pc = "saving"
    /\ \/ /\ Answered(m, "ok")
          /\ Settle(m, [mount[m] EXCEPT !.prior = mount[m].reply.content])
       \/ /\ Answered(m, "conflict") \/ Answered(m, "invalid")
          /\ FetchFresh(m, mount[m])
    /\ UNCHANGED <<server, beacons, edits, kept>>

(* runMerge's save.                                                            *)
MergeSaved(m) ==
    LET t == mount[m] IN
    /\ t.pc = "resaving"
    /\ \/ /\ Answered(m, "ok")
          /\ IF Disposed(m)
             THEN Become(m, Idle(t)) /\ UNCHANGED draft
             ELSE Settle(m, [t EXCEPT !.prior = t.reply.content, !.retries = 0])
       \/ /\ Answered(m, "conflict")
          /\ IF t.retries >= MaxMergeRetries
             THEN EnterConflict(m, t)
             ELSE FetchFresh(m, [t EXCEPT !.retries = @ + 1])
       \/ /\ Answered(m, "invalid")
          /\ Defer(m, t)
    /\ UNCHANGED <<server, beacons, edits, kept>>

(* runMerge's fetchFresh: the merge itself, on the document as it is now.       *)
Fresh(m) == mount[m].reply.content

Reasons(m) ==
    LET t == mount[m] IN
    ConflictReasons(t.prior.units, Fresh(m).units, MyDelta(t), t.force)

Plan(m) == MergedUnits(mount[m].prior.units, Fresh(m).units, MyDelta(mount[m]))

(* Mutants: the merged content taken for the server's; the doc not reprojected, *)
(* so that it lacks the units of the others.                                   *)
RebaseOnPlan(m) ==
    Settle(m, [mount[m] EXCEPT !.prior = [revision |-> Fresh(m).revision, units |-> Plan(m)],
                               !.doc = Plan(m), !.retries = 0])

RebaseUnprojected(m) ==
    LET t == [mount[m] EXCEPT !.prior = Fresh(m)] IN
    Become(m, Put([t EXCEPT !.pc = "resaving"], MyDelta(t))) /\ UNCHANGED draft

Rebase(m) ==
    LET t == [mount[m] EXCEPT !.prior = Fresh(m), !.doc = Plan(m)] IN
    IF MyDelta(t) = NoDelta
    THEN Settle(m, [t EXCEPT !.retries = 0])
    ELSE Become(m, Put([t EXCEPT !.pc = "resaving"], MyDelta(t))) /\ UNCHANGED draft

Merged(m) ==
    LET t == mount[m] IN
    /\ t.pc = "fetching"
    /\ Answered(m, "ok")
    /\ IF Disposed(m)
       THEN Become(m, Idle(t)) /\ UNCHANGED <<draft, kept>>
       ELSE IF Fresh(m).revision <= t.prior.revision /\ ~t.force
       THEN /\ Become(m, [Idle(t) EXCEPT !.retries = 0, !.latch = t.doc])
            /\ PersistDraft(m, t)
            /\ UNCHANGED kept
       ELSE IF Reasons(m) # {}
       THEN EnterConflict(m, t) /\ UNCHANGED kept
       ELSE /\ Rebase(m)
            /\ kept' = IF t.force THEN kept \ (Texts(Fresh(m).units) \ Texts(Plan(m))) ELSE kept
    /\ UNCHANGED <<server, beacons, edits>>

(* resolveTakeTheirs and resolveKeepMine, and the reply of the former.          *)
TakeTheirs(m) ==
    /\ "takeTheirs" \in Happens
    /\ Open(m)
    /\ mount[m].conflict /\ ~Busy(m)
    /\ Become(m, Get([mount[m] EXCEPT !.pc = "taking"]))
    /\ UNCHANGED <<server, draft, beacons, edits, kept>>

KeepMine(m) ==
    /\ "keepMine" \in Happens
    /\ Open(m)
    /\ mount[m].conflict /\ ~Busy(m)
    /\ FetchFresh(m, [mount[m] EXCEPT !.conflict = FALSE, !.force = TRUE])
    /\ UNCHANGED <<server, beacons, edits, kept>>

TookTheirs(m) ==
    LET t == mount[m] IN
    /\ t.pc = "taking"
    /\ Answered(m, "ok")
    /\ IF Disposed(m)
       THEN Become(m, Idle(t)) /\ UNCHANGED <<draft, kept>>
       ELSE /\ Become(m, [Idle(t) EXCEPT !.prior = Fresh(m), !.doc = Fresh(m).units,
                                         !.conflict = FALSE, !.retries = 0, !.latch = None,
                                         !.dirty = FALSE, !.touched = {}])
            /\ ClearDraft(m)
            /\ kept' = kept \ (Texts(t.doc) \ Texts(Fresh(m).units))
    /\ UNCHANGED <<server, beacons, edits>>

(* The call fails for the client: transient.  No catch branch looks at          *)
(* `disposed`; only resolveTakeTheirs leaves the draft alone.                  *)
CallFails(m) ==
    LET t == mount[m] IN
    /\ Failed(m)
    /\ IF t.pc = "taking" THEN Become(m, Idle(t)) /\ UNCHANGED draft ELSE Defer(m, t)
    /\ beacons' = beacons \cup Unawaited(t)
    /\ UNCHANGED <<server, edits, kept>>

--------------------------------------------------------------------------------
(* The page goes away.  beaconFlush does not look at `conflict`, and its reply  *)
(* is ignored.                                                                 *)
Beacon(t) ==
    IF MyDelta(t) = NoDelta THEN {}
    ELSE {[kind |-> "put", expected |-> t.prior.revision, delta |-> MyDelta(t)]}

Hide(m) ==
    /\ "hide" \in Happens
    /\ Open(m)
    /\ PersistDraft(m, mount[m])
    /\ beacons' = beacons \cup Beacon(mount[m])
    /\ UNCHANGED <<server, mount, edits, kept>>

Gone == [Unborn EXCEPT !.stage = "gone"]

Close(m) ==
    /\ "close" \in Happens
    /\ Open(m)
    /\ PersistDraft(m, mount[m])
    /\ beacons' = beacons \cup Beacon(mount[m]) \cup Unawaited(mount[m])
    /\ Become(m, Gone)
    /\ UNCHANGED <<server, edits, kept>>

BeaconLost(put) ==
    /\ "loss" \in Happens
    /\ put \in beacons
    /\ beacons' = beacons \ {put}
    /\ UNCHANGED <<server, draft, mount, edits, kept>>

(* Unmount: dispose, timers off, draft, beacon; a call under way goes on.       *)
Leave(m) ==
    LET t == mount[m] IN
    /\ "leave" \in Happens
    /\ Open(m)
    /\ PersistDraft(m, t)
    /\ beacons' = beacons \cup Beacon(t)
    /\ Become(m, [t EXCEPT !.stage = "left", !.doc = IF Busy(m) THEN @ ELSE << >>,
                          !.timer = FALSE, !.drafter = FALSE])
    /\ UNCHANGED <<server, edits, kept>>

OnDraft(d) == IF draft[d] = None THEN {} ELSE Texts(draft[d].doc)

(* The tab dies without an event: what the draft debounce still held is lost.   *)
Undrafted(m) ==
    IF mount[m].drafter
    THEN Texts(mount[m].doc) \ (Texts(server.units) \cup OnDraft(DeviceOf[m]))
    ELSE {}

Kill(m) ==
    /\ "kill" \in Happens
    /\ Open(m) \/ Disposed(m)
    /\ beacons' = beacons \cup Unawaited(mount[m])
    /\ kept' = kept \ Undrafted(m)
    /\ Become(m, Gone)
    /\ UNCHANGED <<server, draft, edits>>

--------------------------------------------------------------------------------
User(m) ==
    EditText(m) \/ InsertBlock(m) \/ DeleteBlock(m) \/ TakeTheirs(m) \/ KeepMine(m)

Environment(m) ==
    Fetch(m) \/ Return(m) \/ Blur(m) \/ Online(m) \/ CallFails(m) \/ Hide(m) \/ Close(m) \/ Leave(m) \/ Kill(m)

Controller(m) ==
    \/ ReadDraft(m) \/ Build(m) \/ WriteDraft(m) \/ FlushTimer(m) \/ Serve(m)
    \/ FlushSaved(m) \/ MergeSaved(m) \/ Merged(m) \/ TookTheirs(m)

Next ==
    \/ \E m \in Mount : User(m) \/ Environment(m) \/ Controller(m)
    \/ \E put \in beacons : ServeBeacon(put) \/ BeaconLost(put)

Spec == Init /\ [][Next]_vars

(* Timers fire and, where no call is lost, the server answers and the promise   *)
(* resolves.                                                                   *)
FairSpec == Spec /\ \A m \in Mount : WF_vars(Controller(m))

--------------------------------------------------------------------------------
(* PROPERTIES                                                                  *)

OnScreen(m) == IF Open(m) THEN Texts(mount[m].doc) ELSE {}

(* "We NEVER silently lose ... content" (DayEditor.tsx): a text somebody wrote, *)
(* and nobody overwrote, deleted or discarded on screen, is on the server, on   *)
(* somebody's screen or in a draft; edits younger than the draft debounce may   *)
(* die with their tab.                                                         *)
NothingLost ==
    kept \subseteq Texts(server.units)
        \cup UNION {OnScreen(m) : m \in Mount} \cup UNION {OnDraft(d) : d \in Device}

(* "... or clobber": no PUT removes from the server a text its user did not     *)
(* overwrite, delete or give up.                                               *)
NoClobber ==
    [][kept' \cap Texts(server.units) \subseteq Texts(server'.units)]_vars

IsMine(t, delta) ==
    /\ delta.deletes \subseteq t.touched
    /\ \A u \in delta.upserts :
            u.id \in Ids(t.prior.units) /\ u.text # TextOf(t.prior.units, u.id)
                => u.id \in t.touched

(* A PUT deletes only units its user deleted and changes only the text of units *)
(* its user edited: the one under way, and the beacon that would be sent if the *)
(* page were hidden, closed or left now.                                       *)
OnlyMyEdits ==
    \A m \in Mount :
        LET t == mount[m] IN
        /\ t.request # None /\ t.request.kind = "put" => IsMine(t, t.request.delta)
        /\ Open(m) => IsMine(t, MyDelta(t))

(* A baseline is server content: the same revision means the same units.       *)
BaselineIsCommitted ==
    \A m \in Mount :
        /\ mount[m].prior.revision <= server.revision
        /\ mount[m].prior.revision = server.revision => mount[m].prior.units = server.units

(* The status says "Saved" only over the units of the baseline.                *)
SavedMeansStored ==
    \A m \in Mount :
        Open(m) /\ ~mount[m].dirty => mount[m].doc = mount[m].prior.units

(* A flush comes to an end.                                                    *)
EveryCallEnds == \A m \in Mount : Busy(m) ~> ~Busy(m)
================================================================================
