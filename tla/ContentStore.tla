------------------------------ MODULE ContentStore -----------------------------
(* The server's write path for ONE canonical object: the handlers of           *)
(* http/routes/graph.ts and http/routes/objects.ts over the tables of          *)
(* db/graph.ts and db/objects.ts.                                              *)
(*                                                                             *)
(* A handler first READS, outside any transaction and in separate queries (the *)
(* objects row, then the content_units rows), then lets the pure core compute, *)
(* and only then opens a transaction whose first statement compares            *)
(* objects.revision with the revision the CLIENT expected.  Other requests run *)
(* between any two of those queries.  The core never compares the expected     *)
(* revision with what was read: the gate compares it with what is stored.      *)
EXTENDS RevisionedContent

CONSTANTS
    Request,        \* requests the server may be handling at the same time
    Nobody,         \* the holder of a row lock nobody holds
    MaxRevision     \* bound: no write is sent once the revision is this high

ASSUME RequestAssumption == Nobody \notin Request

(* Beside the tables of RevisionedContent: *)
VARIABLES
    rowLock,    \* the request whose open transaction holds the objects row
    handler,    \* handler[r]: where the handler of request r stands
    history,    \* history[n]: content and title as of revision n (ghost)
    readAt      \* readAt[r]: the revision at which r read the units (ghost)

tables == objectVars
vars == <<revision, title, units, versions, copies, rowLock, handler, history, readAt>>

Kind == {"read", "save", "operation", "copy", "title"}

(* "done" replies: ok 200, conflict 409, invalid 422 of the core, constraint    *)
(* 422 of a database constraint at COMMIT, failed 500 or no reply at all.       *)
Reply == {"none", "ok", "conflict", "invalid", "constraint", "failed"}

Phase == {"idle", "received", "headRead", "unitsRead", "locked", "done"}

Idle == [phase |-> "idle", kind |-> "read", expected |-> 0, patch |-> Untouched,
         delta |-> [u \in Unit |-> Untouched], head |-> 0, loadedTitle |-> Untouched,
         loaded |-> EmptyContent, reply |-> "none"]

Handler ==
    [phase : Phase, kind : Kind, expected : Nat, patch : TitlePatch,
     delta : Delta \cup {[u \in Unit |-> Untouched]}, head : Nat,
     loadedTitle : TitlePatch, loaded : Content, reply : Reply]

Init ==
    /\ ObjectInit
    /\ rowLock = Nobody
    /\ handler = [r \in Request |-> Idle]
    /\ history = [n \in {1} |-> [units |-> units, title |-> title]]
    /\ readAt = [r \in Request |-> 0]

Result(h) == ApplyDelta(h.loaded, h.delta)

--------------------------------------------------------------------------------
(* Requests arrive.  The expected revision is any revision a client may have   *)
(* read so far: a stale tab, a retry of a request whose reply was lost and a   *)
(* keepalive save sent twice all send an old one.                              *)
Receive(r, request) ==
    /\ handler[r].phase = "idle"
    /\ request.expected \in 1..revision
    /\ handler' = [handler EXCEPT ![r] = request]
    /\ UNCHANGED <<tables, rowLock, history, readAt>>

ReceiveRead(r) ==
    Receive(r, [Idle EXCEPT !.phase = "received", !.kind = "read", !.expected = 1])

ReceiveWrite(r) ==
    /\ revision < MaxRevision
    /\ \E kind \in {"save", "operation"}, delta \in Delta, expected \in 1..revision :
            Receive(r, [Idle EXCEPT !.phase = "received", !.kind = kind,
                                    !.delta = delta, !.expected = expected])

ReceiveCopy(r) ==
    \E expected \in 1..revision :
        Receive(r, [Idle EXCEPT !.phase = "received", !.kind = "copy",
                                !.expected = expected])

ReceiveTitle(r) ==
    /\ revision < MaxRevision
    /\ \E patch \in TitlePatch, expected \in 1..revision :
            Receive(r, [Idle EXCEPT !.phase = "received", !.kind = "title",
                                    !.patch = patch, !.expected = expected])

--------------------------------------------------------------------------------
(* The reads, each a query of its own against the committed state.             *)
ReadHead(r) ==
    /\ handler[r].phase = "received"
    /\ handler' = [handler EXCEPT ![r].phase = "headRead", ![r].head = revision,
                                  ![r].loadedTitle = title]
    /\ UNCHANGED <<tables, rowLock, history, readAt>>

ReadUnits(r) ==
    /\ handler[r].phase = "headRead"
    /\ handler[r].kind # "title"
    /\ handler' = [handler EXCEPT ![r].phase = "unitsRead", ![r].loaded = units]
    /\ readAt' = [readAt EXCEPT ![r] = revision]
    /\ UNCHANGED <<tables, rowLock, history>>

(* The handler's locals die with it; its reply is what is left.                *)
Answer(r, reply) ==
    /\ handler' = [handler EXCEPT ![r] = [Idle EXCEPT !.phase = "done", !.reply = reply]]
    /\ readAt' = [readAt EXCEPT ![r] = 0]

(* GET of an object's page: the pair (head, loaded) is the reply.              *)
ReplyToRead(r) ==
    /\ handler[r].phase = "unitsRead"
    /\ handler[r].kind = "read"
    /\ handler' = [handler EXCEPT ![r].phase = "done", ![r].reply = "ok"]
    /\ UNCHANGED <<tables, rowLock, history, readAt>>

--------------------------------------------------------------------------------
(* The core refuses what it computes from the content it was given.            *)
Refuse(r) ==
    /\ handler[r].phase = "unitsRead"
    /\ handler[r].kind \in {"save", "operation"}
    /\ ~CoreAccepts(handler[r].loaded, handler[r].delta)
    /\ Answer(r, "invalid")
    /\ UNCHANGED <<tables, rowLock, history>>

AtGate(r) ==
    /\ handler[r].phase = "unitsRead"
    /\ \/ /\ handler[r].kind \in {"save", "operation"}
          /\ CoreAccepts(handler[r].loaded, handler[r].delta)
       \/ handler[r].kind = "copy"

PassGateCopyUnlocked(r) ==
    /\ AtGate(r)
    /\ rowLock = Nobody
    /\ revision = handler[r].expected
    /\ rowLock' = IF handler[r].kind = "copy" THEN Nobody ELSE r
    /\ handler' = [handler EXCEPT ![r].phase = "locked"]
    /\ UNCHANGED <<tables, history, readAt>>

(* UPDATE objects .. WHERE revision = $expected (for a copy: SELECT .. FOR      *)
(* UPDATE) found its row, locked it, and the transaction goes on.  It waits     *)
(* while another open transaction holds the row.                               *)
PassGate(r) ==
    /\ AtGate(r)
    /\ rowLock = Nobody
    /\ revision = handler[r].expected
    /\ rowLock' = r
    /\ handler' = [handler EXCEPT ![r].phase = "locked"]
    /\ UNCHANGED <<tables, history, readAt>>

(* It matched no row: RevisionConflict, ROLLBACK, 409.                         *)
FailGate(r) ==
    /\ AtGate(r)
    /\ revision # handler[r].expected
    /\ Answer(r, "conflict")
    /\ UNCHANGED <<tables, rowLock, history>>

(* Mutant: a save upserts and forgets the deletes.                             *)
WrittenUnitsUpsertOnly(h) ==
    [u \in Unit |-> IF h.delta[u] \in {Untouched, Absent} THEN units[u] ELSE h.delta[u]]

(* What the transaction leaves in content_units: persistContentDelta touches    *)
(* the delta's rows only; persistObjectGraph deletes all of them and inserts    *)
(* what the core returned.                                                     *)
WrittenUnits(h) ==
    IF h.kind = "save" THEN ApplyDelta(units, h.delta) ELSE Result(h)

(* The deferred constraints, checked at COMMIT: UNIQUE (object, position) and   *)
(* UNIQUE (object, version_no).                                                *)
ConstraintsHold(h) ==
    /\ WellFormed(WrittenUnits(h))
    /\ h.head + 1 \notin DOMAIN versions

Recorded(newRevision, newUnits, newTitle) ==
    [n \in DOMAIN history \cup {newRevision} |->
        IF n = newRevision THEN [units |-> newUnits, title |-> newTitle] ELSE history[n]]

(* Mutant: the rows are written and the revision is not raised.                *)
InstallUnraised(h) ==
    /\ units' = WrittenUnits(h)
    /\ versions' = Checkpoint(versions, h.head + 1, Result(h))
    /\ UNCHANGED <<revision, history>>

(* COMMIT.  The new revision and the checkpoint come from what the handler     *)
(* READ, the rows of a save from what is stored; a violated constraint rolls   *)
(* everything back (ContentConstraintError, 422).                              *)
Install(h) ==
    /\ revision' = h.head + 1
    /\ units' = WrittenUnits(h)
    /\ versions' = Checkpoint(versions, h.head + 1, Result(h))
    /\ history' = Recorded(revision', units', title)

CommitWrite(r) ==
    LET h == handler[r] IN
    /\ h.phase = "locked"
    /\ h.kind \in {"save", "operation"}
    /\ IF ConstraintsHold(h)
       THEN Install(h) /\ Answer(r, "ok")
       ELSE UNCHANGED <<revision, units, versions, history>> /\ Answer(r, "constraint")
    /\ rowLock' = Nobody
    /\ UNCHANGED <<title, copies>>

CommitCopy(r) ==
    LET h == handler[r] IN
    /\ h.phase = "locked"
    /\ h.kind = "copy"
    /\ copies' = copies \cup {Copy(h.expected, h.loadedTitle, h.loaded)}
    /\ rowLock' = Nobody
    /\ Answer(r, "ok")
    /\ UNCHANGED <<revision, title, units, versions, history>>

(* PATCH of the title is one autocommitted UPDATE: no version row.             *)
CommitTitle(r) ==
    LET h == handler[r] IN
    /\ h.phase = "headRead"
    /\ h.kind = "title"
    /\ rowLock = Nobody
    /\ revision = h.expected
    /\ revision' = h.head + 1
    /\ title' = PatchedTitle(h.loadedTitle, h.patch)
    /\ history' = Recorded(revision', units, title')
    /\ Answer(r, "ok")
    /\ UNCHANGED <<units, versions, copies, rowLock>>

FailTitle(r) ==
    /\ handler[r].phase = "headRead"
    /\ handler[r].kind = "title"
    /\ revision # handler[r].expected
    /\ Answer(r, "conflict")
    /\ UNCHANGED <<tables, rowLock, history>>

--------------------------------------------------------------------------------
(* Mutant: a dead handler's transaction keeps the objects row locked.           *)
AbortKeepsLock(r) ==
    /\ handler[r].phase \notin {"idle", "done"}
    /\ Answer(r, "failed")
    /\ UNCHANGED <<tables, rowLock, history>>

(* The connection or the process dies under the handler: PostgreSQL rolls the   *)
(* open transaction back and its row lock goes with it.                        *)
Abort(r) ==
    /\ handler[r].phase \notin {"idle", "done"}
    /\ rowLock' = IF rowLock = r THEN Nobody ELSE rowLock
    /\ Answer(r, "failed")
    /\ UNCHANGED <<tables, history>>

(* The reply leaves the server; the slot may serve another request.            *)
Finish(r) ==
    /\ handler[r].phase = "done"
    /\ handler' = [handler EXCEPT ![r] = Idle]
    /\ readAt' = [readAt EXCEPT ![r] = 0]
    /\ UNCHANGED <<tables, rowLock, history>>

Arrive(r) == ReceiveRead(r) \/ ReceiveWrite(r) \/ ReceiveCopy(r) \/ ReceiveTitle(r)

Gate(r) == PassGate(r) \/ CommitTitle(r)

Advance(r) ==
    \/ ReadHead(r) \/ ReadUnits(r) \/ ReplyToRead(r) \/ Refuse(r)
    \/ FailGate(r) \/ CommitWrite(r) \/ CommitCopy(r)
    \/ FailTitle(r)

Next == \E r \in Request : Arrive(r) \/ Advance(r) \/ Gate(r) \/ Abort(r) \/ Finish(r)

Spec == Init /\ [][Next]_vars

(* A handler that can go on does (Node runs every ready callback, PostgreSQL    *)
(* every ready statement), and a row lock is granted in the order of the        *)
(* waiters, so one that is free again and again is granted.                    *)
Fairness ==
    \A r \in Request : WF_vars(Advance(r)) /\ SF_vars(Gate(r))

FairSpec == Spec /\ Fairness
--------------------------------------------------------------------------------
(* PROPERTIES                                                                  *)

(* Type correctness of the tables, the row lock and every handler's state.     *)
TypeOK ==
    /\ revision \in Nat \ {0}
    /\ title \in Title
    /\ units \in Content
    /\ DOMAIN versions \subseteq 1..revision
    /\ \A v \in DOMAIN versions : versions[v] \in Content
    /\ copies \subseteq [source : Nat, title : Title, units : Content]
    /\ rowLock \in Request \cup {Nobody}
    /\ handler \in [Request -> Handler]
    /\ history \in [1..revision -> [units : Content, title : Title]]
    /\ readAt \in [Request -> Nat]

(* A transaction that got past the revision gate computes from the very content *)
(* it is about to replace, although head and units were read in two queries    *)
(* outside it and the core never looked at the expected revision.              *)
GateMeansFresh ==
    rowLock # Nobody =>
        /\ handler[rowLock].loaded = units
        /\ handler[rowLock].kind # "copy" => handler[rowLock].head = revision

(* The append-only log tells the truth: the checkpoint of revision n, computed *)
(* by the core from what the handler read, is the content stored at n, written *)
(* row by row (section 6.4).                                                   *)
CheckpointIsContent ==
    \A n \in DOMAIN versions : versions[n] = history[n].units

(* No committed operation is undone by a database constraint: the core's check *)
(* of the content it read stands for the content at COMMIT, and no version_no  *)
(* is taken twice ("never collides", persistContentDelta).                     *)
ConstraintsNeverFire ==
    \A r \in Request : handler[r].reply # "constraint"

(* A copy is the source of exactly the revision its client had read, title and *)
(* units, never a mix of two revisions or a since-changed source.              *)
CopyIsOfExpectedRevision ==
    \A c \in copies :
        c.units = history[c.source].units /\ c.title = history[c.source].title

(* A page load may be torn (units newer than the revision it states), but then *)
(* that revision is already superseded: a client that edits on top of it is    *)
(* answered 409 and never silently accepted.                                   *)
TornReadIsStale ==
    \A r \in Request :
        /\ readAt[r] # 0
        /\ handler[r].loaded # history[handler[r].head].units
        => handler[r].head < revision

(* A write that is answered 200 replaced exactly the revision its client       *)
(* expected, and is the only one that did.                                     *)
Won(r) ==
    /\ handler[r].kind \in {"save", "operation", "title"}
    /\ handler[r].reply = "none"
    /\ handler'[r].reply = "ok"

WinnerReplacedExpected ==
    [][\A r \in Request : Won(r) =>
            revision = handler[r].expected /\ revision' = revision + 1]_vars

(* Nothing a client can see of the object changes without a new revision, and  *)
(* history is only appended to.                                                *)
ChangeRaisesRevision ==
    [][/\ units' # units \/ title' # title => revision' = revision + 1
       /\ \A n \in DOMAIN versions : n \in DOMAIN versions' /\ versions'[n] = versions[n]
      ]_vars

(* The store is a revisioned register: every step of handlers, transactions    *)
(* and aborts is one atomic operation on the current content, or nothing.      *)
ImplementsRegister == ObjectSpec

(* Every request that reached the server is answered, whatever the others do:  *)
(* no waiter on the row lock is left behind by a commit, a rollback or a crash.*)
EveryRequestAnswered ==
    \A r \in Request : handler[r].phase = "received" ~> handler[r].phase = "done"
================================================================================
