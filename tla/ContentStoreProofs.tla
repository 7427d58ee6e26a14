--------------------------- MODULE ContentStoreProofs --------------------------
(* Proofs about ContentStore, for every set of requests, units, positions,     *)
(* deltas and titles and every bound on the revision.                          *)
(*                                                                             *)
(* Why the revision gate is enough: the revision a client expects is one it    *)
(* once read, so it is at most the revision of the handler's first query, which *)
(* is at most the revision of its second, which is at most the stored one.     *)
(* When the gate finds the stored revision equal to the expected one, the four *)
(* are equal, and the row lock keeps them equal until COMMIT.                  *)
EXTENDS ContentStore, TLAPS

--------------------------------------------------------------------------------
(* Operations on contents.                                                     *)

(* What an operation makes of a content is a content.                          *)
LEMMA ApplyDeltaType ==
    ASSUME NEW content \in Content, NEW delta \in Delta \cup {[u \in Unit |-> Untouched]}
    PROVE  ApplyDelta(content, delta) \in Content
<1>1. delta \in [Unit -> Position \cup {Absent, Untouched}]
    BY ContentAssumption
<1>2. \A u \in Unit : delta[u] # Untouched => delta[u] \in Position \cup {Absent}
    BY <1>1
<1>. QED
    BY <1>2 DEF ApplyDelta, Content

(* A title patch leaves a title.                                               *)
LEMMA PatchedTitleType ==
    ASSUME NEW current \in Title, NEW patch \in TitlePatch
    PROVE  PatchedTitle(current, patch) \in Title
BY DEF PatchedTitle, TitlePatch

--------------------------------------------------------------------------------
(* The inductive invariant.                                                    *)

Reading == {"headRead", "unitsRead", "locked"}

(* expected <= head <= readAt <= revision, and what was loaded is what those   *)
(* revisions were.                                                             *)
ReadsInOrder(r) ==
    LET h == handler[r] IN
    /\ h.phase \in Reading \cup {"received"} => h.expected \in 1..revision
    /\ h.phase \in Reading \/ readAt[r] # 0 => h.head \in 1..revision
    /\ h.phase \in Reading => /\ h.expected <= h.head
                              /\ h.loadedTitle = history[h.head].title
    /\ readAt[r] # 0 => /\ readAt[r] \in h.head..revision
                        /\ h.loaded = history[readAt[r]].units
    /\ h.phase \in {"unitsRead", "locked"} => readAt[r] # 0 /\ h.kind # "title"
    /\ h.phase \in {"idle", "received", "headRead"} => readAt[r] = 0

(* Only the holder of the row is past the gate, and the gate still holds.      *)
LockedAtExpected(r) ==
    LET h == handler[r] IN
    h.phase = "locked" =>
        /\ rowLock = r
        /\ h.expected = revision
        /\ h.kind \in {"save", "operation", "copy"}
        /\ h.kind # "copy" => CoreAccepts(h.loaded, h.delta)

HistoryEndsNow ==
    /\ history[revision].units = units
    /\ history[revision].title = title

CopiesAreOfThePast ==
    \A c \in copies : /\ c.source \in 1..revision
                      /\ c.units = history[c.source].units
                      /\ c.title = history[c.source].title

IInv ==
    /\ TypeOK
    /\ HistoryEndsNow
    /\ \A r \in Request : ReadsInOrder(r) /\ LockedAtExpected(r)
    /\ rowLock # Nobody => handler[rowLock].phase = "locked"
    /\ CheckpointIsContent
    /\ CopiesAreOfThePast
    /\ ConstraintsNeverFire

--------------------------------------------------------------------------------
(* Time only extends the history.                                              *)
HistoryGrows ==
    /\ revision' \in Nat
    /\ revision <= revision'
    /\ \A n \in 1..revision : history'[n] = history[n]

(* A handler that does not step keeps its place, unless the row moves under    *)
(* the lock it holds.                                                          *)
LEMMA BystanderKeepsPlace ==
    ASSUME TypeOK, NEW r \in Request, ReadsInOrder(r), LockedAtExpected(r),
           HistoryGrows,
           handler'[r] = handler[r], readAt'[r] = readAt[r],
           handler[r].phase = "locked" => rowLock' = rowLock /\ revision' = revision
    PROVE  ReadsInOrder(r)' /\ LockedAtExpected(r)'
<1>1. revision \in Nat \ {0} /\ readAt[r] \in Nat /\ handler[r] \in Handler
    BY DEF TypeOK
<1>2. handler[r].head \in Nat /\ handler[r].expected \in Nat
    BY <1>1 DEF Handler
<1>3. ReadsInOrder(r)'
    BY <1>1, <1>2 DEF ReadsInOrder, HistoryGrows, Reading
<1>4. LockedAtExpected(r)'
    BY <1>1, <1>2 DEF LockedAtExpected, CoreAccepts, WellFormed, ApplyDelta
<1>. QED
    BY <1>3, <1>4

(* The holder of the row has loaded the content that is stored.                *)
LEMMA HolderIsFresh ==
    ASSUME IInv, NEW r \in Request, handler[r].phase = "locked"
    PROVE  /\ rowLock = r
           /\ handler[r].head = revision
           /\ handler[r].expected = revision
           /\ handler[r].loaded = units
           /\ handler[r].loadedTitle = title
<1>1. revision \in Nat /\ readAt[r] \in Nat /\ handler[r] \in Handler
    BY DEF IInv, TypeOK
<1>2. handler[r].head \in Nat /\ handler[r].expected \in Nat
    BY <1>1 DEF Handler
<1>3. ReadsInOrder(r) /\ LockedAtExpected(r)
    BY DEF IInv
<1>4. handler[r].head = revision /\ readAt[r] = revision
    BY <1>1, <1>2, <1>3 DEF ReadsInOrder, LockedAtExpected, Reading
<1>. QED
    BY <1>3, <1>4 DEF IInv, HistoryEndsNow, ReadsInOrder, LockedAtExpected, Reading
--------------------------------------------------------------------------------
(* Steps of a handler that holds no lock and touches no table.                 *)

LEMMA IdleType == Idle \in Handler /\ EmptyContent \in Content
BY DEF Idle, Handler, Phase, Kind, Reply, TitlePatch, EmptyContent, Content

(* The state a reply leaves behind.                                            *)
LEMMA AnsweredType ==
    ASSUME NEW reply \in Reply
    PROVE  /\ [Idle EXCEPT !.phase = "done", !.reply = reply] \in Handler
           /\ [Idle EXCEPT !.phase = "done", !.reply = reply].phase = "done"
           /\ [Idle EXCEPT !.phase = "done", !.reply = reply].reply = reply
BY IdleType DEF Idle, Handler, Phase, Reply

LEMMA QuietStep ==
    ASSUME IInv, NEW r \in Request, NEW h \in Handler, NEW at \in Nat,
           UNCHANGED <<tables, rowLock, history>>,
           handler' = [handler EXCEPT ![r] = h],
           readAt' = [readAt EXCEPT ![r] = at],
           handler[r].phase # "locked", h.phase # "locked", h.reply # "constraint",
           ReadsInOrder(r)'
    PROVE  IInv'
<1>1. TypeOK'
    BY DEF IInv, TypeOK, tables, objectVars
<1>2. ASSUME NEW q \in Request
      PROVE  ReadsInOrder(q)' /\ LockedAtExpected(q)'
    <2>1. CASE q = r
        <3>1. handler'[q] = h
            BY <2>1 DEF IInv, TypeOK
        <3>. QED
            BY <2>1, <3>1 DEF LockedAtExpected
    <2>2. CASE q # r
        <3>1. handler'[q] = handler[q] /\ readAt'[q] = readAt[q]
            BY <2>2 DEF IInv, TypeOK
        <3>2. HistoryGrows
            BY DEF HistoryGrows, IInv, TypeOK, tables, objectVars
        <3>. QED
            BY <3>1, <3>2, BystanderKeepsPlace DEF IInv, tables, objectVars
    <2>. QED
        BY <2>1, <2>2
<1>3. (rowLock # Nobody => handler[rowLock].phase = "locked")'
    BY DEF IInv, TypeOK
<1>4. ConstraintsNeverFire'
    BY DEF IInv, TypeOK, ConstraintsNeverFire
<1>5. HistoryEndsNow' /\ CheckpointIsContent' /\ CopiesAreOfThePast'
    BY DEF IInv, HistoryEndsNow, CheckpointIsContent, CopiesAreOfThePast,
           tables, objectVars
<1>. QED
    BY <1>1, <1>2, <1>3, <1>4, <1>5 DEF IInv

(* A reply without a lock or a write.                                          *)
LEMMA QuietAnswer ==
    ASSUME IInv, NEW r \in Request, NEW reply \in Reply \ {"constraint"},
           UNCHANGED <<tables, rowLock, history>>,
           handler[r].phase # "locked",
           Answer(r, reply)
    PROVE  IInv'
<1>. DEFINE h == [Idle EXCEPT !.phase = "done", !.reply = reply]
<1>1. h \in Handler /\ h.phase = "done" /\ h.reply = reply
    BY AnsweredType
<1>2. handler' = [handler EXCEPT ![r] = h] /\ readAt' = [readAt EXCEPT ![r] = 0]
    BY DEF Answer
<1>3. handler'[r] = h /\ readAt'[r] = 0
    BY <1>2 DEF IInv, TypeOK
<1>4. ReadsInOrder(r)'
    BY <1>1, <1>3 DEF ReadsInOrder, Reading
<1>. HIDE DEF h
<1>. QED
    BY <1>1, <1>2, <1>4, QuietStep
--------------------------------------------------------------------------------
(* The initial states and the steps without a write.                           *)

LEMMA InitIInv == Init => IInv
<1>. SUFFICES ASSUME Init PROVE IInv
    OBVIOUS
<1>1. /\ revision = 1 /\ title \in Title /\ units = EmptyContent
      /\ DOMAIN versions = {} /\ copies = {} /\ rowLock = Nobody
      /\ history = [n \in {1} |-> [units |-> units, title |-> title]]
      /\ handler = [r \in Request |-> Idle] /\ readAt = [r \in Request |-> 0]
    BY DEF Init, ObjectInit
<1>2. {1} = 1..revision
    BY <1>1
<1>3. history \in [1..revision -> [units : Content, title : Title]]
    BY <1>1, <1>2, IdleType
<1>4. TypeOK
    BY <1>1, <1>3, IdleType DEF TypeOK
<1>5. \A r \in Request : handler[r].phase = "idle" /\ handler[r].reply = "none"
    BY <1>1 DEF Idle
<1>6. \A r \in Request : ReadsInOrder(r) /\ LockedAtExpected(r)
    BY <1>1, <1>5 DEF ReadsInOrder, LockedAtExpected, Reading
<1>7. HistoryEndsNow /\ CheckpointIsContent /\ CopiesAreOfThePast /\ ConstraintsNeverFire
    BY <1>1, <1>5 DEF HistoryEndsNow, CheckpointIsContent, CopiesAreOfThePast,
                      ConstraintsNeverFire
<1>. QED
    BY <1>1, <1>4, <1>6, <1>7 DEF IInv

LEMMA ReceiveKeepsIInv ==
    ASSUME IInv, NEW r \in Request, NEW request \in Handler,
           request.phase = "received", request.reply # "constraint",
           Receive(r, request)
    PROVE  IInv'
<1>1. handler[r].phase = "idle" /\ request.expected \in 1..revision
    BY DEF Receive
<1>2. handler' = [handler EXCEPT ![r] = request] /\ readAt' = readAt
    BY DEF Receive
<1>3. readAt' = [readAt EXCEPT ![r] = readAt[r]] /\ readAt[r] \in Nat
    BY <1>2 DEF IInv, TypeOK
<1>4. handler'[r] = request
    BY <1>2 DEF IInv, TypeOK
<1>5. readAt[r] = 0
    BY <1>1 DEF IInv, ReadsInOrder
<1>6. ReadsInOrder(r)'
    BY <1>1, <1>2, <1>4, <1>5 DEF ReadsInOrder, Reading, Receive, tables, objectVars
<1>. QED
    BY <1>1, <1>2, <1>3, <1>6, QuietStep DEF Receive

LEMMA ArriveKeepsIInv ==
    ASSUME IInv, NEW r \in Request, Arrive(r)
    PROVE  IInv'
<1>1. IInv => \A expected \in 1..revision : expected \in Nat
    BY DEF IInv, TypeOK
<1>2. CASE ReceiveRead(r)
    <2>. DEFINE request == [Idle EXCEPT !.phase = "received", !.kind = "read",
                                        !.expected = 1]
    <2>1. request \in Handler /\ request.phase = "received" /\ request.reply # "constraint"
        BY IdleType DEF Idle, Handler, Phase, Kind
    <2>2. Receive(r, request)
        BY <1>2 DEF ReceiveRead
    <2>. HIDE DEF request
    <2>. QED
        BY <2>1, <2>2, ReceiveKeepsIInv
<1>3. CASE ReceiveWrite(r)
    <2>1. PICK kind \in {"save", "operation"}, delta \in Delta, expected \in 1..revision :
              Receive(r, [Idle EXCEPT !.phase = "received", !.kind = kind,
                                      !.delta = delta, !.expected = expected])
        BY <1>3 DEF ReceiveWrite
    <2>. DEFINE request == [Idle EXCEPT !.phase = "received", !.kind = kind,
                                        !.delta = delta, !.expected = expected]
    <2>2. request \in Handler /\ request.phase = "received" /\ request.reply # "constraint"
        BY <1>1, IdleType DEF Idle, Handler, Phase, Kind
    <2>. HIDE DEF request
    <2>. QED
        BY <2>1, <2>2, ReceiveKeepsIInv DEF request
<1>4. CASE ReceiveCopy(r)
    <2>1. PICK expected \in 1..revision :
              Receive(r, [Idle EXCEPT !.phase = "received", !.kind = "copy",
                                      !.expected = expected])
        BY <1>4 DEF ReceiveCopy
    <2>. DEFINE request == [Idle EXCEPT !.phase = "received", !.kind = "copy",
                                        !.expected = expected]
    <2>2. request \in Handler /\ request.phase = "received" /\ request.reply # "constraint"
        BY <1>1, IdleType DEF Idle, Handler, Phase, Kind
    <2>. HIDE DEF request
    <2>. QED
        BY <2>1, <2>2, ReceiveKeepsIInv DEF request
<1>5. CASE ReceiveTitle(r)
    <2>1. PICK patch \in TitlePatch, expected \in 1..revision :
              Receive(r, [Idle EXCEPT !.phase = "received", !.kind = "title",
                                      !.patch = patch, !.expected = expected])
        BY <1>5 DEF ReceiveTitle
    <2>. DEFINE request == [Idle EXCEPT !.phase = "received", !.kind = "title",
                                        !.patch = patch, !.expected = expected]
    <2>2. request \in Handler /\ request.phase = "received" /\ request.reply # "constraint"
        BY <1>1, IdleType DEF Idle, Handler, Phase, Kind
    <2>. HIDE DEF request
    <2>. QED
        BY <2>1, <2>2, ReceiveKeepsIInv DEF request
<1>. QED
    BY <1>2, <1>3, <1>4, <1>5 DEF Arrive

LEMMA ReadHeadKeepsIInv ==
    ASSUME IInv, NEW r \in Request, ReadHead(r)
    PROVE  IInv'
<1>. DEFINE h == [handler[r] EXCEPT !.phase = "headRead", !.head = revision,
                                    !.loadedTitle = title]
<1>1. handler[r] \in Handler /\ revision \in Nat \ {0} /\ title \in Title
      /\ handler[r].phase = "received" /\ readAt[r] = 0
    BY DEF IInv, TypeOK, ReadHead, ReadsInOrder
<1>2. /\ h \in Handler /\ h.phase = "headRead" /\ h.reply = handler[r].reply
      /\ h.head = revision /\ h.loadedTitle = title /\ h.expected = handler[r].expected
    BY <1>1 DEF Handler, Phase, TitlePatch
<1>3. handler' = [handler EXCEPT ![r] = h] /\ readAt' = readAt
    BY DEF ReadHead, IInv, TypeOK
<1>4. handler'[r] = h /\ readAt' = [readAt EXCEPT ![r] = 0]
    BY <1>1, <1>3 DEF IInv, TypeOK
<1>5. h.expected \in 1..revision /\ history[revision].title = title
    BY <1>1, <1>2 DEF IInv, ReadsInOrder, HistoryEndsNow
<1>. HIDE DEF h
<1>6. h.expected \in Nat
    BY <1>2 DEF Handler
<1>7. ReadsInOrder(r)'
    BY <1>1, <1>2, <1>3, <1>4, <1>5, <1>6
       DEF ReadsInOrder, ReadHead, Reading, tables, objectVars
<1>8. h.reply # "constraint"
    BY <1>2 DEF IInv, ConstraintsNeverFire
<1>9. handler[r].phase # "locked" /\ h.phase # "locked" /\ 0 \in Nat
    BY <1>1, <1>2
<1>10. UNCHANGED <<tables, rowLock, history>>
    BY DEF ReadHead
<1>. QED
    BY <1>2, <1>3, <1>4, <1>7, <1>8, <1>9, <1>10, QuietStep

LEMMA ReadUnitsKeepsIInv ==
    ASSUME IInv, NEW r \in Request, ReadUnits(r)
    PROVE  IInv'
<1>. DEFINE h == [handler[r] EXCEPT !.phase = "unitsRead", !.loaded = units]
<1>1. handler[r] \in Handler /\ revision \in Nat \ {0} /\ units \in Content
      /\ handler[r].phase = "headRead" /\ handler[r].kind # "title"
    BY DEF IInv, TypeOK, ReadUnits
<1>2. /\ h \in Handler /\ h.phase = "unitsRead" /\ h.reply = handler[r].reply
      /\ h.loaded = units /\ h.head = handler[r].head /\ h.kind = handler[r].kind
      /\ h.expected = handler[r].expected /\ h.loadedTitle = handler[r].loadedTitle
    BY <1>1 DEF Handler, Phase
<1>3. /\ handler' = [handler EXCEPT ![r] = h]
      /\ readAt' = [readAt EXCEPT ![r] = revision]
    BY DEF ReadUnits, IInv, TypeOK
<1>4. handler'[r] = h /\ readAt'[r] = revision
    BY <1>1, <1>3 DEF IInv, TypeOK
<1>5. /\ ReadsInOrder(r)
      /\ history[revision].units = units
    BY DEF IInv, HistoryEndsNow
<1>. HIDE DEF h
<1>6. h.expected \in Nat /\ h.head \in Nat
    BY <1>2 DEF Handler
<1>7. ReadsInOrder(r)'
    BY <1>1, <1>2, <1>3, <1>4, <1>5, <1>6
       DEF ReadsInOrder, ReadUnits, Reading, tables, objectVars
<1>8. h.reply # "constraint"
    BY <1>2 DEF IInv, ConstraintsNeverFire
<1>. QED
    BY <1>1, <1>2, <1>3, <1>7, <1>8, QuietStep DEF ReadUnits

LEMMA ReplyToReadKeepsIInv ==
    ASSUME IInv, NEW r \in Request, ReplyToRead(r)
    PROVE  IInv'
<1>. DEFINE h == [handler[r] EXCEPT !.phase = "done", !.reply = "ok"]
<1>1. handler[r] \in Handler /\ handler[r].phase = "unitsRead" /\ ReadsInOrder(r)
    BY DEF IInv, TypeOK, ReplyToRead
<1>2. /\ h \in Handler /\ h.phase = "done" /\ h.reply = "ok"
      /\ h.loaded = handler[r].loaded /\ h.head = handler[r].head
    BY <1>1 DEF Handler, Phase, Reply
<1>3. handler' = [handler EXCEPT ![r] = h] /\ readAt' = [readAt EXCEPT ![r] = readAt[r]]
    BY DEF ReplyToRead, IInv, TypeOK
<1>4. handler'[r] = h /\ readAt'[r] = readAt[r] /\ readAt[r] \in Nat
    BY <1>3 DEF IInv, TypeOK
<1>. HIDE DEF h
<1>5. ReadsInOrder(r)'
    BY <1>1, <1>2, <1>4 DEF ReadsInOrder, ReplyToRead, Reading, tables, objectVars
<1>. QED
    BY <1>1, <1>2, <1>3, <1>4, <1>5, QuietStep DEF ReplyToRead

LEMMA FinishKeepsIInv ==
    ASSUME IInv, NEW r \in Request, Finish(r)
    PROVE  IInv'
<1>1. Idle \in Handler /\ Idle.phase = "idle" /\ Idle.reply = "none"
    BY IdleType DEF Idle
<1>2. handler'[r] = Idle /\ readAt'[r] = 0
    BY DEF Finish, IInv, TypeOK
<1>3. ReadsInOrder(r)'
    BY <1>1, <1>2 DEF ReadsInOrder, Reading
<1>. QED
    BY <1>1, <1>3, QuietStep DEF Finish

LEMMA QuietAnswersKeepIInv ==
    ASSUME IInv, NEW r \in Request, Refuse(r) \/ FailGate(r) \/ FailTitle(r)
    PROVE  IInv'
BY QuietAnswer DEF Refuse, FailGate, FailTitle, AtGate, Reply
--------------------------------------------------------------------------------
(* The transaction.                                                            *)

LEMMA PassGateKeepsIInv ==
    ASSUME IInv, NEW r \in Request, PassGate(r)
    PROVE  IInv'
<1>. DEFINE h == [handler[r] EXCEPT !.phase = "locked"]
<1>1. /\ handler[r] \in Handler /\ handler[r].phase = "unitsRead"
      /\ rowLock = Nobody /\ rowLock' = r /\ revision = handler[r].expected
      /\ ReadsInOrder(r) /\ r # Nobody /\ handler[r].reply # "constraint"
    BY RequestAssumption DEF IInv, TypeOK, PassGate, AtGate, ConstraintsNeverFire
<1>2. /\ h \in Handler /\ h.phase = "locked" /\ h.reply = handler[r].reply
      /\ h.loaded = handler[r].loaded /\ h.head = handler[r].head
      /\ h.expected = handler[r].expected /\ h.kind = handler[r].kind
      /\ h.delta = handler[r].delta /\ h.loadedTitle = handler[r].loadedTitle
    BY <1>1 DEF Handler, Phase
<1>3. handler' = [handler EXCEPT ![r] = h] /\ UNCHANGED <<tables, history, readAt>>
    BY DEF PassGate, IInv, TypeOK
<1>4. handler'[r] = h /\ \A q \in Request \ {r} : handler'[q] = handler[q]
    BY <1>3 DEF IInv, TypeOK
<1>5. \/ h.kind \in {"save", "operation"} /\ CoreAccepts(h.loaded, h.delta)
      \/ h.kind = "copy"
    BY <1>2 DEF PassGate, AtGate
<1>. HIDE DEF h
<1>6. TypeOK'
    BY <1>1, <1>2, <1>3 DEF IInv, TypeOK, tables, objectVars
<1>7. ReadsInOrder(r)' /\ LockedAtExpected(r)'
    BY <1>1, <1>2, <1>3, <1>4, <1>5
       DEF ReadsInOrder, LockedAtExpected, Reading, tables, objectVars
<1>8. ASSUME NEW q \in Request \ {r}
      PROVE  ReadsInOrder(q)' /\ LockedAtExpected(q)'
    <2>1. handler[q].phase # "locked"
        BY <1>1, <1>8, RequestAssumption DEF IInv, LockedAtExpected
    <2>2. HistoryGrows
        BY <1>3 DEF HistoryGrows, IInv, TypeOK, tables, objectVars
    <2>. QED
        BY <2>1, <2>2, <1>3, <1>4, BystanderKeepsPlace DEF IInv
<1>9. (rowLock # Nobody => handler[rowLock].phase = "locked")'
    BY <1>1, <1>2, <1>4
<1>10. ConstraintsNeverFire'
    BY <1>1, <1>2, <1>4 DEF IInv, ConstraintsNeverFire
<1>11. HistoryEndsNow' /\ CheckpointIsContent' /\ CopiesAreOfThePast'
    BY <1>3 DEF IInv, HistoryEndsNow, CheckpointIsContent, CopiesAreOfThePast,
                tables, objectVars
<1>. QED
    BY <1>6, <1>7, <1>8, <1>9, <1>10, <1>11 DEF IInv

(* What is left to show of a step that answers r and lets go of its lock.      *)
TablesKeepIInv ==
    /\ revision' \in Nat \ {0}
    /\ title' \in Title
    /\ units' \in Content
    /\ DOMAIN versions' \subseteq 1..revision'
    /\ \A v \in DOMAIN versions' : versions'[v] \in Content
    /\ copies' \subseteq [source : Nat, title : Title, units : Content]
    /\ history' \in [1..revision' -> [units : Content, title : Title]]
    /\ HistoryGrows
    /\ HistoryEndsNow' /\ CheckpointIsContent' /\ CopiesAreOfThePast'

LEMMA UnlockingAnswer ==
    ASSUME IInv, NEW r \in Request, NEW reply \in Reply \ {"constraint"},
           Answer(r, reply),
           rowLock' = IF rowLock = r THEN Nobody ELSE rowLock,
           rowLock \notin {r, Nobody} => revision' = revision,
           TablesKeepIInv
    PROVE  IInv'
<1>. DEFINE h == [Idle EXCEPT !.phase = "done", !.reply = reply]
<1>1. h \in Handler /\ h.phase = "done" /\ h.reply = reply
    BY AnsweredType
<1>2. handler' = [handler EXCEPT ![r] = h] /\ readAt' = [readAt EXCEPT ![r] = 0]
    BY DEF Answer
<1>. HIDE DEF h
<1>3. /\ handler'[r] = h /\ readAt'[r] = 0
      /\ \A q \in Request \ {r} : handler'[q] = handler[q] /\ readAt'[q] = readAt[q]
    BY <1>2 DEF IInv, TypeOK
<1>4. TypeOK'
    BY <1>1, <1>2 DEF IInv, TypeOK, TablesKeepIInv
<1>5. ReadsInOrder(r)' /\ LockedAtExpected(r)'
    BY <1>1, <1>3 DEF ReadsInOrder, LockedAtExpected, Reading
<1>6. ASSUME NEW q \in Request \ {r}
      PROVE  ReadsInOrder(q)' /\ LockedAtExpected(q)'
    <2>1. handler[q].phase = "locked" => rowLock = q /\ rowLock' = rowLock
                                         /\ revision' = revision
        BY <1>6, RequestAssumption DEF IInv, LockedAtExpected
    <2>. QED
        BY <2>1, <1>3, BystanderKeepsPlace DEF IInv, TablesKeepIInv
<1>7. (rowLock # Nobody => handler[rowLock].phase = "locked")'
    BY <1>3, RequestAssumption DEF IInv, TypeOK
<1>8. ConstraintsNeverFire'
    BY <1>1, <1>3 DEF IInv, ConstraintsNeverFire
<1>. QED
    BY <1>4, <1>5, <1>6, <1>7, <1>8 DEF IInv, TablesKeepIInv

LEMMA SameTablesKeepIInv ==
    ASSUME IInv, UNCHANGED <<tables, history>>
    PROVE  TablesKeepIInv
BY DEF IInv, TypeOK, TablesKeepIInv, HistoryGrows, HistoryEndsNow,
       CheckpointIsContent, CopiesAreOfThePast, tables, objectVars

LEMMA AbortKeepsIInv ==
    ASSUME IInv, NEW r \in Request, Abort(r)
    PROVE  IInv'
<1>1. "failed" \in Reply \ {"constraint"}
    BY DEF Reply
<1>. QED
    BY <1>1, SameTablesKeepIInv, UnlockingAnswer DEF Abort, tables, objectVars

LEMMA CommitCopyKeepsIInv ==
    ASSUME IInv, NEW r \in Request, CommitCopy(r)
    PROVE  IInv'
<1>. DEFINE c == Copy(handler[r].expected, handler[r].loadedTitle, handler[r].loaded)
<1>1. /\ rowLock = r /\ handler[r].expected = revision
      /\ handler[r].loaded = units /\ handler[r].loadedTitle = title
    BY HolderIsFresh DEF CommitCopy
<1>2. c = [source |-> revision, title |-> title, units |-> units]
    BY <1>1 DEF Copy
<1>3. copies' = copies \cup {c} /\ UNCHANGED <<revision, title, units, versions, history>>
    BY DEF CommitCopy
<1>. HIDE DEF c
<1>4. TablesKeepIInv
    BY <1>2, <1>3 DEF IInv, TypeOK, TablesKeepIInv, HistoryGrows, HistoryEndsNow,
                      CheckpointIsContent, CopiesAreOfThePast
<1>5. "ok" \in Reply \ {"constraint"}
    BY DEF Reply
<1>. QED
    BY <1>1, <1>4, <1>5, UnlockingAnswer DEF CommitCopy

(* Appending a revision to the history.                                        *)
LEMMA RecordedExtends ==
    ASSUME IInv, NEW newUnits \in Content, NEW newTitle \in Title,
           revision' = revision + 1,
           history' = Recorded(revision', newUnits, newTitle)
    PROVE  /\ history' \in [1..revision' -> [units : Content, title : Title]]
           /\ HistoryGrows
           /\ history'[revision'].units = newUnits
           /\ history'[revision'].title = newTitle
<1>1. revision \in Nat \ {0} /\ DOMAIN history = 1..revision
      /\ \A n \in 1..revision : history[n] \in [units : Content, title : Title]
    BY DEF IInv, TypeOK
<1>2. 1..revision' = 1..revision \cup {revision'}
    BY <1>1
<1>3. history' = [n \in 1..revision' |->
                     IF n = revision' THEN [units |-> newUnits, title |-> newTitle]
                                      ELSE history[n]]
    BY <1>1, <1>2 DEF Recorded
<1>4. \A n \in 1..revision' : n = revision' \/ n \in 1..revision
    BY <1>2
<1>5. revision' \in 1..revision' /\ \A n \in 1..revision : n \in 1..revision' /\ n # revision'
    BY <1>1
<1>. QED
    BY <1>1, <1>3, <1>4, <1>5 DEF HistoryGrows

LEMMA HolderPassesConstraints ==
    ASSUME IInv, NEW r \in Request, handler[r].phase = "locked",
           handler[r].kind \in {"save", "operation"}
    PROVE  /\ ConstraintsHold(handler[r])
           /\ WrittenUnits(handler[r]) = ApplyDelta(units, handler[r].delta)
           /\ Result(handler[r]) = ApplyDelta(units, handler[r].delta)
           /\ CoreAccepts(units, handler[r].delta)
           /\ ApplyDelta(units, handler[r].delta) \in Content
<1>1. handler[r].loaded = units /\ handler[r].head = revision
    BY HolderIsFresh
<1>2. CoreAccepts(units, handler[r].delta)
    BY <1>1 DEF IInv, LockedAtExpected
<1>3. /\ Result(handler[r]) = ApplyDelta(units, handler[r].delta)
      /\ WrittenUnits(handler[r]) = ApplyDelta(units, handler[r].delta)
    BY <1>1 DEF Result, WrittenUnits
<1>4. handler[r].head + 1 \notin DOMAIN versions
    BY <1>1 DEF IInv, TypeOK
<1>5. ConstraintsHold(handler[r])
    BY <1>2, <1>3, <1>4 DEF ConstraintsHold, CoreAccepts
<1>6. ApplyDelta(units, handler[r].delta) \in Content
    BY ApplyDeltaType DEF IInv, TypeOK, Handler
<1>. QED
    BY <1>2, <1>3, <1>5, <1>6

LEMMA CommitWriteKeepsIInv ==
    ASSUME IInv, NEW r \in Request, CommitWrite(r)
    PROVE  IInv'
<1>. DEFINE h == handler[r]
<1>. DEFINE new == ApplyDelta(units, h.delta)
<1>1. h.phase = "locked" /\ h.kind \in {"save", "operation"}
    BY DEF CommitWrite
<1>2. rowLock = r /\ h.head = revision /\ revision \in Nat \ {0} /\ title \in Title
    BY <1>1, HolderIsFresh DEF IInv, TypeOK
<1>3. ConstraintsHold(h) /\ WrittenUnits(h) = new /\ Result(h) = new /\ new \in Content
    BY <1>1, HolderPassesConstraints
<1>4. Install(h) /\ Answer(r, "ok") /\ rowLock' = Nobody /\ UNCHANGED <<title, copies>>
    BY <1>3 DEF CommitWrite
<1>5. /\ revision' = revision + 1 /\ units' = new
      /\ versions' = Checkpoint(versions, revision', new)
      /\ history' = Recorded(revision', new, title)
    BY <1>2, <1>3, <1>4 DEF Install
<1>6. /\ history' \in [1..revision' -> [units : Content, title : Title]]
      /\ HistoryGrows
      /\ history'[revision'].units = new /\ history'[revision'].title = title
    BY <1>2, <1>3, <1>5, RecordedExtends
<1>. HIDE DEF h, new
<1>7. /\ DOMAIN versions' = DOMAIN versions \cup {revision'}
      /\ versions'[revision'] = new
      /\ \A v \in DOMAIN versions : v # revision' => versions'[v] = versions[v]
    BY <1>5 DEF Checkpoint
<1>8. \A v \in DOMAIN versions : /\ v \in 1..revision /\ v # revision'
                                 /\ versions[v] \in Content
                                 /\ history'[v] = history[v]
    BY <1>2, <1>5, <1>6 DEF IInv, TypeOK, HistoryGrows
<1>9. DOMAIN versions' \subseteq 1..revision'
    BY <1>2, <1>5, <1>7, <1>8
<1>10. CheckpointIsContent'
    BY <1>6, <1>7, <1>8 DEF IInv, CheckpointIsContent
<1>11. CopiesAreOfThePast'
    BY <1>2, <1>4, <1>5, <1>6 DEF IInv, TypeOK, CopiesAreOfThePast, HistoryGrows
<1>12. TablesKeepIInv
    BY <1>2, <1>3, <1>4, <1>5, <1>6, <1>7, <1>8, <1>9, <1>10, <1>11
       DEF IInv, TypeOK, TablesKeepIInv, HistoryEndsNow
<1>13. "ok" \in Reply \ {"constraint"}
    BY DEF Reply
<1>. QED
    BY <1>2, <1>4, <1>12, <1>13, UnlockingAnswer

(* At the UPDATE of a title the row read before is the row that is replaced.   *)
LEMMA TitleIsFresh ==
    ASSUME IInv, NEW r \in Request, CommitTitle(r)
    PROVE  /\ revision' = revision + 1
           /\ title' = PatchedTitle(title, handler[r].patch)
           /\ handler[r].expected = revision
<1>1. /\ handler[r] \in Handler /\ handler[r].phase = "headRead" /\ ReadsInOrder(r)
      /\ handler[r].expected = revision /\ revision \in Nat
    BY DEF CommitTitle, IInv, TypeOK
<1>2. handler[r].head \in Nat
    BY <1>1 DEF Handler
<1>3. handler[r].head = revision
    BY <1>1, <1>2 DEF ReadsInOrder, Reading
<1>4. handler[r].loadedTitle = title
    BY <1>1, <1>3 DEF ReadsInOrder, Reading, IInv, HistoryEndsNow
<1>. QED
    BY <1>1, <1>3, <1>4 DEF CommitTitle

LEMMA CommitTitleKeepsIInv ==
    ASSUME IInv, NEW r \in Request, CommitTitle(r)
    PROVE  IInv'
<1>1. /\ revision \in Nat \ {0} /\ units \in Content /\ title \in Title
      /\ handler[r].patch \in TitlePatch
    BY DEF IInv, TypeOK, Handler
<1>2. revision' = revision + 1 /\ title' \in Title
    BY <1>1, TitleIsFresh, PatchedTitleType
<1>3. /\ history' = Recorded(revision', units, title') /\ rowLock = Nobody
      /\ Answer(r, "ok") /\ UNCHANGED <<units, versions, copies, rowLock>>
    BY DEF CommitTitle
<1>4. /\ history' \in [1..revision' -> [units : Content, title : Title]]
      /\ HistoryGrows
      /\ history'[revision'].units = units /\ history'[revision'].title = title'
    BY <1>1, <1>2, <1>3, RecordedExtends
<1>5. CheckpointIsContent' /\ CopiesAreOfThePast'
    BY <1>1, <1>2, <1>3, <1>4
       DEF IInv, TypeOK, CheckpointIsContent, CopiesAreOfThePast, HistoryGrows
<1>6. DOMAIN versions \subseteq 1..revision'
    BY <1>1, <1>2 DEF IInv, TypeOK
<1>7. TablesKeepIInv
    BY <1>1, <1>2, <1>3, <1>4, <1>5, <1>6 DEF IInv, TypeOK, TablesKeepIInv, HistoryEndsNow
<1>8. "ok" \in Reply \ {"constraint"}
    BY DEF Reply
<1>9. rowLock' = IF rowLock = r THEN Nobody ELSE rowLock
    BY <1>3
<1>. QED
    BY <1>2, <1>3, <1>7, <1>8, <1>9, UnlockingAnswer

--------------------------------------------------------------------------------
(* THEOREMS                                                                    *)

LEMMA NextKeepsIInv == IInv /\ [Next]_vars => IInv'
<1>. SUFFICES ASSUME IInv, [Next]_vars PROVE IInv'
    OBVIOUS
<1>1. CASE UNCHANGED vars
    BY <1>1 DEF vars, tables, objectVars, IInv, TypeOK, HistoryEndsNow, ReadsInOrder,
                LockedAtExpected, CheckpointIsContent, CopiesAreOfThePast,
                ConstraintsNeverFire
<1>2. ASSUME NEW r \in Request, Arrive(r) \/ Advance(r) \/ Gate(r) \/ Abort(r) \/ Finish(r)
      PROVE  IInv'
    <2>1. CASE Arrive(r)
        BY <2>1, ArriveKeepsIInv
    <2>2. CASE Advance(r)
        BY <2>2, ReadHeadKeepsIInv, ReadUnitsKeepsIInv, ReplyToReadKeepsIInv,
           QuietAnswersKeepIInv, CommitWriteKeepsIInv, CommitCopyKeepsIInv DEF Advance
    <2>3. CASE Gate(r)
        BY <2>3, PassGateKeepsIInv, CommitTitleKeepsIInv DEF Gate
    <2>4. CASE Abort(r)
        BY <2>4, AbortKeepsIInv
    <2>5. CASE Finish(r)
        BY <2>5, FinishKeepsIInv
    <2>. QED
        BY <1>2, <2>1, <2>2, <2>3, <2>4, <2>5
<1>. QED
    BY <1>1, <1>2 DEF Next

(* The inductive invariant holds in every reachable state.                     *)
THEOREM StoreInvariant == Spec => []IInv
<1>. QED
    BY InitIInv, NextKeepsIInv, PTL DEF Spec

(* Type correctness.                                                           *)
THEOREM StoreTypes == Spec => []TypeOK
<1>1. IInv => TypeOK
    BY DEF IInv
<1>. QED
    BY <1>1, StoreInvariant, PTL

(* Past the gate a transaction holds what is stored, whatever ran between its  *)
(* reads.                                                                      *)
THEOREM StoreGateMeansFresh == Spec => []GateMeansFresh
<1>1. IInv => GateMeansFresh
    <2>. SUFFICES ASSUME IInv, rowLock # Nobody
                  PROVE  handler[rowLock].loaded = units /\ handler[rowLock].head = revision
        BY DEF GateMeansFresh
    <2>1. rowLock \in Request /\ handler[rowLock].phase = "locked"
        BY DEF IInv, TypeOK
    <2>. QED
        BY <2>1, HolderIsFresh
<1>. QED
    BY <1>1, StoreInvariant, PTL

(* The version log holds the stored contents.                                  *)
THEOREM StoreCheckpoints == Spec => []CheckpointIsContent
<1>1. IInv => CheckpointIsContent
    BY DEF IInv
<1>. QED
    BY <1>1, StoreInvariant, PTL

(* No transaction fails on the position or the version constraint.             *)
THEOREM StoreConstraints == Spec => []ConstraintsNeverFire
<1>1. IInv => ConstraintsNeverFire
    BY DEF IInv
<1>. QED
    BY <1>1, StoreInvariant, PTL

(* Copies are of the revision the client expected.                             *)
THEOREM StoreCopies == Spec => []CopyIsOfExpectedRevision
<1>1. IInv => CopyIsOfExpectedRevision
    BY DEF IInv, CopiesAreOfThePast, CopyIsOfExpectedRevision
<1>. QED
    BY <1>1, StoreInvariant, PTL

(* A torn page load states a revision that is already superseded.              *)
THEOREM StoreTornReads == Spec => []TornReadIsStale
<1>1. IInv => TornReadIsStale
    <2>. SUFFICES ASSUME IInv, NEW r \in Request, readAt[r] # 0,
                         handler[r].loaded # history[handler[r].head].units
                  PROVE  handler[r].head < revision
        BY DEF TornReadIsStale
    <2>1. /\ ReadsInOrder(r) /\ revision \in Nat /\ readAt[r] \in Nat
          /\ handler[r] \in Handler
        BY DEF IInv, TypeOK
    <2>2. handler[r].head \in Nat
        BY <2>1 DEF Handler
    <2>. QED
        BY <2>1, <2>2 DEF ReadsInOrder
<1>. QED
    BY <1>1, StoreInvariant, PTL

(* What the commit of a save or of a structural operation does to the tables   *)
(* is the abstract write.                                                      *)
LEMMA CommitWriteIsWriteContent ==
    ASSUME IInv, NEW r \in Request, CommitWrite(r)
    PROVE  /\ WriteContent(handler[r].delta)
           /\ handler[r].expected = revision /\ revision' = revision + 1
<1>. DEFINE h == handler[r]
<1>1. h.phase = "locked" /\ h.kind \in {"save", "operation"}
    BY DEF CommitWrite
<1>2. h.head = revision /\ h.expected = revision
    BY <1>1, HolderIsFresh
<1>3. /\ ConstraintsHold(h) /\ WrittenUnits(h) = ApplyDelta(units, h.delta)
      /\ Result(h) = ApplyDelta(units, h.delta) /\ CoreAccepts(units, h.delta)
    BY <1>1, HolderPassesConstraints
<1>4. Install(h) /\ UNCHANGED <<title, copies>>
    BY <1>3 DEF CommitWrite
<1>. QED
    BY <1>2, <1>3, <1>4 DEF Install, WriteContent

(* What a step of r does to the handlers.                                      *)
OthersKeep(r) == \A q \in Request \ {r} : handler'[q] = handler[q]

LEMMA AnswerEffect ==
    ASSUME TypeOK, NEW r \in Request, NEW reply \in Reply, Answer(r, reply)
    PROVE  handler'[r].kind = "read" /\ handler'[r].reply = reply /\ OthersKeep(r)
BY DEF Answer, Idle, TypeOK, OthersKeep

LEMMA ArriveEffect ==
    ASSUME TypeOK, NEW r \in Request, Arrive(r)
    PROVE  /\ handler'[r].reply = "none"
           /\ handler'[r].kind \in {"save", "operation"} => handler'[r].delta \in Delta
           /\ OthersKeep(r)
<1>1. CASE ReceiveRead(r)
    BY <1>1 DEF ReceiveRead, Receive, Idle, TypeOK, OthersKeep
<1>2. CASE ReceiveWrite(r)
    BY <1>2 DEF ReceiveWrite, Receive, Idle, TypeOK, OthersKeep
<1>3. CASE ReceiveCopy(r)
    BY <1>3 DEF ReceiveCopy, Receive, Idle, TypeOK, OthersKeep
<1>4. CASE ReceiveTitle(r)
    BY <1>4 DEF ReceiveTitle, Receive, Idle, TypeOK, OthersKeep
<1>. QED
    BY <1>1, <1>2, <1>3, <1>4 DEF Arrive

LEMMA ProgressEffect ==
    ASSUME TypeOK, NEW r \in Request,
           ReadHead(r) \/ ReadUnits(r) \/ ReplyToRead(r) \/ PassGate(r)
    PROVE  /\ handler'[r].kind = handler[r].kind
           /\ handler'[r].delta = handler[r].delta
           /\ handler'[r].reply = handler[r].reply \/ handler[r].kind = "read"
           /\ OthersKeep(r)
<1>1. handler[r] \in Handler /\ handler \in [Request -> Handler]
    BY DEF TypeOK
<1>2. CASE ReadHead(r)
    BY <1>1, <1>2 DEF ReadHead, Handler, OthersKeep
<1>3. CASE ReadUnits(r)
    BY <1>1, <1>3 DEF ReadUnits, Handler, OthersKeep
<1>4. CASE ReplyToRead(r)
    BY <1>1, <1>4 DEF ReplyToRead, Handler, OthersKeep
<1>5. CASE PassGate(r)
    BY <1>1, <1>5 DEF PassGate, Handler, OthersKeep
<1>. QED
    BY <1>2, <1>3, <1>4, <1>5

(* Every other step is an answer, and only a commit answers 200 to a write.    *)
LEMMA EndEffect ==
    ASSUME TypeOK, NEW r \in Request,
           \/ Refuse(r) \/ FailGate(r) \/ FailTitle(r) \/ Abort(r) \/ Finish(r)
           \/ CommitCopy(r) \/ CommitWrite(r) \/ CommitTitle(r)
    PROVE  /\ handler'[r].kind = "read"
           /\ handler'[r].reply = "ok" =>
                  CommitCopy(r) \/ CommitWrite(r) \/ CommitTitle(r)
           /\ OthersKeep(r)
<1>1. CASE Refuse(r) \/ FailGate(r) \/ FailTitle(r) \/ Abort(r)
    BY <1>1, AnswerEffect DEF Refuse, FailGate, FailTitle, Abort, Reply
<1>2. CASE Finish(r)
    BY <1>2 DEF Finish, Idle, TypeOK, OthersKeep
<1>3. CASE CommitCopy(r) \/ CommitTitle(r)
    BY <1>3, AnswerEffect DEF CommitCopy, CommitTitle, Reply
<1>4. CASE CommitWrite(r)
    BY <1>4, AnswerEffect DEF CommitWrite, Reply
<1>. QED
    BY <1>1, <1>2, <1>3, <1>4

LEMMA EveryStep ==
    ASSUME NEW r \in Request, Arrive(r) \/ Advance(r) \/ Gate(r) \/ Abort(r) \/ Finish(r)
    PROVE  \/ Arrive(r)
           \/ ReadHead(r) \/ ReadUnits(r) \/ ReplyToRead(r) \/ PassGate(r)
           \/ Refuse(r) \/ FailGate(r) \/ FailTitle(r) \/ Abort(r) \/ Finish(r)
           \/ CommitCopy(r) \/ CommitWrite(r) \/ CommitTitle(r)
BY DEF Advance, Gate

(* A write carries an operation some client sent.                              *)
DeltasAreSent ==
    \A r \in Request : handler[r].kind \in {"save", "operation"} => handler[r].delta \in Delta

LEMMA DeltasStaySent ==
    ASSUME TypeOK, DeltasAreSent, [Next]_vars
    PROVE  DeltasAreSent'
<1>1. CASE UNCHANGED vars
    BY <1>1 DEF vars, DeltasAreSent
<1>2. ASSUME NEW r \in Request, Arrive(r) \/ Advance(r) \/ Gate(r) \/ Abort(r) \/ Finish(r)
      PROVE  DeltasAreSent'
    <2>1. CASE Arrive(r)
        BY <2>1, ArriveEffect DEF DeltasAreSent, OthersKeep
    <2>2. CASE ReadHead(r) \/ ReadUnits(r) \/ ReplyToRead(r) \/ PassGate(r)
        BY <2>2, ProgressEffect DEF DeltasAreSent, OthersKeep
    <2>3. CASE \/ Refuse(r) \/ FailGate(r) \/ FailTitle(r) \/ Abort(r) \/ Finish(r)
               \/ CommitCopy(r) \/ CommitWrite(r) \/ CommitTitle(r)
        BY <2>3, EndEffect DEF DeltasAreSent, OthersKeep
    <2>. QED
        BY <1>2, <2>1, <2>2, <2>3, EveryStep
<1>. QED
    BY <1>1, <1>2 DEF Next

(* Every step that changes a table is one atomic operation of the register.    *)
LEMMA StepIsRegisterStep ==
    ASSUME IInv, [Next]_vars, DeltasAreSent
    PROVE  [ObjectNext]_objectVars
<1>1. CASE UNCHANGED vars
    BY <1>1 DEF vars, objectVars
<1>2. ASSUME NEW r \in Request, CommitWrite(r)
      PROVE  ObjectNext
    <2>1. WriteContent(handler[r].delta) /\ handler[r].delta \in Delta
        BY <1>2, CommitWriteIsWriteContent DEF DeltasAreSent, CommitWrite
    <2>. QED
        BY <2>1 DEF ObjectNext
<1>3. ASSUME NEW r \in Request, CommitCopy(r)
      PROVE  ObjectNext
    BY <1>3, HolderIsFresh DEF CommitCopy, ObjectNext, Materialize
<1>4. ASSUME NEW r \in Request, CommitTitle(r)
      PROVE  ObjectNext
    <2>1. handler[r].patch \in TitlePatch
        BY DEF IInv, TypeOK, Handler
    <2>2. Retitle(handler[r].patch)
        BY <1>4, TitleIsFresh DEF Retitle, CommitTitle
    <2>. QED
        BY <2>1, <2>2 DEF ObjectNext
<1>5. ASSUME NEW r \in Request, Arrive(r) \/ Advance(r) \/ Gate(r) \/ Abort(r) \/ Finish(r),
             ~CommitWrite(r), ~CommitCopy(r), ~CommitTitle(r)
      PROVE  UNCHANGED objectVars
    <2>1. CASE Arrive(r)
        BY <2>1 DEF Arrive, ReceiveRead, ReceiveWrite, ReceiveCopy, ReceiveTitle,
                    Receive, tables
    <2>2. CASE Advance(r)
        BY <2>2, <1>5 DEF Advance, ReadHead, ReadUnits, ReplyToRead, Refuse, FailGate,
                          FailTitle, tables
    <2>3. CASE Gate(r)
        BY <2>3, <1>5 DEF Gate, PassGate, tables
    <2>4. CASE Abort(r) \/ Finish(r)
        BY <2>4 DEF Abort, Finish, tables
    <2>. QED
        BY <1>5, <2>1, <2>2, <2>3, <2>4
<1>. QED
    BY <1>1, <1>2, <1>3, <1>4, <1>5 DEF Next

(* The store implements the revisioned register.                               *)
THEOREM StoreImplementsRegister == Spec => ImplementsRegister
<1>1. Init => ObjectInit /\ DeltasAreSent
    BY DEF Init, DeltasAreSent, Idle
<1>2. Spec => []DeltasAreSent
    <2>1. TypeOK /\ DeltasAreSent /\ [Next]_vars => DeltasAreSent'
        BY DeltasStaySent
    <2>. QED
        BY <1>1, <2>1, StoreTypes, PTL DEF Spec
<1>3. IInv /\ DeltasAreSent /\ [Next]_vars => [ObjectNext]_objectVars
    BY StepIsRegisterStep
<1>. QED
    BY <1>1, <1>2, <1>3, StoreInvariant, PTL DEF Spec, ImplementsRegister, ObjectSpec

(* Only a commit answers 200 to a write.                                       *)
LEMMA OnlyCommitsWin ==
    ASSUME TypeOK, NEW r \in Request, Won(r), Next
    PROVE  CommitWrite(r) \/ CommitTitle(r)
<1>1. PICK q \in Request : Arrive(q) \/ Advance(q) \/ Gate(q) \/ Abort(q) \/ Finish(q)
    BY DEF Next
<1>2. CASE q # r
    <2>1. OthersKeep(q)
        BY <1>1, EveryStep, ArriveEffect, ProgressEffect, EndEffect
    <2>. QED
        BY <1>2, <2>1 DEF OthersKeep, Won
<1>3. CASE q = r
    <2>1. CASE Arrive(r)
        BY <2>1, ArriveEffect DEF Won
    <2>2. CASE ReadHead(r) \/ ReadUnits(r) \/ ReplyToRead(r) \/ PassGate(r)
        BY <2>2, ProgressEffect DEF Won
    <2>3. CASE \/ Refuse(r) \/ FailGate(r) \/ FailTitle(r) \/ Abort(r) \/ Finish(r)
               \/ CommitCopy(r) \/ CommitWrite(r) \/ CommitTitle(r)
        BY <2>3, EndEffect DEF Won, CommitCopy
    <2>. QED
        BY <1>1, <1>3, <2>1, <2>2, <2>3, EveryStep
<1>. QED
    BY <1>2, <1>3

(* A write answered 200 replaced exactly the revision its client expected.     *)
THEOREM StoreWinner == Spec => WinnerReplacedExpected
<1>1. ASSUME IInv, Next, NEW r \in Request, Won(r)
      PROVE  revision = handler[r].expected /\ revision' = revision + 1
    BY <1>1, OnlyCommitsWin, CommitWriteIsWriteContent, TitleIsFresh DEF IInv
<1>2. IInv /\ [Next]_vars =>
          [\A r \in Request : Won(r) =>
              revision = handler[r].expected /\ revision' = revision + 1]_vars
    BY <1>1
<1>. QED
    BY <1>2, StoreInvariant, PTL DEF Spec, WinnerReplacedExpected

(* Nothing visible changes without a new revision; checkpoints are permanent.  *)
THEOREM StoreChanges == Spec => ChangeRaisesRevision
<1>. DEFINE Permanent == \A n \in DOMAIN versions :
                             n \in DOMAIN versions' /\ versions'[n] = versions[n]
<1>1. ASSUME IInv, ObjectNext
      PROVE  (units' # units \/ title' # title => revision' = revision + 1) /\ Permanent
    <2>1. \A n \in DOMAIN versions : n # revision + 1
        BY <1>1 DEF IInv, TypeOK
    <2>2. CASE \E delta \in Delta : WriteContent(delta)
        BY <2>1, <2>2 DEF WriteContent, Checkpoint
    <2>3. CASE \E patch \in TitlePatch : Retitle(patch)
        BY <2>3 DEF Retitle
    <2>4. CASE Materialize
        BY <2>4 DEF Materialize
    <2>. QED
        BY <1>1, <2>2, <2>3, <2>4 DEF ObjectNext
<1>2. IInv /\ [ObjectNext]_objectVars =>
          [(units' # units \/ title' # title => revision' = revision + 1) /\ Permanent]_vars
    BY <1>1 DEF objectVars
<1>. QED
    BY <1>2, StoreInvariant, StoreImplementsRegister, PTL
       DEF ChangeRaisesRevision, ImplementsRegister, ObjectSpec
================================================================================
