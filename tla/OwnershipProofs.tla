----------------------------- MODULE OwnershipProofs ---------------------------
(* What is proved of Ownership for any requests, objects and units: a handler   *)
(* that got past its gates writes what it computed from the content as it is    *)
(* now, and so no move can drop an embed that somebody else made meanwhile.     *)
EXTENDS Ownership, FiniteSetTheorems, TLAPS

--------------------------------------------------------------------------------
(* The core's operations keep what an embed shows, and file what they give back *)
(* under the right object.                                                      *)

Rows(c) == \A u \in DOMAIN c : IsRow(c[u])

LEMMA NumberedKeeps ==
    ASSUME NEW c, NEW S, NEW v \in DOMAIN c, IsRow(c[v])
    PROVE  /\ IsRow(Tree!Numbered(c, S)[v])
           /\ Tree!Numbered(c, S)[v].object = c[v].object
           /\ Tree!Numbered(c, S)[v].shows = c[v].shows
           /\ Tree!Numbered(c, S)[v].cites = c[v].cites
  BY DEF Tree!Numbered, IsRow

LEMMA MovedRows ==
    ASSUME NEW c, Rows(c), NEW root \in DOMAIN c, NEW n
    PROVE  /\ DOMAIN Moved(c, root, n) = Tree!Subtree(c, root)
           /\ \A u \in DOMAIN Moved(c, root, n) :
                /\ IsRow(Moved(c, root, n)[u])
                /\ Moved(c, root, n)[u].object = n
                /\ Moved(c, root, n)[u].shows = c[u].shows
                /\ Moved(c, root, n)[u].cites = c[u].cites
  <1> DEFINE S == Tree!Subtree(c, root)
             out == [u \in S |-> [c[u] EXCEPT !.object = n,
                                             !.parent = IF u = root THEN None ELSE @]]
  <1>1. S \subseteq DOMAIN c
    BY DEF Tree!Subtree
  <1>2. ASSUME NEW u \in S
        PROVE  /\ IsRow(out[u]) /\ out[u].object = n
               /\ out[u].shows = c[u].shows /\ out[u].cites = c[u].cites
    <2>1. IsRow(c[u])
      BY <1>1 DEF Rows
    <2> QED BY <2>1 DEF IsRow
  <1>3. DOMAIN out = S
    OBVIOUS
  <1>4. Moved(c, root, n) = Tree!Numbered(out, {root})
    BY DEF Moved
  <1>5. DOMAIN Tree!Numbered(out, {root}) = S
    BY DEF Tree!Numbered
  <1> HIDE DEF S, out
  <1>6. ASSUME NEW u \in S
        PROVE  /\ IsRow(Tree!Numbered(out, {root})[u])
               /\ Tree!Numbered(out, {root})[u].object = n
               /\ Tree!Numbered(out, {root})[u].shows = c[u].shows
               /\ Tree!Numbered(out, {root})[u].cites = c[u].cites
    BY <1>2, <1>3, NumberedKeeps
  <1> QED BY <1>4, <1>5, <1>6 DEF S

HostShape(c, root, n, e) ==
    /\ DOMAIN HostWithout(c, root, n, e) = (DOMAIN c \ Tree!Subtree(c, root)) \cup {e}
    /\ \A u \in DOMAIN HostWithout(c, root, n, e) :
          /\ IsRow(HostWithout(c, root, n, e)[u])
          /\ HostWithout(c, root, n, e)[u].object = IF u = e THEN c[root].object ELSE c[u].object
          /\ HostWithout(c, root, n, e)[u].shows = IF u = e THEN n ELSE c[u].shows
          /\ HostWithout(c, root, n, e)[u].cites = IF u = e THEN None ELSE c[u].cites

LEMMA HostRows ==
    ASSUME NEW c, Rows(c), NEW root \in DOMAIN c, NEW n, NEW e
    PROVE  HostShape(c, root, n, e)
  <1> DEFINE D == (DOMAIN c \ Tree!Subtree(c, root)) \cup {e}
             out == [u \in D |-> IF u = e THEN [c[root] EXCEPT !.shows = n, !.cites = None]
                                 ELSE c[u]]
  <1>1. ASSUME NEW u \in D
        PROVE  /\ IsRow(out[u])
               /\ out[u].object = IF u = e THEN c[root].object ELSE c[u].object
               /\ out[u].shows = IF u = e THEN n ELSE c[u].shows
               /\ out[u].cites = IF u = e THEN None ELSE c[u].cites
    <2>1. IsRow(c[root])
      BY DEF Rows
    <2>2. u # e => IsRow(c[u])
      BY DEF Rows
    <2> QED BY <2>1, <2>2 DEF IsRow
  <1>2. DOMAIN out = D
    OBVIOUS
  <1>3. HostWithout(c, root, n, e) = Tree!Numbered(out, Tree!Kids(out, c[root].parent))
    BY DEF HostWithout
  <1>4. DOMAIN Tree!Numbered(out, Tree!Kids(out, c[root].parent)) = D
    BY DEF Tree!Numbered
  <1> HIDE DEF D, out
  <1>5. \A u \in D :
            /\ IsRow(HostWithout(c, root, n, e)[u])
            /\ HostWithout(c, root, n, e)[u].object = IF u = e THEN c[root].object ELSE c[u].object
            /\ HostWithout(c, root, n, e)[u].shows = IF u = e THEN n ELSE c[u].shows
            /\ HostWithout(c, root, n, e)[u].cites = IF u = e THEN None ELSE c[u].cites
    BY <1>1, <1>2, <1>3, NumberedKeeps
  <1> QED BY <1>3, <1>4, <1>5 DEF D, HostShape

FoldedShape(c, e, d, h) ==
    /\ DOMAIN Folded(c, e, d) = (DOMAIN c \ {e}) \cup DOMAIN d
    /\ \A u \in DOMAIN Folded(c, e, d) :
          /\ IsRow(Folded(c, e, d)[u])
          /\ Folded(c, e, d)[u].object = h
          /\ u \in DOMAIN c => /\ Folded(c, e, d)[u].shows = c[u].shows
                              /\ Folded(c, e, d)[u].cites = c[u].cites
          /\ u \in DOMAIN d => /\ Folded(c, e, d)[u].shows = d[u].shows
                              /\ Folded(c, e, d)[u].cites = d[u].cites

LEMMA FoldedRows ==
    ASSUME NEW c, NEW d, Rows(c), Rows(d), NEW e \in DOMAIN c, NEW h,
           \A u \in DOMAIN c : c[u].object = h,
           \A u \in DOMAIN c \cap DOMAIN d : c[u] = d[u]
    PROVE  FoldedShape(c, e, d, h)
  <1>1. DOMAIN Folded(c, e, d) = (DOMAIN c \ {e}) \cup DOMAIN d
    BY DEF Folded
  <1> DEFINE family == Tree!Kids(c, c[e].parent) \ {e}
             roots == Tree!Kids(d, None)
             before(v) ==
                IF v \in roots
                THEN {w \in family : c[w].pos < c[e].pos} \cup {w \in roots : d[w].pos < d[v].pos}
                ELSE {w \in family : c[w].pos < c[v].pos}
                        \cup (IF c[v].pos > c[e].pos THEN roots ELSE {})
             place(u) == Cardinality(before(u))
  <1>2. ASSUME NEW u \in (DOMAIN c \ {e}) \cup DOMAIN d
        PROVE  \/ /\ u \in DOMAIN c
                  /\ \/ Folded(c, e, d)[u] = c[u]
                     \/ Folded(c, e, d)[u] = [c[u] EXCEPT !.pos = place(u)]
               \/ /\ u \in DOMAIN d
                  /\ \/ Folded(c, e, d)[u] = [d[u] EXCEPT !.object = h]
                     \/ Folded(c, e, d)[u] =
                            [d[u] EXCEPT !.object = h, !.parent = c[e].parent, !.pos = place(u)]
    <2>1. Folded(c, e, d)[u] =
            CASE u \in roots -> [d[u] EXCEPT !.object = c[e].object, !.parent = c[e].parent,
                                             !.pos = place(u)]
              [] u \in DOMAIN d \ roots -> [d[u] EXCEPT !.object = c[e].object]
              [] u \in family -> [c[u] EXCEPT !.pos = place(u)]
              [] OTHER -> c[u]
      BY DEF Folded
    <2>2. c[e].object = h
      OBVIOUS
    <2>3. roots \subseteq DOMAIN d /\ family \subseteq DOMAIN c
      BY DEF Tree!Kids
    <2> HIDE DEF family, roots, place
    <2> QED BY <2>1, <2>2, <2>3
  <1>3. ASSUME NEW u \in (DOMAIN c \ {e}) \cup DOMAIN d
        PROVE  /\ IsRow(Folded(c, e, d)[u])
               /\ Folded(c, e, d)[u].object = h
               /\ u \in DOMAIN c => /\ Folded(c, e, d)[u].shows = c[u].shows
                                   /\ Folded(c, e, d)[u].cites = c[u].cites
               /\ u \in DOMAIN d => /\ Folded(c, e, d)[u].shows = d[u].shows
                                   /\ Folded(c, e, d)[u].cites = d[u].cites
    <2>1. u \in DOMAIN c => IsRow(c[u]) /\ c[u].object = h
      BY DEF Rows
    <2>2. u \in DOMAIN d => IsRow(d[u])
      BY DEF Rows
    <2>3. u \in DOMAIN c /\ u \in DOMAIN d => c[u] = d[u]
      OBVIOUS
    <2> HIDE DEF place
    <2>4. PICK row, parent, pos : row = Folded(c, e, d)[u] /\ parent = c[e].parent /\ pos = place(u)
      OBVIOUS
    <2>5. CASE u \in DOMAIN c /\ (row = c[u] \/ row = [c[u] EXCEPT !.pos = pos])
      <3>1. /\ IsRow(row) /\ row.object = h
            /\ row.shows = c[u].shows /\ row.cites = c[u].cites
        BY <2>1, <2>5 DEF IsRow
      <3> QED BY <2>3, <2>4, <2>5, <3>1
    <2>6. CASE /\ u \in DOMAIN d
               /\ \/ row = [d[u] EXCEPT !.object = h]
                  \/ row = [d[u] EXCEPT !.object = h, !.parent = parent, !.pos = pos]
      <3>1. /\ IsRow(row) /\ row.object = h
            /\ row.shows = d[u].shows /\ row.cites = d[u].cites
        BY <2>2, <2>6 DEF IsRow
      <3> QED BY <2>3, <2>4, <2>6, <3>1
    <2> QED BY <1>2, <2>4, <2>5, <2>6
  <1> QED BY <1>1, <1>3 DEF FoldedShape

--------------------------------------------------------------------------------
(* The inductive invariant.  Ids are never given out twice, so that an object   *)
(* that is gone does not come back.  As long as its revision is the one a       *)
(* handler expects, an object has the content the handler has read.  Who is     *)
(* past a gate has the row, so that the revision stays the expected one.        *)

IsRequest(q) ==
    q = [pc |-> q.pc, op |-> q.op, object |-> q.object, other |-> q.other, root |-> q.root,
         cite |-> q.cite, host |-> q.host, folded |-> q.folded, expected |-> q.expected,
         expectedOther |-> q.expectedOther, reply |-> q.reply]

Tables ==
    /\ db = [rev |-> db.rev, unit |-> db.unit, link |-> db.link, derived |-> db.derived,
             named |-> db.named, braced |-> db.braced, units |-> db.units,
             objects |-> db.objects, captured |-> db.captured]
    /\ db.units \in Nat
    /\ db.objects \in Nat
    /\ Live \subseteq 1..db.objects
    /\ \A o \in Live : db.rev[o] \in Int
    /\ DOMAIN db.unit \subseteq 1..db.units
    /\ DOMAIN Start \subseteq 1..db.units
    /\ Rows(db.unit)
    /\ \A u \in DOMAIN db.unit : db.unit[u].object \in Live
    /\ \A u \in DOMAIN db.unit \cap DOMAIN Start : db.unit[u].shows = None
    /\ db.captured \subseteq Int

Reading(q) ==
    /\ q.object \in 1..db.objects
    /\ q.expected \in Int
    /\ q.object \in Live => q.expected <= db.rev[q.object]
    /\ Current(q.object, q.expected) => q.host = Content(q.object)
    /\ q.op \in {"rehome", "save", "delete"} => q.root \in DOMAIN q.host
    /\ q.op = "delete" => q.root \in Deleted

ReadingOther(q) ==
    /\ q.other \in 1..db.objects
    /\ q.expectedOther \in Int
    /\ q.other \in Live => q.expectedOther <= db.rev[q.other]
    /\ q.pc # "reading" /\ Current(q.other, q.expectedOther) => q.folded = Content(q.other)

Known(q) ==
    /\ IsRequest(q)
    /\ q.pc # "idle" => Reading(q)
    /\ q.pc # "idle" /\ q.op = "dissolve" => ReadingOther(q)

Locks(r, o) == \E l \in lock : l.object = o /\ l.by = r

PastGates(r) ==
    /\ req[r].pc = "locked" =>
            Current(req[r].object, req[r].expected) /\ Locks(r, req[r].object)
    /\ req[r].op = "dissolve" /\ req[r].pc \in {"lockedOther", "locked"} =>
            req[r].other \notin Live \/ Locks(r, req[r].other)

Exclusive == \A l, m \in lock : l.object = m.object => l.by = m.by

Handlers ==
    /\ req = [r \in Request |-> req[r]]
    /\ \A r \in Request : Known(req[r]) /\ PastGates(r)
    /\ Exclusive

Shown(o) == \E u \in DOMAIN db.unit : db.unit[u].shows = o

AllShown == \A o \in db.captured : Shown(o)

IInv == Tables /\ Handlers /\ AllShown

--------------------------------------------------------------------------------
(* What a handler does to the objects whose rows it holds disturbs no other     *)
(* handler that is past its gates, and the revision tells the rest.             *)
LEMMA OthersKeep ==
    ASSUME Tables, Handlers, NEW r \in Request, NEW reply, Answer(r, reply), NEW objects,
           \A o \in objects \cap Live : Locks(r, o),
           db.objects \in Nat, db'.objects \in Nat, db.objects <= db'.objects,
           \A o \in Live' \ Live : o > db.objects,
           \A o \in Live' : db'.rev[o] \in Int,
           \A o \in Live \ objects :
                o \in Live' /\ db'.rev[o] = db.rev[o] /\ Content(o)' = Content(o),
           \A o \in objects \cap Live \cap Live' : db'.rev[o] > db.rev[o]
    PROVE  Handlers'
  <1>1. req' = [s \in Request |-> req'[s]]
    BY DEF Answer, Handlers
  <1>2. req'[r] = [Idle EXCEPT !.reply = reply]
    BY DEF Answer, Handlers
  <1>3. Known(req[r])' /\ PastGates(r)'
    BY <1>2 DEF Known, PastGates, IsRequest, Idle
  <1>4. ASSUME NEW s \in Request, s # r
        PROVE  Known(req[s])' /\ PastGates(s)'
    <2>1. PICK q : q = req[s] /\ q = req'[s]
      BY <1>4 DEF Answer, Handlers
    <2>2. Known(q) /\ PastGates(s)
      BY <2>1 DEF Handlers
    <2>3. ASSUME NEW o \in 1..db.objects, NEW n \in Int, o \in Live => n <= db.rev[o]
          PROVE  /\ o \in Live' => o \in Live /\ n <= db'.rev[o]
                 /\ Current(o, n)' => Current(o, n) /\ Content(o)' = Content(o)
      <3>1. o \in Live' => o \in Live
        BY DEF Tables
      <3>2. o \in Live => db.rev[o] \in Int
        BY DEF Tables
      <3> QED BY <2>3, <3>1, <3>2 DEF Current
    <2>4. Known(q)'
      <3>1. IsRequest(q)
        BY <2>2 DEF Known
      <3>2. q.pc # "idle" => Reading(q)'
        BY <2>2, <2>3 DEF Known, Reading
      <3>3. q.pc # "idle" /\ q.op = "dissolve" => ReadingOther(q)'
        BY <2>2, <2>3 DEF Known, ReadingOther
      <3> QED BY <3>1, <3>2, <3>3 DEF Known, IsRequest
    <2>5. ASSUME NEW o, Locks(s, o)
          PROVE  Locks(s, o)' /\ (o \in Live => o \notin objects)
      BY <1>4, <2>5 DEF Locks, Answer, Handlers, Exclusive
    <2>6. PastGates(s)'
      <3>1. q.pc = "locked" => Current(q.object, q.expected)' /\ Locks(s, q.object)'
        BY <2>1, <2>2, <2>5 DEF PastGates, Current
      <3>2. q.op = "dissolve" /\ q.pc \in {"lockedOther", "locked"} =>
                q.other \notin Live' \/ Locks(s, q.other)'
        <4>1. q.op = "dissolve" /\ q.pc \in {"lockedOther", "locked"} => q.other \in 1..db.objects
          BY <2>2 DEF Known, ReadingOther
        <4>2. q.op = "dissolve" /\ q.pc \in {"lockedOther", "locked"} =>
                q.other \notin Live \/ Locks(s, q.other)
          BY <2>1, <2>2 DEF PastGates
        <4>3. q.other \in 1..db.objects /\ q.other \notin Live => q.other \notin Live'
          OBVIOUS
        <4> QED BY <2>5, <4>1, <4>2, <4>3
      <3> QED BY <2>1, <3>1, <3>2 DEF PastGates
    <2> QED BY <2>1, <2>4, <2>6
  <1>5. Exclusive'
    BY DEF Answer, Handlers, Exclusive
  <1> QED BY <1>1, <1>3, <1>4, <1>5 DEF Handlers

LEMMA RefuseKeeps ==
    ASSUME IInv, NEW r \in Request, NEW reply, Refuse(r, reply)
    PROVE  IInv'
  <1>1. Tables' /\ AllShown'
    BY DEF IInv, Refuse, Tables, AllShown, Shown, Live, Rows
  <1>2. \A o \in Live : o \in Live' /\ db'.rev[o] = db.rev[o] /\ Content(o)' = Content(o)
    BY DEF Refuse, Live, Content
  <1>3. Handlers'
    <2>1. Live' = Live /\ db' = db /\ Answer(r, reply)
      BY DEF Refuse, Live
    <2>2. db.objects \in Nat /\ \A o \in Live : db.rev[o] \in Int
      BY DEF IInv, Tables
    <2>3. Tables /\ Handlers
      BY DEF IInv
    <2> DEFINE none == {}
    <2>4. /\ \A o \in none \cap Live : Locks(r, o)
          /\ \A o \in none \cap Live \cap Live' : db'.rev[o] > db.rev[o]
          /\ \A o \in Live' \ Live : o > db.objects
          /\ \A o \in Live' : db'.rev[o] \in Int
          /\ db'.objects \in Nat /\ db.objects <= db'.objects
      BY <2>1, <2>2
    <2> HIDE DEF none
    <2> QED BY <1>2, <2>1, <2>2, <2>3, <2>4, OthersKeep
  <1> QED BY <1>1, <1>3 DEF IInv

--------------------------------------------------------------------------------
(* Steps that only read, wait or lock.                                          *)

LEMMA TablesStay ==
    ASSUME Tables, AllShown, UNCHANGED db
    PROVE  /\ Tables' /\ AllShown'
           /\ Live' = Live
           /\ \A q : Known(q) => Known(q)'
  BY DEF Tables, AllShown, Shown, Live, Rows, Known, Reading, ReadingOther, Current, Content

LEMMA ReceiveKeeps ==
    ASSUME IInv, NEW r \in Request, NEW o \in Live, NEW request, Receive(r, o, request),
           IsRequest(request),
           request.pc \in {"reading", "ready"},
           request.op \in {"rehome", "save", "delete"} => request.root \in DOMAIN Content(o),
           request.op = "delete" => request.root \in Deleted,
           request.op = "dissolve" =>
                /\ request.pc = "reading"
                /\ request.other \in Live
                /\ request.expectedOther = db.rev[request.other]
    PROVE  IInv'
  <1>1. /\ Tables' /\ AllShown' /\ Live' = Live
        /\ \A q : Known(q) => Known(q)'
    BY TablesStay DEF IInv, Receive
  <1>2. PICK q : q = [request EXCEPT !.object = o, !.expected = db.rev[o], !.host = Content(o)]
    OBVIOUS
  <1>3. /\ IsRequest(q)
        /\ q.pc = request.pc /\ q.op = request.op /\ q.root = request.root
        /\ q.object = o /\ q.expected = db.rev[o] /\ q.host = Content(o)
        /\ q.other = request.other /\ q.expectedOther = request.expectedOther
    BY <1>2 DEF IsRequest
  <1>4. o \in 1..db.objects /\ db.rev[o] \in Int
    BY DEF IInv, Tables
  <1>5. Known(q)
    <2>1. Reading(q)
      BY <1>3, <1>4 DEF Reading
    <2>2. q.op = "dissolve" => ReadingOther(q)
      BY <1>3 DEF ReadingOther, IInv, Tables
    <2> QED BY <1>3, <2>1, <2>2 DEF Known
  <1>6. req' = [req EXCEPT ![r] = q] /\ lock' = lock
    BY <1>2 DEF Receive
  <1>7. ASSUME NEW s \in Request
        PROVE  Known(req[s])' /\ PastGates(s)'
    <2>1. CASE s = r
      <3>1. req'[s] = q
        BY <1>6, <2>1 DEF IInv, Handlers
      <3>2. Known(q)'
        BY <1>1, <1>5
      <3> QED BY <1>3, <3>1, <3>2 DEF PastGates, Known
    <2>2. CASE s # r
      <3>1. PICK p : p = req[s] /\ p = req'[s]
        BY <1>6, <2>2 DEF IInv, Handlers
      <3>2. Known(p)' /\ PastGates(s)
        BY <1>1, <3>1 DEF IInv, Handlers
      <3> QED BY <1>6, <3>1, <3>2, <1>1 DEF PastGates, Known, Current, Locks, Live, Receive
    <2> QED BY <2>1, <2>2
  <1>8. req' = [s \in Request |-> req'[s]] /\ Exclusive'
    BY <1>6 DEF IInv, Handlers, Exclusive
  <1> QED BY <1>1, <1>7, <1>8 DEF IInv, Handlers

LEMMA ArriveKeeps ==
    ASSUME IInv, NEW r \in Request, Arrive(r)
    PROVE  IInv'
  <1>1. \A u \in DOMAIN db.unit :
            /\ db.unit[u].object \in Live
            /\ u \in DOMAIN Content(db.unit[u].object)
    BY DEF IInv, Tables, Content
  <1>2. CASE ReceiveRehome(r)
    <2>1. PICK u \in DOMAIN db.unit :
            Receive(r, db.unit[u].object, [Idle EXCEPT !.pc = "ready", !.op = "rehome", !.root = u])
      BY <1>2 DEF ReceiveRehome
    <2>2. PICK q : q = [Idle EXCEPT !.pc = "ready", !.op = "rehome", !.root = u]
      OBVIOUS
    <2>3. IsRequest(q) /\ q.pc = "ready" /\ q.op = "rehome" /\ q.root = u
      BY <2>2 DEF IsRequest, Idle
    <2> QED BY <1>1, <2>1, <2>2, <2>3, ReceiveKeeps
  <1>3. CASE ReceiveDissolve(r)
    <2>1. PICK o \in Live, d \in Live \ Days :
            Receive(r, o, [Idle EXCEPT !.pc = "reading", !.op = "dissolve", !.other = d,
                                       !.expectedOther = db.rev[d]])
      BY <1>3 DEF ReceiveDissolve
    <2>2. PICK q : q = [Idle EXCEPT !.pc = "reading", !.op = "dissolve", !.other = d,
                                    !.expectedOther = db.rev[d]]
      OBVIOUS
    <2>3. /\ IsRequest(q) /\ q.pc = "reading" /\ q.op = "dissolve"
          /\ q.other = d /\ q.expectedOther = db.rev[d]
      BY <2>2 DEF IsRequest, Idle
    <2> QED BY <2>1, <2>2, <2>3, ReceiveKeeps
  <1>4. CASE ReceiveCopy(r)
    <2>1. PICK o \in Live \ Days : Receive(r, o, [Idle EXCEPT !.pc = "ready", !.op = "copy"])
      BY <1>4 DEF ReceiveCopy
    <2>2. PICK q : q = [Idle EXCEPT !.pc = "ready", !.op = "copy"]
      OBVIOUS
    <2>3. IsRequest(q) /\ q.pc = "ready" /\ q.op = "copy"
      BY <2>2 DEF IsRequest, Idle
    <2> QED BY <2>1, <2>2, <2>3, ReceiveKeeps
  <1>5. CASE ReceiveSave(r)
    <2>1. PICK u \in DOMAIN db.unit :
            Receive(r, db.unit[u].object, [Idle EXCEPT !.pc = "ready", !.op = "save", !.root = u,
                                                       !.cite = db.unit[u].cites])
      BY <1>5 DEF ReceiveSave
    <2>2. PICK q : q = [Idle EXCEPT !.pc = "ready", !.op = "save", !.root = u,
                                    !.cite = db.unit[u].cites]
      OBVIOUS
    <2>3. IsRequest(q) /\ q.pc = "ready" /\ q.op = "save" /\ q.root = u
      BY <2>2 DEF IsRequest, Idle
    <2> QED BY <1>1, <2>1, <2>2, <2>3, ReceiveKeeps
  <1>6. CASE ReceiveCite(r)
    <2>1. PICK u, cite :
            /\ u \in DOMAIN db.unit
            /\ Receive(r, db.unit[u].object, [Idle EXCEPT !.pc = "ready", !.op = "save",
                                                          !.root = u, !.cite = cite])
      BY <1>6 DEF ReceiveCite
    <2>2. PICK q : q = [Idle EXCEPT !.pc = "ready", !.op = "save", !.root = u, !.cite = cite]
      OBVIOUS
    <2>3. IsRequest(q) /\ q.pc = "ready" /\ q.op = "save" /\ q.root = u
      BY <2>2 DEF IsRequest, Idle
    <2> QED BY <1>1, <2>1, <2>2, <2>3, ReceiveKeeps
  <1>7. CASE ReceiveDelete(r)
    <2>1. PICK u \in DOMAIN db.unit \cap Deleted :
            Receive(r, db.unit[u].object, [Idle EXCEPT !.pc = "ready", !.op = "delete", !.root = u])
      BY <1>7 DEF ReceiveDelete
    <2>2. PICK q : q = [Idle EXCEPT !.pc = "ready", !.op = "delete", !.root = u]
      OBVIOUS
    <2>3. IsRequest(q) /\ q.pc = "ready" /\ q.op = "delete" /\ q.root = u
      BY <2>2 DEF IsRequest, Idle
    <2> QED BY <1>1, <2>1, <2>2, <2>3, ReceiveKeeps
  <1> QED BY <1>2, <1>3, <1>4, <1>5, <1>6, <1>7 DEF Arrive

(* A step of one handler that leaves the tables alone, and takes locks nobody    *)
(* else has.                                                                    *)
LEMMA HandlerMoves ==
    ASSUME IInv, UNCHANGED db, NEW r \in Request, NEW q,
           req' = [req EXCEPT ![r] = q],
           lock \subseteq lock',
           \A l \in lock' \ lock : l.by = r /\ \A m \in lock : m.object = l.object => m.by = r,
           Known(q),
           q.pc = "locked" => Current(q.object, q.expected) /\ Locks(r, q.object)',
           q.op = "dissolve" /\ q.pc \in {"lockedOther", "locked"} =>
                q.other \notin Live \/ Locks(r, q.other)'
    PROVE  IInv'
  <1>1. /\ Tables' /\ AllShown' /\ Live' = Live
        /\ \A p : Known(p) => Known(p)'
    BY TablesStay DEF IInv
  <1>2. ASSUME NEW s \in Request
        PROVE  Known(req[s])' /\ PastGates(s)'
    <2>1. CASE s = r
      <3>1. req'[s] = q
        BY <2>1 DEF IInv, Handlers
      <3>2. Known(q)'
        BY <1>1
      <3> QED BY <1>1, <2>1, <3>1, <3>2 DEF PastGates, Known, Current
    <2>2. CASE s # r
      <3>1. PICK p : p = req[s] /\ p = req'[s]
        BY <2>2 DEF IInv, Handlers
      <3>2. Known(p)' /\ PastGates(s)
        BY <1>1, <3>1 DEF IInv, Handlers
      <3>3. \A o : Locks(s, o) => Locks(s, o)'
        BY DEF Locks
      <3> QED BY <1>1, <3>1, <3>2, <3>3 DEF PastGates, Known, Current
    <2> QED BY <2>1, <2>2
  <1>3. Exclusive'
    BY DEF IInv, Handlers, Exclusive
  <1>4. req' = [s \in Request |-> req'[s]]
    BY DEF IInv, Handlers
  <1> QED BY <1>1, <1>2, <1>3, <1>4 DEF IInv, Handlers

LEMMA ReadKeeps ==
    ASSUME IInv, NEW r \in Request, ReadDissolved(r) \/ ReadInbound(r)
    PROVE  IInv'
  <1>1. CASE ReadDissolved(r) /\ ~Refuse(r, "notFound")
    <2>1. PICK q : q = [req[r] EXCEPT !.pc = "read", !.folded = Content(req[r].other)]
      OBVIOUS
    <2>2. UNCHANGED db /\ lock' = lock /\ req[r].pc = "reading"
      BY <1>1 DEF ReadDissolved
    <2>3. req' = [req EXCEPT ![r] = q]
      BY <1>1, <2>1 DEF ReadDissolved
    <2>4. Known(req[r])
      BY DEF IInv, Handlers
    <2>5. /\ IsRequest(q) /\ q.pc = "read" /\ q.folded = Content(q.other)
          /\ q.op = req[r].op /\ q.object = req[r].object /\ q.other = req[r].other
          /\ q.root = req[r].root /\ q.host = req[r].host
          /\ q.expected = req[r].expected /\ q.expectedOther = req[r].expectedOther
      BY <2>1, <2>4 DEF Known, IsRequest
    <2>6. Known(q)
      BY <2>2, <2>4, <2>5 DEF Known, Reading, ReadingOther
    <2> QED BY <2>2, <2>3, <2>5, <2>6, HandlerMoves
  <1>2. CASE ReadInbound(r) /\ ~Refuse(r, "blocked")
    <2>1. PICK q : q = [req[r] EXCEPT !.pc = "ready"]
      OBVIOUS
    <2>2. UNCHANGED db /\ lock' = lock /\ req[r].pc = "read"
      BY <1>2 DEF ReadInbound
    <2>3. req' = [req EXCEPT ![r] = q]
      BY <1>2, <2>1 DEF ReadInbound
    <2>4. Known(req[r])
      BY DEF IInv, Handlers
    <2>5. /\ IsRequest(q) /\ q.pc = "ready" /\ q.folded = req[r].folded
          /\ q.op = req[r].op /\ q.object = req[r].object /\ q.other = req[r].other
          /\ q.root = req[r].root /\ q.host = req[r].host
          /\ q.expected = req[r].expected /\ q.expectedOther = req[r].expectedOther
      BY <2>1, <2>4 DEF Known, IsRequest
    <2>6. Known(q)
      BY <2>2, <2>4, <2>5 DEF Known, Reading, ReadingOther
    <2> QED BY <2>2, <2>3, <2>5, <2>6, HandlerMoves
  <1> QED BY <1>1, <1>2, RefuseKeeps

LEMMA LockKeeps ==
    ASSUME IInv, NEW r \in Request, LockDissolved(r)
    PROVE  IInv'
  <1>1. PICK q : q = [req[r] EXCEPT !.pc = "lockedOther"]
    OBVIOUS
  <1>2. UNCHANGED db /\ req[r].pc = "ready" /\ req' = [req EXCEPT ![r] = q]
    BY <1>1 DEF LockDissolved
  <1>3. Known(req[r])
    BY DEF IInv, Handlers
  <1>4. /\ IsRequest(q) /\ q.pc = "lockedOther" /\ q.folded = req[r].folded
        /\ q.op = req[r].op /\ q.object = req[r].object /\ q.other = req[r].other
        /\ q.root = req[r].root /\ q.host = req[r].host
        /\ q.expected = req[r].expected /\ q.expectedOther = req[r].expectedOther
    BY <1>1, <1>3 DEF Known, IsRequest
  <1>5. Known(q)
    BY <1>2, <1>3, <1>4 DEF Known, Reading, ReadingOther
  <1>6. q.other \notin Live \/ Locks(r, q.other)'
    <2>1. PICK l : l = [object |-> q.other, by |-> r, mode |-> "forUpdate"]
      OBVIOUS
    <2>2. l.object = q.other /\ l.by = r
      BY <2>1
    <2>3. q.other \in Live => l \in lock'
      BY <1>4, <2>1 DEF LockDissolved
    <2> QED BY <2>2, <2>3 DEF Locks
  <1>7. /\ lock \subseteq lock'
        /\ \A l \in lock' \ lock : l.by = r /\ \A m \in lock : m.object = l.object => m.by = r
    BY DEF LockDissolved, Unlocked
  <1> QED BY <1>2, <1>4, <1>5, <1>6, <1>7, HandlerMoves

LEMMA GateKeeps ==
    ASSUME IInv, NEW r \in Request, Gate(r)
    PROVE  IInv'
  <1>1. CASE ~Refuse(r, "conflict")
    <2>1. PICK q : q = [req[r] EXCEPT !.pc = "locked"]
      OBVIOUS
    <2>2. /\ UNCHANGED db /\ req' = [req EXCEPT ![r] = q]
          /\ Current(req[r].object, req[r].expected) /\ Locking(r) /\ AtGate(r)
          /\ Unlocked(r, req[r].object)
      BY <1>1, <2>1 DEF Gate
    <2>3. Known(req[r]) /\ PastGates(r)
      BY DEF IInv, Handlers
    <2>4. /\ IsRequest(q) /\ q.pc = "locked" /\ q.folded = req[r].folded
          /\ q.op = req[r].op /\ q.object = req[r].object /\ q.other = req[r].other
          /\ q.root = req[r].root /\ q.host = req[r].host
          /\ q.expected = req[r].expected /\ q.expectedOther = req[r].expectedOther
      BY <2>1, <2>3 DEF Known, IsRequest
    <2>5. /\ req[r].pc \in {"ready", "lockedOther"}
          /\ q.op = "dissolve" => req[r].pc = "lockedOther"
      BY <2>2, <2>4 DEF AtGate
    <2>6. Known(q)
      BY <2>3, <2>4, <2>5 DEF Known, Reading, ReadingOther
    <2>7. Locks(r, q.object)' /\ lock \subseteq lock'
      <3>1. PICK l : l = [object |-> req[r].object, by |-> r,
                          mode |-> IF req[r].op = "copy" THEN "forUpdate" ELSE "update"]
        OBVIOUS
      <3>2. l.object = q.object /\ l.by = r
        BY <2>4, <3>1
      <3>3. lock' = lock \cup {l}
        BY <2>2, <3>1 DEF Locking
      <3> QED BY <3>2, <3>3 DEF Locks
    <2>8. q.op = "dissolve" => q.other \notin Live \/ Locks(r, q.other)'
      BY <2>3, <2>4, <2>5, <2>7 DEF PastGates, Locks
    <2>9. \A l \in lock' \ lock : l.by = r /\ \A m \in lock : m.object = l.object => m.by = r
      BY <2>2 DEF Locking, Unlocked
    <2> QED BY <2>2, <2>4, <2>6, <2>7, <2>8, <2>9, HandlerMoves
  <1> QED BY <1>1, RefuseKeeps

LEMMA BraceKeeps ==
    ASSUME IInv, Brace
    PROVE  IInv'
  <1>1. PICK b : db' = [db EXCEPT !.braced = b]
    BY DEF Brace
  <1>2. Tables' /\ AllShown' /\ Live' = Live /\ db'.rev = db.rev /\ db'.unit = db.unit
            /\ db'.objects = db.objects
    BY <1>1 DEF IInv, Tables, AllShown, Shown, Live, Rows
  <1>3. \A q : Known(q) => Known(q)'
    BY <1>2 DEF Known, Reading, ReadingOther, Current, Content
  <1>4. Handlers'
    <2>1. req' = req /\ lock' = lock
      BY DEF Brace
    <2>2. \A r \in Request : PastGates(r)'
      BY <1>2, <2>1 DEF IInv, Handlers, PastGates, Current, Locks
    <2>3. ASSUME NEW r \in Request
          PROVE  Known(req[r])'
      <3>1. PICK q : q = req[r] /\ q = req'[r]
        BY <2>1
      <3>2. Known(q)'
        BY <1>3, <3>1 DEF IInv, Handlers
      <3> QED BY <3>1, <3>2 DEF Known
    <2>4. req' = [r \in Request |-> req'[r]] /\ Exclusive'
      BY <2>1 DEF IInv, Handlers, Exclusive
    <2> QED BY <2>2, <2>3, <2>4 DEF Handlers
  <1> QED BY <1>2, <1>4 DEF IInv

--------------------------------------------------------------------------------
(* What a transaction that commits does to the tables: it writes rows of        *)
(* objects it holds, and of new ones; the revisions of the former go up.        *)
WritesOnly(r, objects) ==
    /\ \A o \in objects \cap Live : Locks(r, o)
    /\ \A o \in Live \ objects : o \in Live' /\ db'.rev[o] = db.rev[o]
    /\ \A o \in objects \cap Live \cap Live' : db'.rev[o] > db.rev[o]
    /\ \A o \in Live' : db'.rev[o] \in Int
    /\ \A o \in Live' \ Live : o > db.objects /\ o \in 1..db'.objects
    /\ \A u \in DOMAIN db.unit : db.unit[u].object \notin objects =>
            u \in DOMAIN db'.unit /\ db'.unit[u] = db.unit[u]
    /\ \A u \in DOMAIN db'.unit :
            \/ /\ u \in DOMAIN db.unit
               /\ db.unit[u].object \notin objects
               /\ db'.unit[u] = db.unit[u]
            \/ /\ u \in 1..db'.units
               /\ IsRow(db'.unit[u])
               /\ db'.unit[u].object \in Live'
               /\ db'.unit[u].object \in objects \/ db'.unit[u].object \notin Live
               /\ u \in DOMAIN Start => db'.unit[u].shows = None

Numbers ==
    /\ db' = [rev |-> db'.rev, unit |-> db'.unit, link |-> db'.link, derived |-> db'.derived,
              named |-> db'.named, braced |-> db'.braced, units |-> db'.units,
              objects |-> db'.objects, captured |-> db'.captured]
    /\ db'.units \in Nat /\ db.units <= db'.units
    /\ db'.objects \in Nat /\ db.objects <= db'.objects
    /\ db'.captured \subseteq Int

LEMMA WriteKeeps ==
    ASSUME IInv, NEW r \in Request, NEW reply, Answer(r, reply), NEW objects,
           WritesOnly(r, objects), Numbers, AllShown'
    PROVE  IInv'
  <1>1. ASSUME NEW o \in Live \ objects
        PROVE  Content(o)' = Content(o)
    <2>1. \A u \in DOMAIN db'.unit : db'.unit[u].object = o =>
            u \in DOMAIN db.unit /\ db.unit[u] = db'.unit[u]
      BY DEF WritesOnly
    <2>2. \A u \in DOMAIN db.unit : db.unit[u].object = o =>
            u \in DOMAIN db'.unit /\ db'.unit[u] = db.unit[u]
      BY DEF WritesOnly
    <2> QED BY <2>1, <2>2 DEF Content
  <1>2. Handlers'
    <2>1. Tables /\ Handlers /\ db.objects \in Nat
      BY DEF IInv, Tables
    <2>2. /\ \A o \in objects \cap Live : Locks(r, o)
          /\ \A o \in Live \ objects : o \in Live' /\ db'.rev[o] = db.rev[o]
          /\ \A o \in objects \cap Live \cap Live' : db'.rev[o] > db.rev[o]
          /\ \A o \in Live' : db'.rev[o] \in Int
          /\ \A o \in Live' \ Live : o > db.objects
      BY DEF WritesOnly
    <2>3. db'.objects \in Nat /\ db.objects <= db'.objects
      BY DEF Numbers
    <2> QED BY <1>1, <2>1, <2>2, <2>3, OthersKeep
  <1>3. Tables'
    <2>1. Live' \subseteq 1..db'.objects
      <3>1. Live \subseteq 1..db'.objects
        BY DEF IInv, Tables, Numbers
      <3>2. Live' \ Live \subseteq 1..db'.objects
        BY DEF WritesOnly
      <3> QED BY <3>1, <3>2
    <2>2. ASSUME NEW u \in DOMAIN db'.unit
          PROVE  /\ u \in 1..db'.units
                 /\ IsRow(db'.unit[u])
                 /\ db'.unit[u].object \in Live'
                 /\ u \in DOMAIN Start => db'.unit[u].shows = None
      <3>1. CASE /\ u \in DOMAIN db.unit
                 /\ db.unit[u].object \notin objects
                 /\ db'.unit[u] = db.unit[u]
        <4>1. u \in 1..db'.units
          BY <3>1 DEF IInv, Tables, Numbers
        <4>2. db.unit[u].object \in Live /\ IsRow(db.unit[u])
          BY <3>1 DEF IInv, Tables, Rows
        <4>3. u \in DOMAIN Start => db.unit[u].shows = None
          BY <3>1 DEF IInv, Tables
        <4> QED BY <3>1, <4>1, <4>2, <4>3 DEF WritesOnly
      <3> QED BY <3>1 DEF WritesOnly
    <2>3. \A o \in Live' : db'.rev[o] \in Int
      BY DEF WritesOnly
    <2>4. DOMAIN Start \subseteq 1..db'.units
      BY DEF IInv, Tables, Numbers
    <2> QED BY <2>1, <2>2, <2>3, <2>4 DEF Tables, Numbers, Rows
  <1> QED BY <1>2, <1>3 DEF IInv

(* replaceContentUnits, where every embed of what was captured is among the      *)
(* layers again.                                                                *)
LayersWritten(units, layers, objects) ==
    /\ \A u \in DOMAIN db.unit : db.unit[u].object \notin objects =>
            u \in DOMAIN units /\ units[u] = db.unit[u]
    /\ \A u \in DOMAIN units :
            \/ u \in DOMAIN db.unit /\ db.unit[u].object \notin objects /\ units[u] = db.unit[u]
            \/ u \in DOMAIN layers /\ units[u] = layers[u]
    /\ \A u \in DOMAIN layers : u \in DOMAIN units /\ units[u] = layers[u]

LEMMA ReplacedUnits ==
    ASSUME NEW layers, NEW objects, ~Collides(layers, objects)
    PROVE  LayersWritten(Replaced(layers, objects), layers, objects)
  BY DEF Collides, Replaced, LayersWritten

(* What a handler knows when both its gates are behind it.                      *)
LEMMA AtCommit ==
    ASSUME IInv, NEW r \in Request, req[r].pc = "locked"
    PROVE  /\ Locks(r, req[r].object)
           /\ req[r].object \in Live
           /\ req[r].object \in 1..db.objects
           /\ db.rev[req[r].object] = req[r].expected
           /\ req[r].expected \in Int
           /\ req[r].host = Content(req[r].object)
           /\ req[r].op \in {"rehome", "save", "delete"} => req[r].root \in DOMAIN req[r].host
           /\ req[r].op = "delete" => req[r].root \in Deleted
           /\ req[r].op = "dissolve" /\ DissolvedCurrent(r) =>
                /\ Locks(r, req[r].other)
                /\ req[r].other \in Live
                /\ req[r].folded = Content(req[r].other)
           /\ Rows(req[r].host)
           /\ \A u \in DOMAIN req[r].host :
                u \in DOMAIN db.unit /\ req[r].host[u] = db.unit[u]
                    /\ db.unit[u].object = req[r].object
  <1>1. Known(req[r]) /\ PastGates(r) /\ Rows(db.unit)
    BY DEF IInv, Handlers, Tables
  <1>2. Current(req[r].object, req[r].expected) /\ Locks(r, req[r].object) /\ Reading(req[r])
    BY <1>1 DEF PastGates, Known
  <1>3. req[r].host = Content(req[r].object)
    BY <1>2 DEF Reading
  <1>4. req[r].op = "dissolve" /\ DissolvedCurrent(r) =>
            /\ Locks(r, req[r].other)
            /\ req[r].other \in Live
            /\ req[r].folded = Content(req[r].other)
    BY <1>1 DEF PastGates, Known, ReadingOther, DissolvedCurrent, Current
  <1>5. \A u \in DOMAIN Content(req[r].object) :
            /\ u \in DOMAIN db.unit /\ Content(req[r].object)[u] = db.unit[u]
            /\ db.unit[u].object = req[r].object
    BY DEF Content
  <1> QED BY <1>1, <1>2, <1>3, <1>4, <1>5 DEF Reading, Current, Rows

--------------------------------------------------------------------------------
(* The five transactions.                                                       *)

(* persistRehome: the units of S are filed under the new object n, which the    *)
(* embed e shows in their place; everything else is as it was.                  *)
Rehomed(r, h, n, e, S) ==
    /\ Answer(r, "ok") /\ Numbers /\ Satisfied(db')
    /\ req[r].pc = "locked" /\ req[r].op = "rehome"
    /\ h \in Live /\ Locks(r, h)
    /\ n = db.objects + 1 /\ n \notin Live /\ e = db.units + 1 /\ e \notin DOMAIN db.unit
    /\ S # {} /\ \A u \in S : u \in DOMAIN db.unit /\ db.unit[u].object = h
    /\ db'.units = e /\ db'.objects = n /\ db'.captured = db.captured \cup {n}
    /\ db'.link = Followed(S, h, n)
    /\ Live' = Live \cup {n} /\ db'.rev[h] = db.rev[h] + 1 /\ db'.rev[n] = 1
    /\ \A o \in Live \ {h} : db'.rev[o] = db.rev[o]
    /\ DOMAIN db'.unit = DOMAIN db.unit \cup {e}
    /\ \A u \in DOMAIN db.unit : db.unit[u].object # h => db'.unit[u] = db.unit[u]
    /\ \A u \in DOMAIN db'.unit :
          /\ IsRow(db'.unit[u])
          /\ db'.unit[u].object = IF u = e THEN h ELSE IF u \in S THEN n ELSE db.unit[u].object
          /\ db'.unit[u].shows = IF u = e THEN n ELSE db.unit[u].shows
          /\ db'.unit[u].cites = IF u = e THEN None ELSE db.unit[u].cites

LEMMA RehomeWrites ==
    ASSUME IInv, NEW r \in Request, Rehome(r), ~Refuse(r, "failed")
    PROVE  \E h, n, e, S : Rehomed(r, h, n, e, S)
  <1>1. PICK h, n, e, c, root, S :
            /\ h = req[r].object /\ n = db.objects + 1 /\ e = db.units + 1
            /\ c = req[r].host /\ root = req[r].root /\ S = Tree!Subtree(c, root)
    OBVIOUS
  <1>2. PICK layers : layers = Over(HostWithout(c, root, n, e), Moved(c, root, n))
    OBVIOUS
  <1>3. PICK links, names :
            /\ links = Followed(S, h, n)
            /\ names = [u \in DOMAIN db.named |-> IF u \in S /\ db.named[u] = h THEN n
                                                  ELSE db.named[u]]
    OBVIOUS
  <1>4. PICK revs : revs = Over([db.rev EXCEPT ![h] = req[r].expected + 1], [o \in {n} |-> 1])
    OBVIOUS
  <1>5. PICK new :
            /\ new = [db EXCEPT !.rev = revs, !.unit = Replaced(layers, {h}), !.link = links,
                                !.named = names, !.units = e, !.objects = n,
                                !.captured = @ \cup {n}]
            /\ ~Collides(layers, {h})
            /\ db' = new /\ Satisfied(new) /\ Answer(r, "ok")
            /\ req[r].pc = "locked" /\ req[r].op = "rehome"
    <2>1. /\ req[r].pc = "locked" /\ req[r].op = "rehome" /\ ~Collides(layers, {h})
          /\ Commit(r, [db EXCEPT !.rev = revs, !.unit = Replaced(layers, {h}), !.link = links,
                                  !.named = names, !.units = e, !.objects = n,
                                  !.captured = @ \cup {n}])
      BY <1>1, <1>2, <1>3, <1>4 DEF Rehome, Committing
    <2> QED BY <2>1 DEF Commit
  <1>6. /\ db'.rev = revs /\ db'.unit = Replaced(layers, {h}) /\ db'.link = links
        /\ db'.units = e /\ db'.objects = n /\ db'.captured = db.captured \cup {n}
        /\ Numbers
    <2>1. PICK units, taken : units = Replaced(layers, {h}) /\ taken = db.captured \cup {n}
      OBVIOUS
    <2>2. db' = [db EXCEPT !.rev = revs, !.unit = units, !.link = links, !.named = names,
                           !.units = e, !.objects = n, !.captured = taken]
      BY <1>5, <2>1
    <2>3. db'.rev = revs /\ db'.unit = units /\ db'.link = links
            /\ db'.units = e /\ db'.objects = n
            /\ db'.captured = taken
            /\ db' = [rev |-> db'.rev, unit |-> db'.unit, link |-> db'.link,
                      derived |-> db'.derived, named |-> db'.named, braced |-> db'.braced,
                      units |-> db'.units, objects |-> db'.objects, captured |-> db'.captured]
      BY <2>2 DEF IInv, Tables
    <2>4. db.units \in Nat /\ db.objects \in Nat /\ db.captured \subseteq Int
      BY DEF IInv, Tables
    <2> QED BY <1>1, <2>1, <2>3, <2>4 DEF Numbers
  <1>7. /\ Locks(r, h) /\ h \in Live /\ h \in 1..db.objects
        /\ db.rev[h] = req[r].expected /\ req[r].expected \in Int
        /\ root \in DOMAIN c /\ Rows(c)
        /\ c = Content(h)
        /\ \A u \in DOMAIN c : u \in DOMAIN db.unit /\ c[u] = db.unit[u] /\ db.unit[u].object = h
    BY <1>1, <1>5, AtCommit
  <1>8. /\ Live' = Live \cup {n}
        /\ db'.rev[h] = db.rev[h] + 1 /\ db'.rev[n] = 1
        /\ \A o \in Live \ {h} : db'.rev[o] = db.rev[o]
        /\ n \notin Live
    BY <1>1, <1>4, <1>6, <1>7 DEF IInv, Tables, Live, Over
  <1>9. e \notin DOMAIN db.unit
    BY <1>1 DEF IInv, Tables
  <1>10. S \subseteq DOMAIN c /\ root \in S
    BY <1>1, <1>7 DEF Tree!Subtree
  <1>11. /\ DOMAIN layers = DOMAIN c \cup {e}
         /\ \A u \in DOMAIN layers :
                /\ IsRow(layers[u])
                /\ layers[u].object = IF u \in S THEN n ELSE h
                /\ layers[u].shows = IF u = e THEN n ELSE c[u].shows
                /\ layers[u].cites = IF u = e THEN None ELSE c[u].cites
    <2>1. PICK a, b : a = HostWithout(c, root, n, e) /\ b = Moved(c, root, n)
      OBVIOUS
    <2>2. /\ DOMAIN a = (DOMAIN c \ S) \cup {e}
          /\ \A u \in DOMAIN a :
                /\ IsRow(a[u])
                /\ a[u].object = IF u = e THEN c[root].object ELSE c[u].object
                /\ a[u].shows = IF u = e THEN n ELSE c[u].shows
                /\ a[u].cites = IF u = e THEN None ELSE c[u].cites
      <3>1. HostShape(c, root, n, e)
        BY <1>7, HostRows
      <3> QED BY <1>1, <2>1, <3>1 DEF HostShape
    <2>3. /\ DOMAIN b = S
          /\ \A u \in DOMAIN b :
                IsRow(b[u]) /\ b[u].object = n /\ b[u].shows = c[u].shows /\ b[u].cites = c[u].cites
      BY <1>1, <1>7, <2>1, MovedRows
    <2>4. /\ DOMAIN layers = DOMAIN a \cup DOMAIN b
          /\ \A u \in DOMAIN layers : layers[u] = IF u \in DOMAIN a THEN a[u] ELSE b[u]
      BY <1>2, <2>1 DEF Over
    <2>5. c[root].object = h /\ \A u \in DOMAIN c : c[u].object = h
      BY <1>7
    <2>6. e \notin DOMAIN c
      BY <1>7, <1>9
    <2>7. DOMAIN layers = DOMAIN c \cup {e}
      BY <1>10, <2>2, <2>3, <2>4
    <2>8. ASSUME NEW u \in DOMAIN layers
          PROVE  /\ IsRow(layers[u])
                 /\ layers[u].object = IF u \in S THEN n ELSE h
                 /\ layers[u].shows = IF u = e THEN n ELSE c[u].shows
                 /\ layers[u].cites = IF u = e THEN None ELSE c[u].cites
      <3>1. CASE u \in S
        BY <1>10, <2>2, <2>3, <2>4, <2>6, <3>1
      <3>2. CASE u \notin S
        BY <1>10, <2>2, <2>4, <2>5, <2>7, <3>2
      <3> QED BY <3>1, <3>2
    <2> QED BY <2>7, <2>8
  <1>12. \A u \in DOMAIN db.unit : u \in DOMAIN c <=> db.unit[u].object = h
    BY <1>7 DEF Content
  <1>13. PICK units : units = db'.unit
    OBVIOUS
  <1>14. /\ \A u \in DOMAIN db.unit : db.unit[u].object # h =>
                u \in DOMAIN units /\ units[u] = db.unit[u]
         /\ \A u \in DOMAIN units :
                \/ u \in DOMAIN db.unit /\ db.unit[u].object # h /\ units[u] = db.unit[u]
                \/ u \in DOMAIN layers /\ units[u] = layers[u]
         /\ DOMAIN layers \subseteq DOMAIN units
    <2>1. LayersWritten(units, layers, {h})
      BY <1>5, <1>6, <1>13, ReplacedUnits
    <2> QED BY <2>1 DEF LayersWritten
  <1>15. DOMAIN units = DOMAIN db.unit \cup {e}
    BY <1>7, <1>11, <1>12, <1>14
  <1>16. ASSUME NEW u \in DOMAIN units
         PROVE  /\ IsRow(units[u])
                /\ units[u].object = IF u = e THEN h ELSE IF u \in S THEN n ELSE db.unit[u].object
                /\ units[u].shows = IF u = e THEN n ELSE db.unit[u].shows
                /\ units[u].cites = IF u = e THEN None ELSE db.unit[u].cites
    <2>1. e \notin S /\ \A v \in S : db.unit[v].object = h
      BY <1>7, <1>9, <1>10
    <2>2. CASE u \in DOMAIN db.unit /\ db.unit[u].object # h /\ units[u] = db.unit[u]
      BY <1>9, <2>1, <2>2 DEF IInv, Tables, Rows
    <2>3. CASE u \in DOMAIN layers /\ units[u] = layers[u]
      BY <1>7, <1>11, <2>1, <2>3
    <2> QED BY <1>14, <2>2, <2>3
  <1>17. S # {} /\ \A u \in S : u \in DOMAIN db.unit /\ db.unit[u].object = h
    BY <1>7, <1>10
  <1>18. Satisfied(db')
    BY <1>5
  <1>19. Rehomed(r, h, n, e, S)
    <2>1. /\ Answer(r, "ok") /\ Numbers /\ Satisfied(db')
          /\ req[r].pc = "locked" /\ req[r].op = "rehome" /\ h \in Live /\ Locks(r, h)
          /\ n = db.objects + 1 /\ n \notin Live /\ e = db.units + 1 /\ e \notin DOMAIN db.unit
      BY <1>1, <1>5, <1>6, <1>7, <1>8, <1>9, <1>18
    <2>2. /\ db'.units = e /\ db'.objects = n /\ db'.captured = db.captured \cup {n}
          /\ db'.link = Followed(S, h, n)
      BY <1>3, <1>6
    <2>3. /\ DOMAIN db'.unit = DOMAIN db.unit \cup {e}
          /\ \A u \in DOMAIN db.unit : db.unit[u].object # h => db'.unit[u] = db.unit[u]
      BY <1>13, <1>14, <1>15
    <2>4. \A u \in DOMAIN db'.unit :
             /\ IsRow(db'.unit[u])
             /\ db'.unit[u].object = IF u = e THEN h ELSE IF u \in S THEN n ELSE db.unit[u].object
             /\ db'.unit[u].shows = IF u = e THEN n ELSE db.unit[u].shows
             /\ db'.unit[u].cites = IF u = e THEN None ELSE db.unit[u].cites
      BY <1>13, <1>16
    <2> QED BY <1>8, <1>17, <2>1, <2>2, <2>3, <2>4 DEF Rehomed
  <1> QED BY <1>19

LEMMA RehomeKeeps ==
    ASSUME IInv, NEW r \in Request, Rehome(r), ~Refuse(r, "failed")
    PROVE  IInv'
  <1>1. PICK h, n, e, S : Rehomed(r, h, n, e, S)
    BY RehomeWrites
  <1>2. /\ Answer(r, "ok") /\ Numbers /\ h \in Live /\ Locks(r, h)
        /\ n = db.objects + 1 /\ n \notin Live /\ e = db.units + 1 /\ e \notin DOMAIN db.unit
        /\ db'.units = e /\ db'.objects = n /\ db'.captured = db.captured \cup {n}
        /\ Live' = Live \cup {n} /\ db'.rev[h] = db.rev[h] + 1 /\ db'.rev[n] = 1
        /\ \A o \in Live \ {h} : db'.rev[o] = db.rev[o]
    BY <1>1 DEF Rehomed
  <1>3. PICK units : units = db'.unit
    OBVIOUS
  <1>4. /\ DOMAIN units = DOMAIN db.unit \cup {e}
        /\ \A u \in DOMAIN db.unit : db.unit[u].object # h => units[u] = db.unit[u]
        /\ \A u \in DOMAIN units :
              /\ IsRow(units[u])
              /\ units[u].object = IF u = e THEN h ELSE IF u \in S THEN n ELSE db.unit[u].object
              /\ units[u].shows = IF u = e THEN n ELSE db.unit[u].shows
        /\ \A u \in S : u \in DOMAIN db.unit /\ db.unit[u].object = h
    BY <1>1, <1>3 DEF Rehomed
  <1>5. /\ db.units \in Nat /\ db.objects \in Nat
        /\ DOMAIN Start \subseteq 1..db.units
        /\ \A o \in Live : db.rev[o] \in Int /\ o \in 1..db.objects
        /\ \A u \in DOMAIN db.unit :
              /\ u \in 1..db.units /\ db.unit[u].object \in Live
              /\ u \in DOMAIN Start => db.unit[u].shows = None
    BY DEF IInv, Tables
  <1>6. WritesOnly(r, {h})
    <2>1. /\ \A o \in {h} \cap Live : Locks(r, o)
          /\ \A o \in Live \ {h} : o \in Live' /\ db'.rev[o] = db.rev[o]
          /\ \A o \in {h} \cap Live \cap Live' : db'.rev[o] > db.rev[o]
          /\ \A o \in Live' : db'.rev[o] \in Int
          /\ \A o \in Live' \ Live : o > db.objects /\ o \in 1..db'.objects
      BY <1>2, <1>5
    <2>2. \A u \in DOMAIN db.unit : db.unit[u].object \notin {h} =>
            u \in DOMAIN units /\ units[u] = db.unit[u]
      BY <1>4
    <2>3. ASSUME NEW u \in DOMAIN units,
                 ~(u \in DOMAIN db.unit /\ db.unit[u].object \notin {h} /\ units[u] = db.unit[u])
          PROVE  /\ u \in 1..db'.units
                 /\ IsRow(units[u])
                 /\ units[u].object \in Live'
                 /\ units[u].object \in {h} \/ units[u].object \notin Live
                 /\ u \in DOMAIN Start => units[u].shows = None
      <3>1. u = e \/ (u \in DOMAIN db.unit /\ db.unit[u].object = h)
        BY <1>4, <2>3
      <3>2. u \in 1..db'.units /\ (u \in DOMAIN Start => u # e)
        BY <1>2, <1>5, <3>1
      <3>3. units[u].object \in {h, n}
        BY <1>4, <3>1
      <3> QED BY <1>2, <1>4, <1>5, <3>1, <3>2, <3>3
    <2> QED BY <1>3, <2>1, <2>2, <2>3 DEF WritesOnly
  <1>7. AllShown'
    <2>1. \A o \in db'.captured : \E u \in DOMAIN units : units[u].shows = o
      BY <1>2, <1>4 DEF IInv, AllShown, Shown
    <2> QED BY <1>3, <2>1 DEF AllShown, Shown
  <1> QED BY <1>2, <1>6, <1>7, WriteKeeps

(* persistDissolve: the embed e goes, the units of d are filed under its host.  *)
FoldedBack(r, h, d, e) ==
    /\ Answer(r, "ok") /\ Numbers /\ Satisfied(db')
    /\ req[r].pc = "locked" /\ req[r].op = "dissolve"
    /\ h \in Live /\ Locks(r, h) /\ d \in Live \ {h} /\ Locks(r, d) /\ Inbound(d) = {}
    /\ e \in DOMAIN db.unit /\ db.unit[e].object = h /\ db.unit[e].shows = d
    /\ db'.units = db.units /\ db'.objects = db.objects /\ db'.captured = db.captured \ {d}
    /\ db'.link = Inherited(h, d)
    /\ Live' = Live \ {d} /\ db'.rev[h] = db.rev[h] + 1
    /\ \A o \in Live \ {h, d} : db'.rev[o] = db.rev[o]
    /\ DOMAIN db'.unit = DOMAIN db.unit \ {e}
    /\ \A u \in DOMAIN db.unit : db.unit[u].object \notin {h, d} => db'.unit[u] = db.unit[u]
    /\ \A u \in DOMAIN db'.unit :
          /\ IsRow(db'.unit[u])
          /\ db'.unit[u].object = IF db.unit[u].object = d THEN h ELSE db.unit[u].object
          /\ db'.unit[u].shows = db.unit[u].shows
          /\ db'.unit[u].cites = db.unit[u].cites

LEMMA DissolveWrites ==
    ASSUME IInv, NEW r \in Request, Dissolve(r), \A reply : ~Refuse(r, reply)
    PROVE  \E h, d, e : FoldedBack(r, h, d, e)
  <1>1. PICK h, d, c, f :
            h = req[r].object /\ d = req[r].other /\ c = req[r].host /\ f = req[r].folded
    OBVIOUS
  <1>2. PICK e, layers, new :
            /\ e \in EmbedsOf(c, d)
            /\ layers = Folded(c, e, f)
            /\ DissolvedCurrent(r)
            /\ Inbound(d) = {}
            /\ ~Collides(layers, {h, d})
            /\ new = Dissolved(h, d, req[r].expected + 1, layers)
            /\ db' = new /\ Satisfied(new)
            /\ Answer(r, "ok")
    <2>1. PICK e \in EmbedsOf(c, d) :
            /\ DissolvedCurrent(r)
            /\ Inbound(d) = {}
            /\ ~Collides(Folded(c, e, f), {h, d})
            /\ Commit(r, Dissolved(h, d, req[r].expected + 1, Folded(c, e, f)))
      BY <1>1 DEF Dissolve
    <2> QED BY <2>1 DEF Commit
  <1>3. PICK revs, taken, links :
            /\ revs = [o \in DOMAIN db.rev \ {d} |-> IF o = h THEN req[r].expected + 1
                                                     ELSE db.rev[o]]
            /\ taken = db.captured \ {d}
            /\ links = Inherited(h, d)
    OBVIOUS
  <1>4. req[r].pc = "locked" /\ req[r].op = "dissolve"
    BY DEF Dissolve, Committing
  <1>5. /\ db'.rev = revs /\ db'.unit = Replaced(layers, {h, d})
        /\ db'.link = links /\ db'.captured = taken
        /\ db'.units = db.units /\ db'.objects = db.objects
        /\ Numbers
    <2>1. PICK units, names :
            /\ units = Replaced(layers, {h, d})
            /\ names = [u \in DOMAIN db.named |-> IF db.named[u] = d THEN h ELSE db.named[u]]
      OBVIOUS
    <2>2. db' = [db EXCEPT !.rev = revs, !.unit = units, !.link = links, !.named = names,
                           !.captured = taken]
      BY <1>2, <1>3, <2>1 DEF Dissolved
    <2>3. /\ db'.rev = revs /\ db'.unit = units /\ db'.link = links /\ db'.captured = taken
          /\ db'.units = db.units /\ db'.objects = db.objects
          /\ db' = [rev |-> db'.rev, unit |-> db'.unit, link |-> db'.link,
                    derived |-> db'.derived, named |-> db'.named, braced |-> db'.braced,
                    units |-> db'.units, objects |-> db'.objects, captured |-> db'.captured]
      BY <2>2 DEF IInv, Tables
    <2>4. db.units \in Nat /\ db.objects \in Nat /\ db.captured \subseteq Int
      BY DEF IInv, Tables
    <2> QED BY <1>3, <2>1, <2>3, <2>4 DEF Numbers
  <1>6. /\ Locks(r, h) /\ h \in Live
        /\ db.rev[h] = req[r].expected /\ req[r].expected \in Int
        /\ Locks(r, d) /\ d \in Live
        /\ c = Content(h) /\ f = Content(d)
    BY <1>1, <1>2, <1>4, AtCommit
  <1>7. /\ \A u \in DOMAIN c : u \in DOMAIN db.unit /\ c[u] = db.unit[u] /\ c[u].object = h
        /\ \A u \in DOMAIN f : u \in DOMAIN db.unit /\ f[u] = db.unit[u] /\ f[u].object = d
        /\ \A u \in DOMAIN db.unit : /\ u \in DOMAIN c <=> db.unit[u].object = h
                                     /\ u \in DOMAIN f <=> db.unit[u].object = d
        /\ Rows(c) /\ Rows(f)
        /\ e \in DOMAIN c /\ c[e].shows = d
    BY <1>2, <1>6 DEF Content, Rows, IInv, Tables, EmbedsOf
  <1>8. /\ DOMAIN layers = (DOMAIN c \ {e}) \cup DOMAIN f
        /\ \A u \in DOMAIN layers :
              /\ u \in DOMAIN db.unit
              /\ IsRow(layers[u]) /\ layers[u].object = h
              /\ layers[u].shows = db.unit[u].shows /\ layers[u].cites = db.unit[u].cites
    <2>1. FoldedShape(c, e, f, h)
      <3>1. /\ \A u \in DOMAIN c : c[u].object = h
            /\ \A u \in DOMAIN c \cap DOMAIN f : c[u] = f[u]
        BY <1>7
      <3> QED BY <1>7, <3>1, FoldedRows
    <2>2. /\ DOMAIN layers = (DOMAIN c \ {e}) \cup DOMAIN f
          /\ \A u \in DOMAIN layers :
                /\ IsRow(layers[u]) /\ layers[u].object = h
                /\ u \in DOMAIN c => layers[u].shows = c[u].shows /\ layers[u].cites = c[u].cites
                /\ u \in DOMAIN f => layers[u].shows = f[u].shows /\ layers[u].cites = f[u].cites
      BY <1>2, <2>1 DEF FoldedShape
    <2> QED BY <1>7, <2>2
  <1>9. Live' = Live \ {d} /\ \A o \in Live \ {h, d} : db'.rev[o] = db.rev[o]
    BY <1>3, <1>5 DEF Live
  <1>10. PICK units : units = db'.unit
    OBVIOUS
  <1>11. /\ \A u \in DOMAIN db.unit : db.unit[u].object \notin {h, d} =>
                u \in DOMAIN units /\ units[u] = db.unit[u]
         /\ \A u \in DOMAIN units :
                \/ u \in DOMAIN db.unit /\ db.unit[u].object \notin {h, d} /\ units[u] = db.unit[u]
                \/ u \in DOMAIN layers /\ units[u] = layers[u]
         /\ DOMAIN layers \subseteq DOMAIN units
    <2>1. LayersWritten(units, layers, {h, d})
      BY <1>2, <1>5, <1>10, ReplacedUnits
    <2> QED BY <2>1 DEF LayersWritten
  <1>12. Satisfied(db')
    BY <1>2
  <1>13. h # d
    <2>1. \A u \in DOMAIN units : units[u].object \in Live'
      BY <1>10, <1>12 DEF Satisfied, Live
    <2>2. CASE h = d
      <3>1. e \in DOMAIN f
        BY <1>6, <1>7, <2>2
      <3>2. e \in DOMAIN layers /\ e \in DOMAIN units
        BY <1>8, <1>11, <3>1
      <3>3. units[e].object = h
        BY <1>7, <1>8, <1>11, <3>2
      <3> QED BY <1>9, <2>1, <2>2, <3>2, <3>3
    <2> QED BY <2>2
  <1>14. db'.rev[h] = db.rev[h] + 1
    BY <1>3, <1>5, <1>6, <1>13 DEF Live
  <1>15. DOMAIN units = DOMAIN db.unit \ {e}
    <2>1. db.unit[e].object = h /\ e \notin DOMAIN layers
      BY <1>7, <1>8, <1>13
    <2>2. e \notin DOMAIN units /\ DOMAIN units \subseteq DOMAIN db.unit
      BY <1>8, <1>11, <2>1
    <2>3. ASSUME NEW u \in DOMAIN db.unit \ {e}
          PROVE  u \in DOMAIN units
      <3>1. CASE db.unit[u].object \in {h, d}
        BY <1>7, <1>8, <1>11, <3>1
      <3> QED BY <1>11, <3>1
    <2> QED BY <2>2, <2>3
  <1>16. ASSUME NEW u \in DOMAIN units
         PROVE  /\ IsRow(units[u])
                /\ units[u].object = IF db.unit[u].object = d THEN h ELSE db.unit[u].object
                /\ units[u].shows = db.unit[u].shows
                /\ units[u].cites = db.unit[u].cites
    <2>1. CASE u \in DOMAIN db.unit /\ db.unit[u].object \notin {h, d} /\ units[u] = db.unit[u]
      BY <2>1 DEF IInv, Tables, Rows
    <2>2. CASE u \in DOMAIN layers /\ units[u] = layers[u]
      <3>1. db.unit[u].object \in {h, d}
        BY <1>7, <1>8, <2>2
      <3> QED BY <1>8, <2>2, <3>1
    <2> QED BY <1>11, <2>1, <2>2
  <1>17. /\ e \in DOMAIN db.unit /\ db.unit[e].object = h /\ db.unit[e].shows = d
         /\ d \in Live \ {h} /\ db'.captured = db.captured \ {d}
    BY <1>3, <1>5, <1>6, <1>7, <1>13
  <1>18. \A u \in DOMAIN db.unit : db.unit[u].object \notin {h, d} => units[u] = db.unit[u]
    BY <1>11
  <1>19. /\ DOMAIN db'.unit = DOMAIN db.unit \ {e}
         /\ \A u \in DOMAIN db.unit : db.unit[u].object \notin {h, d} => db'.unit[u] = db.unit[u]
         /\ \A u \in DOMAIN db'.unit :
              /\ IsRow(db'.unit[u])
              /\ db'.unit[u].object = IF db.unit[u].object = d THEN h ELSE db.unit[u].object
              /\ db'.unit[u].shows = db.unit[u].shows
              /\ db'.unit[u].cites = db.unit[u].cites
    BY <1>10, <1>15, <1>16, <1>18
  <1>20. /\ Answer(r, "ok") /\ Inbound(d) = {} /\ db'.link = Inherited(h, d)
         /\ db'.units = db.units /\ db'.objects = db.objects /\ Numbers
    BY <1>2, <1>3, <1>5
  <1> QED BY <1>4, <1>6, <1>9, <1>12, <1>14, <1>17, <1>19, <1>20 DEF FoldedBack

LEMMA DissolveKeeps ==
    ASSUME IInv, NEW r \in Request, Dissolve(r), \A reply : ~Refuse(r, reply)
    PROVE  IInv'
  <1>1. PICK h, d, e : FoldedBack(r, h, d, e)
    BY DissolveWrites
  <1>2. /\ Answer(r, "ok") /\ Numbers /\ Satisfied(db')
        /\ h \in Live /\ Locks(r, h) /\ d \in Live \ {h} /\ Locks(r, d)
        /\ e \in DOMAIN db.unit /\ db.unit[e].shows = d
        /\ db'.units = db.units /\ db'.objects = db.objects /\ db'.captured = db.captured \ {d}
        /\ Live' = Live \ {d} /\ db'.rev[h] = db.rev[h] + 1
        /\ \A o \in Live \ {h, d} : db'.rev[o] = db.rev[o]
    BY <1>1 DEF FoldedBack
  <1>3. PICK units : units = db'.unit
    OBVIOUS
  <1>4. /\ DOMAIN units = DOMAIN db.unit \ {e}
        /\ \A u \in DOMAIN db.unit : db.unit[u].object \notin {h, d} => units[u] = db.unit[u]
        /\ \A u \in DOMAIN units :
              /\ IsRow(units[u])
              /\ units[u].object = IF db.unit[u].object = d THEN h ELSE db.unit[u].object
              /\ units[u].shows = db.unit[u].shows
        /\ db.unit[e].object = h
    BY <1>1, <1>3 DEF FoldedBack
  <1>5. WritesOnly(r, {h, d})
    <2>1. /\ \A o \in Live : db.rev[o] \in Int
          /\ \A u \in DOMAIN db.unit :
                /\ u \in 1..db.units /\ db.unit[u].object \in Live
                /\ u \in DOMAIN Start => db.unit[u].shows = None
      BY DEF IInv, Tables
    <2>2. /\ \A o \in {h, d} \cap Live : Locks(r, o)
          /\ \A o \in Live \ {h, d} : o \in Live' /\ db'.rev[o] = db.rev[o]
          /\ \A o \in {h, d} \cap Live \cap Live' : db'.rev[o] > db.rev[o]
          /\ \A o \in Live' : db'.rev[o] \in Int
          /\ \A o \in Live' \ Live : o > db.objects /\ o \in 1..db'.objects
      BY <1>2, <2>1
    <2>3. \A u \in DOMAIN db.unit : db.unit[u].object \notin {h, d} =>
            u \in DOMAIN units /\ units[u] = db.unit[u]
      BY <1>4
    <2>4. ASSUME NEW u \in DOMAIN units,
                 ~(u \in DOMAIN db.unit /\ db.unit[u].object \notin {h, d} /\ units[u] = db.unit[u])
          PROVE  /\ u \in 1..db'.units
                 /\ IsRow(units[u])
                 /\ units[u].object \in Live'
                 /\ units[u].object \in {h, d} \/ units[u].object \notin Live
                 /\ u \in DOMAIN Start => units[u].shows = None
      <3>1. u \in DOMAIN db.unit /\ db.unit[u].object \in {h, d} /\ units[u].object = h
        BY <1>4, <2>4
      <3> QED BY <1>2, <1>4, <2>1, <3>1
    <2> QED BY <1>3, <2>2, <2>3, <2>4 DEF WritesOnly
  <1>6. AllShown'
    <2>1. \A o \in db'.captured : \E u \in DOMAIN units : units[u].shows = o
      BY <1>2, <1>4 DEF IInv, AllShown, Shown
    <2> QED BY <1>3, <2>1 DEF AllShown, Shown
  <1> QED BY <1>2, <1>5, <1>6, WriteKeeps

(* materialize_object counts the units below one another: no two get the same id. *)
LEMMA NewIds ==
    ASSUME NEW D, IsFiniteSet(D), D \subseteq Int, NEW last \in Nat
    PROVE  \A u, v \in D :
                last + Cardinality({x \in D : x <= u}) = last + Cardinality({x \in D : x <= v})
                    => u = v
  <1> DEFINE upto(u) == {x \in D : x <= u}
  <1>1. ASSUME NEW u \in D
        PROVE  IsFiniteSet(upto(u)) /\ Cardinality(upto(u)) \in Nat
    BY FS_Subset, FS_CardinalityType
  <1>2. ASSUME NEW u \in D, NEW v \in D, u < v
        PROVE  Cardinality(upto(u)) # Cardinality(upto(v))
    <2>1. \A x \in D : x \in Int
      OBVIOUS
    <2>2. (\A x \in D : x <= u => x <= v) /\ ~(v <= u) /\ v <= v
      BY <1>2, <2>1
    <2>3. upto(u) \subseteq upto(v) /\ v \notin upto(u) /\ v \in upto(v)
      BY <2>2
    <2> QED BY <1>1, <2>3, FS_Subset
  <1> HIDE DEF upto
  <1>3. \A u, v \in D : last + Cardinality(upto(u)) = last + Cardinality(upto(v)) => u = v
    BY <1>1, <1>2
  <1> QED BY <1>3 DEF upto

CopiedShape(c, n, last) ==
    /\ Cardinality(DOMAIN c) \in Nat
    /\ Cardinality(DOMAIN Copied(c, n, last)) = Cardinality(DOMAIN c)
    /\ \A i \in DOMAIN Copied(c, n, last) :
          /\ i \in (last + 1)..(last + Cardinality(DOMAIN c))
          /\ IsRow(Copied(c, n, last)[i])
          /\ Copied(c, n, last)[i].object = n
          /\ \E u \in DOMAIN c : /\ Copied(c, n, last)[i].shows = c[u].shows
                                 /\ Copied(c, n, last)[i].cites = c[u].cites

LEMMA CopiedRows ==
    ASSUME NEW c, Rows(c), NEW last \in Nat, DOMAIN c \subseteq 1..last, NEW n
    PROVE  CopiedShape(c, n, last)
  <1> DEFINE upto(u) == {v \in DOMAIN c : v <= u}
             new(u) == last + Cardinality(upto(u))
             original(i) == CHOOSE u \in DOMAIN c : new(u) = i
  <1>1. IsFiniteSet(DOMAIN c) /\ Cardinality(DOMAIN c) \in Nat
    <2>1. IsFiniteSet(1..last)
      BY FS_Interval
    <2>2. IsFiniteSet(DOMAIN c)
      BY <2>1, FS_Subset
    <2> QED BY <2>2, FS_CardinalityType
  <1>2. ASSUME NEW u \in DOMAIN c
        PROVE  /\ IsFiniteSet(upto(u)) /\ Cardinality(upto(u)) \in Nat
               /\ new(u) \in (last + 1)..(last + Cardinality(DOMAIN c))
    <2>1. upto(u) \subseteq DOMAIN c /\ u \in upto(u)
      OBVIOUS
    <2>2. /\ IsFiniteSet(upto(u)) /\ Cardinality(upto(u)) \in Nat
          /\ Cardinality(upto(u)) <= Cardinality(DOMAIN c)
      <3>1. IsFiniteSet(upto(u)) /\ Cardinality(upto(u)) <= Cardinality(DOMAIN c)
        BY <1>1, <2>1, FS_Subset
      <3> QED BY <3>1, FS_CardinalityType
    <2>3. Cardinality(upto(u)) # 0
      BY <2>1, <2>2, FS_EmptySet
    <2> HIDE DEF upto
    <2> QED BY <1>1, <2>2, <2>3
  <1>4. \A u, v \in DOMAIN c : new(u) = new(v) => u = v
    <2>1. DOMAIN c \subseteq Int
      OBVIOUS
    <2> QED BY <1>1, <2>1, NewIds
  <1>5. Copied(c, n, last) =
            [i \in {new(u) : u \in DOMAIN c} |->
                [c[original(i)] EXCEPT !.object = n, !.parent = IF @ = None THEN None ELSE new(@)]]
    BY DEF Copied
  <1> HIDE DEF new
  <1>6. DOMAIN Copied(c, n, last) = {new(u) : u \in DOMAIN c}
    BY <1>5
  <1>7. Cardinality({new(u) : u \in DOMAIN c}) = Cardinality(DOMAIN c)
    <2>1. PICK f, T : f = [u \in DOMAIN c |-> new(u)] /\ T = {new(u) : u \in DOMAIN c}
      OBVIOUS
    <2>2. f \in Bijection(DOMAIN c, T)
      BY <1>4, <2>1 DEF Bijection, Injection, Surjection, IsInjective
    <2> QED BY <1>1, <2>1, <2>2, FS_Bijection DEF ExistsBijection
  <1>8. ASSUME NEW i \in {new(u) : u \in DOMAIN c}
        PROVE  /\ i \in (last + 1)..(last + Cardinality(DOMAIN c))
               /\ IsRow(Copied(c, n, last)[i])
               /\ Copied(c, n, last)[i].object = n
               /\ \E u \in DOMAIN c : /\ Copied(c, n, last)[i].shows = c[u].shows
                                      /\ Copied(c, n, last)[i].cites = c[u].cites
    <2>1. PICK u \in DOMAIN c : new(u) = i
      OBVIOUS
    <2>2. original(i) \in DOMAIN c
      BY <2>1
    <2> HIDE DEF original
    <2>3. PICK row, parent : row = c[original(i)]
                /\ parent = IF row.parent = None THEN None ELSE new(row.parent)
      OBVIOUS
    <2>4. Copied(c, n, last)[i] = [row EXCEPT !.object = n, !.parent = parent]
      BY <1>5, <2>3
    <2>5. IsRow(row)
      BY <2>2, <2>3 DEF Rows
    <2>6. PICK copy : copy = [row EXCEPT !.object = n, !.parent = parent]
      OBVIOUS
    <2>7. IsRow(copy) /\ copy.object = n /\ copy.shows = row.shows /\ copy.cites = row.cites
      BY <2>5, <2>6 DEF IsRow
    <2> QED BY <1>2, <2>1, <2>2, <2>3, <2>4, <2>6, <2>7
  <1> QED BY <1>1, <1>6, <1>7, <1>8 DEF CopiedShape

(* materialize_object: the units of F are those of o once more, in the new      *)
(* object n.                                                                    *)
CopiedOnto(r, o, n, F) ==
    /\ Answer(r, "ok") /\ Numbers /\ Satisfied(db')
    /\ req[r].pc = "locked" /\ req[r].op = "copy"
    /\ o \in Live /\ n = db.objects + 1 /\ n \notin Live
    /\ \A u \in DOMAIN db.unit : u \in DOMAIN req[r].host <=> db.unit[u].object = o
    /\ DOMAIN req[r].host \subseteq DOMAIN db.unit
    /\ Cardinality(F) = Cardinality(DOMAIN req[r].host) /\ Cardinality(F) \in Nat
    /\ db'.units = db.units + Cardinality(F) /\ db'.objects = n
    /\ db'.captured = db.captured /\ db'.link = db.link
    /\ Live' = Live \cup {n} /\ db'.rev[n] = 1
    /\ \A k \in Live : db'.rev[k] = db.rev[k]
    /\ DOMAIN db'.unit = DOMAIN db.unit \cup F
    /\ \A u \in DOMAIN db.unit : db'.unit[u] = db.unit[u]
    /\ \A u \in F :
          /\ u \notin DOMAIN db.unit /\ u > db.units /\ u \in 1..db'.units
          /\ IsRow(db'.unit[u]) /\ db'.unit[u].object = n
          /\ \E v \in DOMAIN db.unit :
                /\ db.unit[v].object = o
                /\ db'.unit[u].shows = db.unit[v].shows /\ db'.unit[u].cites = db.unit[v].cites

LEMMA CopyWrites ==
    ASSUME IInv, NEW r \in Request, Copy(r), \A reply : ~Refuse(r, reply)
    PROVE  \E o, n, F : CopiedOnto(r, o, n, F)
  <1>1. PICK n, c, o, revs, units, derived, last :
            /\ n = db.objects + 1 /\ c = req[r].host /\ o = req[r].object
            /\ revs = Over(db.rev, [k \in {n} |-> 1])
            /\ units = Over(db.unit, Copied(c, n, db.units))
            /\ derived = db.derived \cup {<<n, o>>}
            /\ last = db.units + Cardinality(DOMAIN c)
    OBVIOUS
  <1>2. PICK new :
            /\ new = [db EXCEPT !.rev = revs, !.unit = units, !.derived = derived,
                                !.units = last, !.objects = n]
            /\ db' = new /\ Satisfied(new)
            /\ Answer(r, "ok") /\ req[r].pc = "locked" /\ req[r].op = "copy"
    <2>1. /\ req[r].pc = "locked" /\ req[r].op = "copy"
          /\ Commit(r, [db EXCEPT !.rev = revs, !.unit = units, !.derived = derived,
                                  !.units = last, !.objects = n])
      BY <1>1 DEF Copy, Committing
    <2> QED BY <2>1 DEF Commit
  <1>3. /\ db'.rev = revs /\ db'.unit = units /\ db'.captured = db.captured
        /\ db'.units = last /\ db'.objects = n /\ db'.link = db.link
        /\ db' = [rev |-> db'.rev, unit |-> db'.unit, link |-> db'.link,
                  derived |-> db'.derived, named |-> db'.named, braced |-> db'.braced,
                  units |-> db'.units, objects |-> db'.objects, captured |-> db'.captured]
    BY <1>2 DEF IInv, Tables
  <1>4. /\ Rows(c) /\ DOMAIN c \subseteq DOMAIN db.unit
        /\ \A u \in DOMAIN c : c[u] = db.unit[u] /\ db.unit[u].object = o
        /\ c = Content(o) /\ o \in Live
    BY <1>1, <1>2, AtCommit
  <1>5. /\ db.units \in Nat /\ db.objects \in Nat /\ db.captured \subseteq Int
        /\ DOMAIN db.unit \subseteq 1..db.units
        /\ Live \subseteq 1..db.objects
    BY DEF IInv, Tables
  <1>6. PICK copies, F : copies = Copied(c, n, db.units) /\ F = DOMAIN copies
    OBVIOUS
  <1>7. /\ Cardinality(DOMAIN c) \in Nat /\ Cardinality(F) = Cardinality(DOMAIN c)
        /\ \A i \in F :
              /\ i \in (db.units + 1)..last /\ IsRow(copies[i]) /\ copies[i].object = n
              /\ \E u \in DOMAIN c : copies[i].shows = c[u].shows /\ copies[i].cites = c[u].cites
    <2>1. DOMAIN c \subseteq 1..db.units
      BY <1>4, <1>5
    <2>2. CopiedShape(c, n, db.units)
      BY <1>4, <1>5, <2>1, CopiedRows
    <2> QED BY <1>1, <1>6, <2>2 DEF CopiedShape
  <1>8. Numbers
    BY <1>1, <1>3, <1>5, <1>7 DEF Numbers
  <1>9. /\ Live' = Live \cup {n} /\ db'.rev[n] = 1 /\ n \notin Live
        /\ \A k \in Live : db'.rev[k] = db.rev[k]
    BY <1>1, <1>3, <1>5 DEF Over, Live
  <1>10. \A i \in F : i \notin DOMAIN db.unit /\ i > db.units /\ i \in 1..last
    BY <1>1, <1>5, <1>7
  <1>11. /\ DOMAIN units = DOMAIN db.unit \cup F
         /\ \A u \in DOMAIN db.unit : units[u] = db.unit[u]
         /\ \A u \in F : units[u] = copies[u]
    BY <1>1, <1>6, <1>10 DEF Over
  <1>12. ASSUME NEW u \in F
         PROVE  /\ IsRow(units[u]) /\ units[u].object = n
                /\ \E v \in DOMAIN db.unit :
                      /\ db.unit[v].object = o
                      /\ units[u].shows = db.unit[v].shows /\ units[u].cites = db.unit[v].cites
    <2>1. PICK v \in DOMAIN c : copies[u].shows = c[v].shows /\ copies[u].cites = c[v].cites
      BY <1>7
    <2> QED BY <1>4, <1>7, <1>11, <2>1
  <1>13. \A u \in DOMAIN db.unit : u \in DOMAIN req[r].host <=> db.unit[u].object = o
    BY <1>1, <1>4 DEF Content
  <1>14. Satisfied(db')
    BY <1>2
  <1>15. CopiedOnto(r, o, n, F)
    <2>1. /\ Answer(r, "ok") /\ Numbers /\ Satisfied(db')
          /\ req[r].pc = "locked" /\ req[r].op = "copy"
          /\ o \in Live /\ n = db.objects + 1 /\ n \notin Live
      BY <1>1, <1>2, <1>4, <1>8, <1>9, <1>14
    <2>2. /\ DOMAIN req[r].host \subseteq DOMAIN db.unit
          /\ Cardinality(F) = Cardinality(DOMAIN req[r].host) /\ Cardinality(F) \in Nat
          /\ db'.units = db.units + Cardinality(F) /\ db'.objects = n
          /\ db'.captured = db.captured /\ db'.link = db.link
      BY <1>1, <1>3, <1>4, <1>7
    <2>3. /\ DOMAIN db'.unit = DOMAIN db.unit \cup F
          /\ \A u \in DOMAIN db.unit : db'.unit[u] = db.unit[u]
      BY <1>3, <1>11
    <2>4. \A u \in F :
             /\ u \notin DOMAIN db.unit /\ u > db.units /\ u \in 1..db'.units
             /\ IsRow(db'.unit[u]) /\ db'.unit[u].object = n
             /\ \E v \in DOMAIN db.unit :
                   /\ db.unit[v].object = o
                   /\ db'.unit[u].shows = db.unit[v].shows /\ db'.unit[u].cites = db.unit[v].cites
      BY <1>3, <1>10, <1>12
    <2> QED BY <1>9, <1>13, <2>1, <2>2, <2>3, <2>4 DEF CopiedOnto
  <1> QED BY <1>15

LEMMA CopyKeeps ==
    ASSUME IInv, NEW r \in Request, Copy(r), \A reply : ~Refuse(r, reply)
    PROVE  IInv'
  <1>1. PICK o, n, F : CopiedOnto(r, o, n, F)
    BY CopyWrites
  <1>2. /\ Answer(r, "ok") /\ Numbers /\ n = db.objects + 1
        /\ db'.objects = n /\ db'.captured = db.captured
        /\ Live' = Live \cup {n} /\ db'.rev[n] = 1
        /\ \A k \in Live : db'.rev[k] = db.rev[k]
    BY <1>1 DEF CopiedOnto
  <1>3. PICK units : units = db'.unit
    OBVIOUS
  <1>4. /\ DOMAIN units = DOMAIN db.unit \cup F
        /\ \A u \in DOMAIN db.unit : units[u] = db.unit[u]
        /\ \A u \in F : /\ u > db.units /\ u \in 1..db'.units
                        /\ IsRow(units[u]) /\ units[u].object = n
    BY <1>1, <1>3 DEF CopiedOnto
  <1>5. /\ db.units \in Nat /\ db.objects \in Nat /\ DOMAIN Start \subseteq 1..db.units
        /\ \A k \in Live : db.rev[k] \in Int /\ k \in 1..db.objects
    BY DEF IInv, Tables
  <1>6. PICK none : none = {}
    OBVIOUS
  <1>7. WritesOnly(r, none)
    <2>1. /\ \A k \in none \cap Live : Locks(r, k)
          /\ \A k \in Live \ none : k \in Live' /\ db'.rev[k] = db.rev[k]
          /\ \A k \in none \cap Live \cap Live' : db'.rev[k] > db.rev[k]
          /\ \A k \in Live' : db'.rev[k] \in Int
          /\ \A k \in Live' \ Live : k > db.objects /\ k \in 1..db'.objects
      BY <1>2, <1>5, <1>6
    <2>2. \A u \in DOMAIN units :
            \/ u \in DOMAIN db.unit /\ db.unit[u].object \notin none /\ units[u] = db.unit[u]
            \/ /\ u \in 1..db'.units
               /\ IsRow(units[u])
               /\ units[u].object \in Live'
               /\ units[u].object \in none \/ units[u].object \notin Live
               /\ u \in DOMAIN Start => units[u].shows = None
      BY <1>2, <1>4, <1>5, <1>6
    <2>3. \A u \in DOMAIN db.unit : u \in DOMAIN units /\ units[u] = db.unit[u]
      BY <1>4
    <2> QED BY <1>3, <2>1, <2>2, <2>3 DEF WritesOnly
  <1>8. AllShown'
    <2>1. \A k \in db'.captured : \E u \in DOMAIN units : units[u].shows = k
      BY <1>2, <1>4 DEF IInv, AllShown, Shown
    <2> QED BY <1>3, <2>1 DEF AllShown, Shown
  <1> QED BY <1>2, <1>7, <1>8, WriteKeeps

IsLink(l) == l = [from |-> l.from, fromUnit |-> l.fromUnit, to |-> l.to, toUnit |-> l.toUnit]

(* save_content of the paragraph u with the mention cite: the link is upserted, *)
(* and a link that was there keeps the object it is from.                       *)
Cites(r, o, u, cite) ==
    /\ Answer(r, "ok") /\ Numbers /\ Satisfied(db')
    /\ req[r].pc = "locked" /\ req[r].op = "save"
    /\ o \in Live /\ Locks(r, o)
    /\ cite = req[r].cite /\ u = req[r].root
    /\ u \in DOMAIN db.unit /\ db.unit[u].object = o /\ req[r].host[u] = db.unit[u]
    /\ db'.units = db.units /\ db'.objects = db.objects /\ db'.captured = db.captured
    /\ Live' = Live /\ db'.rev[o] = db.rev[o] + 1
    /\ \A k \in Live \ {o} : db'.rev[k] = db.rev[k]
    /\ DOMAIN db'.unit = DOMAIN db.unit
    /\ \A v \in DOMAIN db.unit :
          /\ IsRow(db'.unit[v]) /\ db'.unit[v].object = db.unit[v].object
          /\ db'.unit[v].shows = db.unit[v].shows
          /\ db'.unit[v].cites = IF v = u THEN cite ELSE db.unit[v].cites
          /\ v # u => db'.unit[v] = db.unit[v]
    /\ DOMAIN db'.link = DOMAIN db.link \cup {cite.link}
    /\ \A l \in DOMAIN db.link \ {cite.link} : db'.link[l] = db.link[l]
    /\ IsLink(db'.link[cite.link]) /\ db'.link[cite.link].fromUnit = u
    /\ cite.link \in DOMAIN db.link => db'.link[cite.link].from = db.link[cite.link].from

LEMMA SaveWrites ==
    ASSUME IInv, NEW r \in Request, Save(r), \A reply : ~Refuse(r, reply)
    PROVE  \E o, u, cite : Cites(r, o, u, cite)
  <1>1. PICK o, u, cite : o = req[r].object /\ u = req[r].root /\ cite = req[r].cite
    OBVIOUS
  <1>2. PICK row, to, toUnit :
            row = [from |-> IF cite.link \in DOMAIN db.link THEN db.link[cite.link].from ELSE o,
                   fromUnit |-> u, to |-> to, toUnit |-> toUnit]
            /\ to = (IF cite.object = o /\ cite.unit \notin DOMAIN req[r].host
                     THEN None ELSE cite.object)
            /\ toUnit = (IF cite.object = o /\ cite.unit \notin DOMAIN req[r].host
                         THEN None ELSE cite.unit)
    OBVIOUS
  <1>3. PICK revs, units, links :
            /\ revs = [db.rev EXCEPT ![o] = req[r].expected + 1]
            /\ units = [db.unit EXCEPT ![u].cites = cite]
            /\ links = Over([l \in {cite.link} |-> row], db.link)
    OBVIOUS
  <1>4. PICK new :
            /\ new = [db EXCEPT !.rev = revs, !.unit = units, !.link = links]
            /\ db' = new /\ Satisfied(new)
            /\ Answer(r, "ok") /\ req[r].pc = "locked" /\ req[r].op = "save"
    <2>1. /\ req[r].pc = "locked" /\ req[r].op = "save"
          /\ Commit(r, [db EXCEPT !.rev[o] = req[r].expected + 1, !.unit[u].cites = cite,
                                  !.link = links])
      BY <1>1, <1>2, <1>3 DEF Save, Committing
    <2>2. [db EXCEPT !.rev[o] = req[r].expected + 1, !.unit[u].cites = cite, !.link = links]
            = [db EXCEPT !.rev = revs, !.unit = units, !.link = links]
      BY <1>3
    <2> QED BY <2>1, <2>2 DEF Commit
  <1>5. /\ db'.rev = revs /\ db'.unit = units /\ db'.link = links /\ db'.captured = db.captured
        /\ db'.units = db.units /\ db'.objects = db.objects
        /\ db' = [rev |-> db'.rev, unit |-> db'.unit, link |-> db'.link,
                  derived |-> db'.derived, named |-> db'.named, braced |-> db'.braced,
                  units |-> db'.units, objects |-> db'.objects, captured |-> db'.captured]
    BY <1>4 DEF IInv, Tables
  <1>6. /\ Locks(r, o) /\ o \in Live
        /\ db.rev[o] = req[r].expected /\ req[r].expected \in Int
        /\ u \in DOMAIN db.unit /\ db.unit[u].object = o /\ req[r].host[u] = db.unit[u]
    BY <1>1, <1>4, AtCommit
  <1>7. /\ db.units \in Nat /\ db.objects \in Nat /\ db.captured \subseteq Int
        /\ \A v \in DOMAIN db.unit : IsRow(db.unit[v])
    BY DEF IInv, Tables, Rows
  <1>8. Numbers
    BY <1>5, <1>7 DEF Numbers
  <1>9. /\ Live' = Live /\ db'.rev[o] = db.rev[o] + 1
        /\ \A k \in Live \ {o} : db'.rev[k] = db.rev[k]
    BY <1>3, <1>5, <1>6 DEF Live
  <1>10. /\ DOMAIN units = DOMAIN db.unit
         /\ \A v \in DOMAIN db.unit :
               /\ IsRow(units[v]) /\ units[v].object = db.unit[v].object
               /\ units[v].shows = db.unit[v].shows
               /\ units[v].cites = IF v = u THEN cite ELSE db.unit[v].cites
               /\ v # u => units[v] = db.unit[v]
    <2>1. units[u] = [db.unit[u] EXCEPT !.cites = cite]
      BY <1>3, <1>6
    <2>2. \A v \in DOMAIN units : v # u => units[v] = db.unit[v]
      BY <1>3
    <2>3. IsRow(units[u]) /\ units[u].object = db.unit[u].object
            /\ units[u].shows = db.unit[u].shows /\ units[u].cites = cite
      BY <1>6, <1>7, <2>1 DEF IsRow
    <2> QED BY <1>3, <1>7, <2>2, <2>3
  <1>11. /\ DOMAIN links = DOMAIN db.link \cup {cite.link}
         /\ \A l \in DOMAIN db.link \ {cite.link} : links[l] = db.link[l]
         /\ IsLink(links[cite.link]) /\ links[cite.link].fromUnit = u
         /\ cite.link \in DOMAIN db.link => links[cite.link].from = db.link[cite.link].from
    <2>1. links[cite.link] = row
      BY <1>3 DEF Over
    <2>2. /\ IsLink(row) /\ row.fromUnit = u
          /\ cite.link \in DOMAIN db.link => row.from = db.link[cite.link].from
      BY <1>2 DEF IsLink
    <2>3. /\ DOMAIN links = DOMAIN db.link \cup {cite.link}
          /\ \A l \in DOMAIN db.link \ {cite.link} : links[l] = db.link[l]
      BY <1>3 DEF Over
    <2> QED BY <2>1, <2>2, <2>3
  <1>12. Satisfied(db')
    BY <1>4
  <1>13. Cites(r, o, u, cite)
    <2>1. /\ Answer(r, "ok") /\ Numbers /\ Satisfied(db')
          /\ req[r].pc = "locked" /\ req[r].op = "save" /\ o \in Live /\ Locks(r, o)
          /\ cite = req[r].cite /\ u = req[r].root
          /\ u \in DOMAIN db.unit /\ db.unit[u].object = o /\ req[r].host[u] = db.unit[u]
          /\ db'.units = db.units /\ db'.objects = db.objects /\ db'.captured = db.captured
      BY <1>1, <1>4, <1>5, <1>6, <1>8, <1>12
    <2>2. /\ DOMAIN db'.unit = DOMAIN db.unit
          /\ \A v \in DOMAIN db.unit :
                /\ IsRow(db'.unit[v]) /\ db'.unit[v].object = db.unit[v].object
                /\ db'.unit[v].shows = db.unit[v].shows
                /\ db'.unit[v].cites = IF v = u THEN cite ELSE db.unit[v].cites
                /\ v # u => db'.unit[v] = db.unit[v]
      BY <1>5, <1>10
    <2>3. /\ DOMAIN db'.link = DOMAIN db.link \cup {cite.link}
          /\ \A l \in DOMAIN db.link \ {cite.link} : db'.link[l] = db.link[l]
          /\ IsLink(db'.link[cite.link]) /\ db'.link[cite.link].fromUnit = u
          /\ cite.link \in DOMAIN db.link => db'.link[cite.link].from = db.link[cite.link].from
      BY <1>5, <1>11
    <2> QED BY <1>9, <2>1, <2>2, <2>3 DEF Cites
  <1> QED BY <1>13

LEMMA SaveKeeps ==
    ASSUME IInv, NEW r \in Request, Save(r), \A reply : ~Refuse(r, reply)
    PROVE  IInv'
  <1>1. PICK o, u, cite : Cites(r, o, u, cite)
    BY SaveWrites
  <1>2. /\ Answer(r, "ok") /\ Numbers /\ o \in Live /\ Locks(r, o)
        /\ db'.units = db.units /\ db'.objects = db.objects /\ db'.captured = db.captured
        /\ Live' = Live /\ db'.rev[o] = db.rev[o] + 1
        /\ \A k \in Live \ {o} : db'.rev[k] = db.rev[k]
    BY <1>1 DEF Cites
  <1>3. PICK units : units = db'.unit
    OBVIOUS
  <1>4. /\ DOMAIN units = DOMAIN db.unit
        /\ \A v \in DOMAIN units :
              /\ IsRow(units[v]) /\ units[v].object = db.unit[v].object
              /\ units[v].shows = db.unit[v].shows
              /\ v # u => units[v] = db.unit[v]
        /\ db.unit[u].object = o
    BY <1>1, <1>3 DEF Cites
  <1>5. /\ \A k \in Live : db.rev[k] \in Int
        /\ \A v \in DOMAIN db.unit :
              /\ v \in 1..db.units /\ db.unit[v].object \in Live
              /\ v \in DOMAIN Start => db.unit[v].shows = None
    BY DEF IInv, Tables
  <1>6. WritesOnly(r, {o})
    BY <1>2, <1>3, <1>4, <1>5 DEF WritesOnly
  <1>7. AllShown'
    BY <1>2, <1>3, <1>4 DEF IInv, AllShown, Shown
  <1> QED BY <1>2, <1>6, <1>7, WriteKeeps

(* A deleted paragraph, which is no embed, takes its links along.               *)
Drops(r, o, u) ==
    /\ Answer(r, "ok") /\ Numbers /\ Satisfied(db')
    /\ req[r].pc = "locked" /\ req[r].op = "delete"
    /\ o \in Live /\ Locks(r, o)
    /\ u \in DOMAIN db.unit /\ db.unit[u].object = o /\ db.unit[u].shows = None
    /\ db'.units = db.units /\ db'.objects = db.objects /\ db'.captured = db.captured
    /\ Live' = Live /\ db'.rev[o] = db.rev[o] + 1
    /\ \A k \in Live \ {o} : db'.rev[k] = db.rev[k]
    /\ DOMAIN db'.unit = DOMAIN db.unit \ {u}
    /\ \A v \in DOMAIN db'.unit : db'.unit[v] = db.unit[v]
    /\ DOMAIN db'.link =
            {l \in DOMAIN db.link : u \notin {db.link[l].fromUnit, db.link[l].toUnit}}
    /\ \A l \in DOMAIN db'.link : db'.link[l] = db.link[l]

LEMMA DeleteWrites ==
    ASSUME IInv, NEW r \in Request, Delete(r), \A reply : ~Refuse(r, reply)
    PROVE  \E o, u : Drops(r, o, u)
  <1>1. PICK o, u : o = req[r].object /\ u = req[r].root
    OBVIOUS
  <1>2. PICK revs, units, links, names, braces :
            /\ revs = [db.rev EXCEPT ![o] = req[r].expected + 1]
            /\ units = [v \in DOMAIN db.unit \ {u} |-> db.unit[v]]
            /\ links = [l \in {k \in DOMAIN db.link :
                                    u \notin {db.link[k].fromUnit, db.link[k].toUnit}}
                            |-> db.link[l]]
            /\ names = [v \in DOMAIN db.named \ {u} |-> db.named[v]]
            /\ braces = [v \in DOMAIN db.braced \ {u} |-> db.braced[v]]
    OBVIOUS
  <1>3. PICK new :
            /\ new = [db EXCEPT !.rev = revs, !.unit = units, !.link = links, !.named = names,
                                !.braced = braces]
            /\ db' = new /\ Satisfied(new)
            /\ Answer(r, "ok") /\ req[r].pc = "locked" /\ req[r].op = "delete"
    <2>1. /\ req[r].pc = "locked" /\ req[r].op = "delete"
          /\ Commit(r, [db EXCEPT !.rev = revs, !.unit = units, !.link = links, !.named = names,
                                  !.braced = braces])
      BY <1>1, <1>2 DEF Delete, Committing
    <2> QED BY <2>1 DEF Commit
  <1>4. /\ db'.rev = revs /\ db'.unit = units /\ db'.link = links /\ db'.captured = db.captured
        /\ db'.units = db.units /\ db'.objects = db.objects
        /\ db' = [rev |-> db'.rev, unit |-> db'.unit, link |-> db'.link,
                  derived |-> db'.derived, named |-> db'.named, braced |-> db'.braced,
                  units |-> db'.units, objects |-> db'.objects, captured |-> db'.captured]
    BY <1>3 DEF IInv, Tables
  <1>5. /\ Locks(r, o) /\ o \in Live
        /\ db.rev[o] = req[r].expected /\ req[r].expected \in Int
        /\ u \in DOMAIN db.unit /\ db.unit[u].object = o /\ u \in Deleted
    BY <1>1, <1>3, AtCommit
  <1>6. /\ db.units \in Nat /\ db.objects \in Nat /\ db.captured \subseteq Int
        /\ \A v \in DOMAIN db.unit \cap DOMAIN Start : db.unit[v].shows = None
    BY DEF IInv, Tables
  <1>7. Numbers
    BY <1>4, <1>6 DEF Numbers
  <1>8. /\ Live' = Live /\ db'.rev[o] = db.rev[o] + 1
        /\ \A k \in Live \ {o} : db'.rev[k] = db.rev[k]
    BY <1>2, <1>4, <1>5 DEF Live
  <1>9. db.unit[u].shows = None
    BY <1>5, <1>6, OwnershipAssumption
  <1>10. /\ DOMAIN db'.unit = DOMAIN db.unit \ {u}
         /\ \A v \in DOMAIN db'.unit : db'.unit[v] = db.unit[v]
         /\ DOMAIN db'.link =
                {l \in DOMAIN db.link : u \notin {db.link[l].fromUnit, db.link[l].toUnit}}
         /\ \A l \in DOMAIN db'.link : db'.link[l] = db.link[l]
    BY <1>2, <1>4
  <1>11. Satisfied(db')
    BY <1>3
  <1>12. Drops(r, o, u)
    BY <1>3, <1>4, <1>5, <1>7, <1>8, <1>9, <1>10, <1>11 DEF Drops
  <1> QED BY <1>12

LEMMA DeleteKeeps ==
    ASSUME IInv, NEW r \in Request, Delete(r), \A reply : ~Refuse(r, reply)
    PROVE  IInv'
  <1>1. PICK o, u : Drops(r, o, u)
    BY DeleteWrites
  <1>2. /\ Answer(r, "ok") /\ Numbers /\ o \in Live /\ Locks(r, o)
        /\ db'.units = db.units /\ db'.objects = db.objects /\ db'.captured = db.captured
        /\ Live' = Live /\ db'.rev[o] = db.rev[o] + 1
        /\ \A k \in Live \ {o} : db'.rev[k] = db.rev[k]
        /\ u \in DOMAIN db.unit /\ db.unit[u].object = o /\ db.unit[u].shows = None
    BY <1>1 DEF Drops
  <1>3. PICK units : units = db'.unit
    OBVIOUS
  <1>4. DOMAIN units = DOMAIN db.unit \ {u} /\ \A v \in DOMAIN units : units[v] = db.unit[v]
    BY <1>1, <1>3 DEF Drops
  <1>5. /\ \A k \in Live : db.rev[k] \in Int
        /\ \A v \in DOMAIN db.unit :
              /\ v \in 1..db.units /\ IsRow(db.unit[v]) /\ db.unit[v].object \in Live
              /\ v \in DOMAIN Start => db.unit[v].shows = None
        /\ db.captured \subseteq Int
    BY DEF IInv, Tables, Rows
  <1>6. WritesOnly(r, {o})
    BY <1>2, <1>3, <1>4, <1>5 DEF WritesOnly
  <1>7. AllShown'
    <2>1. None \notin db.captured
      BY <1>5, OwnershipAssumption
    <2>2. \A k \in db'.captured : \E v \in DOMAIN units : units[v].shows = k
      BY <1>2, <1>4, <2>1 DEF IInv, AllShown, Shown
    <2> QED BY <1>3, <2>2 DEF AllShown, Shown
  <1> QED BY <1>2, <1>6, <1>7, WriteKeeps

--------------------------------------------------------------------------------
LEMMA HandleKeeps ==
    ASSUME IInv, NEW r \in Request, Handle(r)
    PROVE  IInv'
  <1>1. CASE \E reply : Refuse(r, reply)
    BY <1>1, RefuseKeeps
  <1>2. CASE \A reply : ~Refuse(r, reply)
    <2>1. CASE ReadDissolved(r) \/ ReadInbound(r)
      BY <2>1, ReadKeeps
    <2>2. CASE LockDissolved(r)
      BY <2>2, LockKeeps
    <2>3. CASE Gate(r)
      BY <2>3, GateKeeps
    <2>4. CASE Rehome(r)
      BY <1>2, <2>4, RehomeKeeps
    <2>5. CASE Dissolve(r)
      BY <1>2, <2>5, DissolveKeeps
    <2>6. CASE Copy(r)
      BY <1>2, <2>6, CopyKeeps
    <2>7. CASE Save(r)
      BY <1>2, <2>7, SaveKeeps
    <2>8. CASE Delete(r)
      BY <1>2, <2>8, DeleteKeeps
    <2>9. CASE Victim(r)
      BY <1>2, <2>9 DEF Victim
    <2> QED BY <2>1, <2>2, <2>3, <2>4, <2>5, <2>6, <2>7, <2>8, <2>9 DEF Handle
  <1> QED BY <1>1, <1>2

LEMMA InitHolds == Init => IInv
  <1> SUFFICES ASSUME Init PROVE IInv
    OBVIOUS
  <1>1. PICK named :
            db = [rev |-> [o \in Days |-> 1], unit |-> Start, link |-> << >>, derived |-> {},
                  named |-> named, braced |-> << >>,
                  units |-> Cardinality(DOMAIN Start), objects |-> Cardinality(Days),
                  captured |-> {}]
    BY DEF Init
  <1>2. Cardinality(DOMAIN Start) \in Nat /\ Cardinality(Days) \in Nat
    BY OwnershipAssumption, FS_CardinalityType
  <1>3. Live = Days /\ db.unit = Start
    BY <1>1 DEF Live
  <1>4. Tables
    BY <1>1, <1>2, <1>3, OwnershipAssumption DEF Tables, Rows, Live
  <1>5. req = [r \in Request |-> Idle] /\ lock = {}
    BY DEF Init
  <1>6. IsRequest(Idle) /\ Idle.pc = "idle"
    BY DEF IsRequest, Idle
  <1>7. Handlers
    BY <1>5, <1>6 DEF Handlers, Known, PastGates, Exclusive
  <1>8. AllShown
    BY <1>1 DEF AllShown
  <1> QED BY <1>4, <1>7, <1>8 DEF IInv

LEMMA StepKeeps == IInv /\ [Next]_vars => IInv'
  <1> SUFFICES ASSUME IInv, [Next]_vars PROVE IInv'
    OBVIOUS
  <1>1. CASE Brace
    BY <1>1, BraceKeeps
  <1>2. CASE \E r \in Request : Arrive(r) \/ Handle(r)
    BY <1>2, ArriveKeeps, HandleKeeps
  <1>3. CASE UNCHANGED vars
    BY <1>3 DEF vars, IInv, Tables, Handlers, AllShown, Shown, Live, Rows, Known, Reading,
                ReadingOther, PastGates, Exclusive, Locks, Current, Content
  <1> QED BY <1>1, <1>2, <1>3 DEF Next

(* In every state of every behaviour: ids are given out once, who is past a     *)
(* gate holds the row and has the content as it is, and what was captured is    *)
(* shown.                                                                       *)
THEOREM OwnershipInvariant == Spec => []IInv
  BY InitHolds, StepKeeps, PTL DEF Spec

(* rehome_subtree and dissolve_object: whatever requests cross, what was        *)
(* captured is shown by an embed until it is folded back.                       *)
THEOREM OwnershipNeverOrphaned == Spec => []NeverOrphaned
  <1>1. IInv => NeverOrphaned
    BY DEF IInv, AllShown, Shown, NeverOrphaned, Home!NeverOrphaned, Page
  <1> QED BY <1>1, OwnershipInvariant, PTL

(* What is written at COMMIT was computed by the core from the content the      *)
(* tables hold at that moment, of the dissolved object too when its own gate    *)
(* passes; the reads were queries of their own, long before.                    *)
NothingStale ==
    \A r \in Request : req[r].pc = "locked" =>
        /\ req[r].host = Content(req[r].object)
        /\ req[r].op = "dissolve" /\ DissolvedCurrent(r) => req[r].folded = Content(req[r].other)

(* persistObjectGraph, persistRehome, persistDissolve: the revision gates are    *)
(* enough, for reads and requests in any order.                                 *)
THEOREM OwnershipNothingStale == Spec => []NothingStale
  <1>1. IInv => NothingStale
    BY AtCommit DEF NothingStale
  <1> QED BY <1>1, OwnershipInvariant, PTL

--------------------------------------------------------------------------------
(* Ownership implements OneHome: whatever the tables, the handlers and their    *)
(* locks do, a reader of units, embeds and citations sees captures, foldings    *)
(* back, copies and saves of one object, each in one step.                      *)

(* What the mapping needs beside the inductive invariant above:                 *)
(* the constraints hold of what is committed, an embed cites nothing, a save    *)
(* writes no embed, a deletion leaves nothing below, and there are ids left for *)
(* what is under way.                                                           *)

Values ==
    \A u \in DOMAIN db.unit :
        /\ db.unit[u].cites \in Atom \cup {None}
        /\ db.unit[u].shows \in Object \cup {None}
        /\ db.unit[u].shows # None => db.unit[u].cites = None

Writing(q) ==
    /\ q.pc # "idle" /\ q.op = "save" => q.cite \in Atom /\ q.host[q.root].shows = None
    /\ q.pc # "idle" /\ q.op = "delete" => Tree!Kids(q.host, q.root) = {}

LinkRows == \A l \in DOMAIN db.link : IsLink(db.link[l])

Constraints ==
    /\ Satisfied(db)
    /\ Values
    /\ LinkRows
    /\ \A r \in Request : Writing(req[r])

MInv == IInv /\ Constraints /\ Room
--------------------------------------------------------------------------------
(* There is room: an answer gives back what its request was counted for.        *)

LEMMA OwedFinite ==
    /\ IsFiniteSet(Owed) /\ Cardinality(Owed) \in Nat
    /\ IsFiniteSet(Makers) /\ Cardinality(Makers) \in Nat
  <1>1. IsFiniteSet(Request) /\ IsFiniteSet(Unit)
    BY OwnershipAssumption, FS_Interval DEF Unit
  <1>2. IsFiniteSet(Request \X Unit)
    BY <1>1, FS_Product
  <1>3. Owed \subseteq Request \X Unit /\ Makers \subseteq Request
    BY DEF Owed, Makers
  <1>4. IsFiniteSet(Owed) /\ IsFiniteSet(Makers)
    BY <1>1, <1>2, <1>3, FS_Subset
  <1> QED BY <1>4, FS_CardinalityType

LEMMA RoomStays ==
    ASSUME Tables, Room, db'.units = db.units, db'.objects = db.objects,
           \A q \in Request : /\ Due(req[q])' \subseteq Due(req[q])
                              /\ Making(req[q])' => Making(req[q])
    PROVE  Room'
  <1>1. Owed' \subseteq Owed /\ Makers' \subseteq Makers
    BY DEF Owed, Makers
  <1>2. PICK o, m, o1, m1 : o = Owed /\ m = Makers /\ o1 = Owed' /\ m1 = Makers'
    OBVIOUS
  <1>3. /\ IsFiniteSet(o) /\ Cardinality(o) \in Nat
        /\ IsFiniteSet(m) /\ Cardinality(m) \in Nat
    BY <1>2, OwedFinite
  <1>4. /\ Cardinality(o1) <= Cardinality(o) /\ IsFiniteSet(o1)
        /\ Cardinality(m1) <= Cardinality(m) /\ IsFiniteSet(m1)
    BY <1>1, <1>2, <1>3, FS_Subset
  <1>5. Cardinality(o1) \in Nat /\ Cardinality(m1) \in Nat
    BY <1>4, FS_CardinalityType
  <1>6. /\ db.units + Cardinality(o) <= MaxUnit
        /\ db.objects + Cardinality(m) <= MaxObject
        /\ db.units \in Nat /\ db.objects \in Nat
    BY <1>2 DEF Room, Tables
  <1>7. db.units + Cardinality(o1) <= MaxUnit /\ db.objects + Cardinality(m1) <= MaxObject
    BY <1>3, <1>4, <1>5, <1>6, OwnershipAssumption
  <1> QED BY <1>2, <1>7 DEF Room

LEMMA RoomMade ==
    ASSUME Tables, Handlers, Room, NEW r \in Request, NEW reply, Answer(r, reply),
           Making(req[r]), Due(req[r]) \subseteq Unit,
           db'.units = db.units + Cardinality(Due(req[r])), db'.objects = db.objects + 1
    PROVE  /\ Room'
           /\ db'.units <= MaxUnit /\ db'.objects <= MaxObject
  <1>1. PICK D, o, m, o1, m1, P :
            /\ D = Due(req[r]) /\ o = Owed /\ m = Makers /\ o1 = Owed' /\ m1 = Makers'
            /\ P = {r} \X D
    OBVIOUS
  <1>2. /\ IsFiniteSet(o) /\ Cardinality(o) \in Nat
        /\ IsFiniteSet(m) /\ Cardinality(m) \in Nat
    BY <1>1, OwedFinite
  <1>3. \A q \in Request \ {r} : req'[q] = req[q]
    BY DEF Answer, Handlers
  <1>4. req'[r].pc = "idle"
    BY DEF Answer, Handlers, Idle
  <1>5. o1 \subseteq o \ P
    <2>1. Due(req[r])' = {} /\ \A q \in Request \ {r} : Due(req[q])' = Due(req[q])
      BY <1>3, <1>4 DEF Due
    <2> QED BY <1>1, <2>1 DEF Owed
  <1>6. m1 \subseteq m \ {r} /\ r \in m
    BY <1>1, <1>3, <1>4 DEF Makers, Making
  <1>7. P \subseteq o
    BY <1>1 DEF Owed
  <1>8. Cardinality(P) = Cardinality(D) /\ Cardinality(D) \in Nat
    <2>1. IsFiniteSet(Unit)
      BY OwnershipAssumption, FS_Interval DEF Unit
    <2>2. IsFiniteSet(D)
      BY <1>1, <2>1, FS_Subset
    <2>3. Cardinality(D) \in Nat /\ IsFiniteSet({r}) /\ Cardinality({r}) = 1
      BY <2>2, FS_CardinalityType, FS_Singleton
    <2>4. Cardinality(P) = Cardinality({r}) * Cardinality(D)
      BY <1>1, <2>2, <2>3, FS_Product
    <2> QED BY <2>3, <2>4
  <1>9. IsFiniteSet(o \ P) /\ Cardinality(o \ P) = Cardinality(o) - Cardinality(D)
    <2>1. o \cap P = P
      BY <1>7
    <2>2. IsFiniteSet(o \ P) /\ Cardinality(o \ P) = Cardinality(o) - Cardinality(o \cap P)
      BY <1>2, FS_Difference
    <2> QED BY <1>8, <2>1, <2>2
  <1>10. IsFiniteSet(m \ {r}) /\ Cardinality(m \ {r}) = Cardinality(m) - 1
    BY <1>2, <1>6, FS_RemoveElement
  <1>11. /\ Cardinality(o1) <= Cardinality(o) - Cardinality(D) /\ IsFiniteSet(o1)
         /\ Cardinality(m1) <= Cardinality(m) - 1 /\ IsFiniteSet(m1)
    <2>1. IsFiniteSet(o1) /\ Cardinality(o1) <= Cardinality(o \ P)
      BY <1>5, <1>9, FS_Subset
    <2>2. IsFiniteSet(m1) /\ Cardinality(m1) <= Cardinality(m \ {r})
      BY <1>6, <1>10, FS_Subset
    <2> QED BY <1>9, <1>10, <2>1, <2>2
  <1>12. Cardinality(o1) \in Nat /\ Cardinality(m1) \in Nat
    BY <1>11, FS_CardinalityType
  <1>13. /\ db.units + Cardinality(o) <= MaxUnit
         /\ db.objects + Cardinality(m) <= MaxObject
         /\ db.units \in Nat /\ db.objects \in Nat
    BY <1>1 DEF Room, Tables
  <1>14. /\ db'.units + Cardinality(o1) <= MaxUnit /\ db'.objects + Cardinality(m1) <= MaxObject
         /\ db'.units <= MaxUnit /\ db'.objects <= MaxObject
    <2>1. PICK cu, co, cu1, co1, d, ko, km, ko1, km1 :
            /\ cu = db.units /\ co = db.objects /\ cu1 = db'.units /\ co1 = db'.objects
            /\ d = Cardinality(D) /\ ko = Cardinality(o) /\ km = Cardinality(m)
            /\ ko1 = Cardinality(o1) /\ km1 = Cardinality(m1)
      OBVIOUS
    <2>2. cu1 = cu + d /\ co1 = co + 1 /\ cu \in Nat /\ co \in Nat
      BY <1>1, <1>13, <2>1
    <2>3. /\ d \in Nat /\ ko \in Nat /\ km \in Nat /\ ko1 \in Nat /\ km1 \in Nat
          /\ ko1 <= ko - d /\ km1 <= km - 1
      BY <1>2, <1>8, <1>11, <1>12, <2>1
    <2>4. cu + ko <= MaxUnit /\ co + km <= MaxObject /\ MaxUnit \in Nat /\ MaxObject \in Nat
      BY <1>13, <2>1, OwnershipAssumption
    <2>5. cu1 + ko1 <= MaxUnit /\ co1 + km1 <= MaxObject /\ cu1 <= MaxUnit /\ co1 <= MaxObject
      BY <2>2, <2>3, <2>4
    <2> QED BY <2>1, <2>5
  <1> QED BY <1>1, <1>14 DEF Room

--------------------------------------------------------------------------------
(* Steps that leave the tables alone are stutters.                              *)

LEMMA Stutters == UNCHANGED db => UNCHANGED Home!vars
  BY DEF Home!vars, Page, Live, Cited

(* A handler that reads, waits or locks has the request it had.                 *)
SameRequest(q, p) ==
    /\ q.pc # "idle" /\ p.pc # "idle"
    /\ q.op = p.op /\ q.root = p.root /\ q.cite = p.cite /\ q.host = p.host

LEMMA HandlersMean ==
    ASSUME MInv, UNCHANGED db,
           \A s \in Request : \/ req'[s] = req[s]
                              \/ req'[s].pc = "idle"
                              \/ SameRequest(req[s], req'[s])
    PROVE  Constraints' /\ Room'
  <1>1. Satisfied(db)' /\ Values' /\ LinkRows'
    BY DEF MInv, Constraints, Satisfied, Values, Placed, LinkRows
  <1>2. ASSUME NEW s \in Request
        PROVE  /\ Writing(req[s])'
               /\ Due(req[s])' \subseteq Due(req[s])
               /\ Making(req[s])' => Making(req[s])
    <2>1. PICK q, p : q = req[s] /\ p = req'[s]
      OBVIOUS
    <2>2. q = p \/ p.pc = "idle" \/ SameRequest(q, p)
      BY <2>1
    <2>3. Writing(q)
      BY <2>1 DEF MInv, Constraints
    <2>4. Writing(p) /\ Due(p) \subseteq Due(q) /\ (Making(p) => Making(q))
      BY <2>2, <2>3 DEF SameRequest, Writing, Due, Making
    <2> QED BY <2>1, <2>4 DEF Writing, Due, Making
  <1>3. Room'
    BY <1>2, RoomStays DEF MInv, IInv
  <1> QED BY <1>1, <1>2, <1>3 DEF Constraints

LEMMA RefuseMeans ==
    ASSUME MInv, NEW r \in Request, NEW reply, Refuse(r, reply)
    PROVE  Constraints' /\ Room' /\ UNCHANGED Home!vars
  <1>1. UNCHANGED db
    BY DEF Refuse
  <1>2. \A s \in Request : req'[s] = req[s] \/ req'[s].pc = "idle"
    BY DEF Refuse, Answer, MInv, IInv, Handlers, Idle
  <1> QED BY <1>1, <1>2, HandlersMean, Stutters

LEMMA WaitMeans ==
    ASSUME MInv, NEW r \in Request,
           ReadDissolved(r) \/ ReadInbound(r) \/ LockDissolved(r) \/ Gate(r),
           \A reply : ~Refuse(r, reply)
    PROVE  Constraints' /\ Room' /\ UNCHANGED Home!vars
  <1>1. PICK q : q = req[r] /\ IsRequest(q)
    BY DEF MInv, IInv, Handlers, Known
  <1>2. /\ UNCHANGED db
        /\ q.pc # "idle"
        /\ \/ req' = [req EXCEPT ![r] = [q EXCEPT !.pc = "read", !.folded = Content(q.other)]]
           \/ \E pc \in {"ready", "lockedOther", "locked"} :
                    req' = [req EXCEPT ![r] = [q EXCEPT !.pc = pc]]
    <2>1. CASE ReadDissolved(r)
      BY <1>1, <2>1 DEF ReadDissolved
    <2>2. CASE ReadInbound(r)
      BY <1>1, <2>2 DEF ReadInbound
    <2>3. CASE LockDissolved(r)
      BY <1>1, <2>3 DEF LockDissolved
    <2>4. CASE Gate(r)
      BY <1>1, <2>4 DEF Gate, AtGate
    <2> QED BY <2>1, <2>2, <2>3, <2>4
  <1>3. PICK p : req' = [req EXCEPT ![r] = p] /\ SameRequest(q, p)
    <2>1. CASE req' = [req EXCEPT ![r] = [q EXCEPT !.pc = "read", !.folded = Content(q.other)]]
      <3>1. PICK p : p = [q EXCEPT !.pc = "read", !.folded = Content(q.other)]
        OBVIOUS
      <3>2. SameRequest(q, p)
        BY <1>1, <1>2, <3>1 DEF SameRequest, IsRequest
      <3> QED BY <2>1, <3>1, <3>2
    <2>2. ASSUME NEW pc \in {"ready", "lockedOther", "locked"},
                 req' = [req EXCEPT ![r] = [q EXCEPT !.pc = pc]]
          PROVE  \E p : req' = [req EXCEPT ![r] = p] /\ SameRequest(q, p)
      <3>1. PICK p : p = [q EXCEPT !.pc = pc]
        OBVIOUS
      <3>2. SameRequest(q, p)
        BY <1>1, <1>2, <3>1 DEF SameRequest, IsRequest
      <3> QED BY <2>2, <3>1, <3>2
    <2> QED BY <1>2, <2>1, <2>2
  <1>4. \A s \in Request : req'[s] = req[s] \/ SameRequest(req[s], req'[s])
    BY <1>1, <1>3 DEF MInv, IInv, Handlers
  <1> QED BY <1>2, <1>4, HandlersMean, Stutters

LEMMA ReceiveMeans ==
    ASSUME MInv, NEW r \in Request, NEW o, NEW request, Receive(r, o, request),
           IsRequest(request),
           request.op = "save" => /\ request.cite \in Atom
                                  /\ request.root \in DOMAIN Content(o)
                                  /\ db.unit[request.root].shows = None,
           request.op = "delete" => Tree!Kids(db.unit, request.root) = {}
    PROVE  Constraints' /\ Room' /\ UNCHANGED Home!vars
  <1>1. UNCHANGED db /\ Room'
    BY DEF Receive
  <1>2. Satisfied(db)' /\ Values' /\ LinkRows'
    BY <1>1 DEF MInv, Constraints, Satisfied, Values, Placed, LinkRows
  <1>3. PICK q : q = [request EXCEPT !.object = o, !.expected = db.rev[o], !.host = Content(o)]
    OBVIOUS
  <1>4. q.op = request.op /\ q.cite = request.cite /\ q.root = request.root /\ q.host = Content(o)
    BY <1>3 DEF IsRequest
  <1>5. Writing(q)
    <2>1. request.root \in DOMAIN Content(o) => Content(o)[request.root] = db.unit[request.root]
      BY DEF Content
    <2>2. Tree!Kids(Content(o), request.root) \subseteq Tree!Kids(db.unit, request.root)
      BY DEF Content, Tree!Kids
    <2> QED BY <1>4, <2>1, <2>2 DEF Writing
  <1>6. req' = [req EXCEPT ![r] = q]
    BY <1>3 DEF Receive
  <1>7. \A s \in Request : Writing(req[s])'
    <2>1. ASSUME NEW s \in Request
          PROVE  Writing(req[s])'
      <3>1. req'[s] = IF s = r THEN q ELSE req[s]
        BY <1>6 DEF MInv, IInv, Handlers
      <3>2. PICK p : p = req'[s]
        OBVIOUS
      <3>3. Writing(p)
        BY <1>5, <3>1, <3>2 DEF MInv, Constraints
      <3> QED BY <3>2, <3>3 DEF Writing
    <2> QED BY <2>1
  <1> QED BY <1>1, <1>2, <1>7, Stutters DEF Constraints

LEMMA InBounds ==
    MInv => /\ db.units \in Nat /\ db.units <= MaxUnit
            /\ db.objects \in Nat /\ db.objects <= MaxObject
            /\ DOMAIN db.unit \subseteq Unit /\ Live \subseteq Object
            /\ \A u \in DOMAIN db.unit : db.unit[u].object \in Object
  <1> SUFFICES ASSUME MInv
               PROVE  /\ db.units \in Nat /\ db.units <= MaxUnit
                      /\ db.objects \in Nat /\ db.objects <= MaxObject
                      /\ DOMAIN db.unit \subseteq Unit /\ Live \subseteq Object
                      /\ \A u \in DOMAIN db.unit : db.unit[u].object \in Object
    OBVIOUS
  <1>1. PICK k, m : k = Cardinality(Owed) /\ m = Cardinality(Makers) /\ k \in Nat /\ m \in Nat
    BY OwedFinite
  <1>2. db.units + k <= MaxUnit /\ db.objects + m <= MaxObject
    BY <1>1 DEF MInv, Room
  <1>3. db.units \in Nat /\ db.objects \in Nat
    BY DEF MInv, IInv, Tables
  <1>4. db.units <= MaxUnit /\ db.objects <= MaxObject
    BY <1>1, <1>2, <1>3, OwnershipAssumption
  <1>5. /\ DOMAIN db.unit \subseteq 1..db.units /\ Live \subseteq 1..db.objects
        /\ \A u \in DOMAIN db.unit : db.unit[u].object \in Live
    BY DEF MInv, IInv, Tables
  <1>6. DOMAIN db.unit \subseteq Unit /\ Live \subseteq Object
    BY <1>3, <1>4, <1>5, OwnershipAssumption DEF Unit, Object
  <1> QED BY <1>3, <1>4, <1>5, <1>6

LEMMA ArriveMeans ==
    ASSUME MInv, NEW r \in Request, Arrive(r)
    PROVE  Constraints' /\ Room' /\ UNCHANGED Home!vars
  <1>1. /\ Values /\ DOMAIN db.unit \subseteq Unit
        /\ \A u \in DOMAIN db.unit : /\ db.unit[u].object \in Object
                                     /\ u \in DOMAIN Content(db.unit[u].object)
                                     /\ u \in DOMAIN Start => db.unit[u].shows = None
    BY InBounds DEF MInv, IInv, Tables, Constraints, Content
  <1>2. CASE ReceiveRehome(r)
    <2>1. PICK o, u :
            Receive(r, o, [Idle EXCEPT !.pc = "ready", !.op = "rehome", !.root = u])
      BY <1>2 DEF ReceiveRehome
    <2>2. PICK q : q = [Idle EXCEPT !.pc = "ready", !.op = "rehome", !.root = u]
      OBVIOUS
    <2>3. IsRequest(q) /\ q.op = "rehome"
      BY <2>2 DEF IsRequest, Idle
    <2> QED BY <2>1, <2>2, <2>3, ReceiveMeans
  <1>3. CASE ReceiveDissolve(r)
    <2>1. PICK o, d :
            Receive(r, o, [Idle EXCEPT !.pc = "reading", !.op = "dissolve", !.other = d,
                                       !.expectedOther = db.rev[d]])
      BY <1>3 DEF ReceiveDissolve
    <2>2. PICK q : q = [Idle EXCEPT !.pc = "reading", !.op = "dissolve", !.other = d,
                                    !.expectedOther = db.rev[d]]
      OBVIOUS
    <2>3. IsRequest(q) /\ q.op = "dissolve"
      BY <2>2 DEF IsRequest, Idle
    <2> QED BY <2>1, <2>2, <2>3, ReceiveMeans
  <1>4. CASE ReceiveCopy(r)
    <2>1. PICK o : Receive(r, o, [Idle EXCEPT !.pc = "ready", !.op = "copy"])
      BY <1>4 DEF ReceiveCopy
    <2>2. PICK q : q = [Idle EXCEPT !.pc = "ready", !.op = "copy"]
      OBVIOUS
    <2>3. IsRequest(q) /\ q.op = "copy"
      BY <2>2 DEF IsRequest, Idle
    <2> QED BY <2>1, <2>2, <2>3, ReceiveMeans
  <1>5. CASE ReceiveSave(r)
    <2>1. PICK u \in DOMAIN db.unit :
            /\ db.unit[u].cites # None
            /\ Receive(r, db.unit[u].object, [Idle EXCEPT !.pc = "ready", !.op = "save", !.root = u,
                                                          !.cite = db.unit[u].cites])
      BY <1>5 DEF ReceiveSave
    <2>2. PICK q : q = [Idle EXCEPT !.pc = "ready", !.op = "save", !.root = u,
                                    !.cite = db.unit[u].cites]
      OBVIOUS
    <2>3. IsRequest(q) /\ q.op = "save" /\ q.root = u /\ q.cite = db.unit[u].cites
      BY <2>2 DEF IsRequest, Idle
    <2>4. q.cite \in Atom /\ db.unit[u].shows = None
      BY <1>1, <2>1, <2>3 DEF Values
    <2> QED BY <1>1, <2>1, <2>2, <2>3, <2>4, ReceiveMeans
  <1>6. CASE ReceiveCite(r)
    <2>1. PICK u, v, cite :
            /\ u \in DOMAIN db.unit /\ v \in DOMAIN db.unit /\ u \in DOMAIN Start
            /\ cite = [link |-> u, object |-> db.unit[v].object, unit |-> v]
            /\ Receive(r, db.unit[u].object, [Idle EXCEPT !.pc = "ready", !.op = "save",
                                                          !.root = u, !.cite = cite])
      BY <1>6, OwnershipAssumption DEF ReceiveCite
    <2>2. PICK q : q = [Idle EXCEPT !.pc = "ready", !.op = "save", !.root = u, !.cite = cite]
      OBVIOUS
    <2>3. IsRequest(q) /\ q.op = "save" /\ q.root = u /\ q.cite = cite
      BY <2>2 DEF IsRequest, Idle
    <2>4. u \in Unit /\ v \in Unit /\ db.unit[v].object \in Object
      BY <1>1, <2>1
    <2>5. q.cite \in Atom
      BY <2>1, <2>3, <2>4 DEF Atom
    <2>6. db.unit[u].shows = None
      BY <1>1, <2>1
    <2> QED BY <1>1, <2>1, <2>2, <2>3, <2>5, <2>6, ReceiveMeans
  <1>7. CASE ReceiveDelete(r)
    <2>1. PICK o, u :
            /\ Tree!Kids(db.unit, u) = {}
            /\ Receive(r, o, [Idle EXCEPT !.pc = "ready", !.op = "delete", !.root = u])
      BY <1>7 DEF ReceiveDelete
    <2>2. PICK q : q = [Idle EXCEPT !.pc = "ready", !.op = "delete", !.root = u]
      OBVIOUS
    <2>3. IsRequest(q) /\ q.op = "delete" /\ q.root = u
      BY <2>2 DEF IsRequest, Idle
    <2> QED BY <2>1, <2>2, <2>3, ReceiveMeans
  <1> QED BY <1>2, <1>3, <1>4, <1>5, <1>6, <1>7 DEF Arrive

LEMMA BraceMeans ==
    ASSUME MInv, Brace
    PROVE  Constraints' /\ Room' /\ UNCHANGED Home!vars
  <1>1. PICK u \in DOMAIN db.unit :
            /\ db' = [db EXCEPT !.braced = [v \in {u} |-> db.unit[v].object]]
            /\ UNCHANGED req
    BY DEF Brace
  <1>2. PICK braced : braced = [v \in {u} |-> db.unit[v].object]
    OBVIOUS
  <1>3. db' = [db EXCEPT !.braced = braced]
    BY <1>1, <1>2
  <1>4. /\ db'.rev = db.rev /\ db'.unit = db.unit /\ db'.link = db.link
        /\ db'.derived = db.derived /\ db'.named = db.named /\ db'.braced = braced
        /\ db'.units = db.units /\ db'.objects = db.objects /\ db'.captured = db.captured
    BY <1>3 DEF MInv, IInv, Tables
  <1>5. Satisfied(db)'
    BY <1>2, <1>4 DEF MInv, Constraints, Satisfied, Placed
  <1>6. Values' /\ LinkRows' /\ \A r \in Request : Writing(req[r])'
    BY <1>1, <1>4 DEF MInv, Constraints, Values, LinkRows, Writing
  <1>7. Room'
    BY <1>1, <1>4 DEF MInv, Room, Owed, Makers, Due, Making
  <1>8. UNCHANGED Home!vars
    BY <1>4 DEF Home!vars, Page, Live, Cited
  <1> QED BY <1>5, <1>6, <1>7, <1>8 DEF Constraints

--------------------------------------------------------------------------------
(* The transactions that commit.                                                *)

LEMMA PageEntries ==
    ASSUME NEW units,
           \A u \in DOMAIN units : /\ units[u].object \in Object
                                   /\ units[u].cites \in Atom \cup {None}
                                   /\ units[u].shows \in Object \cup {None}
    PROVE  [u \in DOMAIN units |-> [home |-> units[u].object, says |-> units[u].cites,
                                    shows |-> units[u].shows]]
                \in [DOMAIN units -> Home!Entry]
  BY DEF Home!Entry

LEMMA AnswerMeans ==
    ASSUME MInv, NEW r \in Request, NEW reply, Answer(r, reply)
    PROVE  \A s \in Request : Writing(req[s])' /\ (s # r => req'[s] = req[s])
  <1>1. ASSUME NEW s \in Request
        PROVE  Writing(req[s])' /\ (s # r => req'[s] = req[s])
    <2>1. s # r => req'[s] = req[s]
      BY DEF Answer, MInv, IInv, Handlers
    <2>2. s = r => req'[s].pc = "idle"
      BY DEF Answer, MInv, IInv, Handlers, Idle
    <2>3. PICK p : p = req'[s]
      OBVIOUS
    <2>4. Writing(p)
      BY <2>1, <2>2, <2>3 DEF MInv, Constraints, Writing
    <2> QED BY <2>1, <2>3, <2>4 DEF Writing
  <1> QED BY <1>1

LEMMA AnswerRoom ==
    ASSUME MInv, NEW r \in Request, NEW reply, Answer(r, reply),
           db'.units = db.units, db'.objects = db.objects
    PROVE  Room'
  <1>1. \A s \in Request : req'[s] = req[s] \/ req'[s].pc = "idle"
    BY DEF Answer, MInv, IInv, Handlers, Idle
  <1>2. ASSUME NEW s \in Request
        PROVE  /\ Due(req[s])' \subseteq Due(req[s])
               /\ Making(req[s])' => Making(req[s])
    BY <1>1 DEF Due, Making
  <1> QED BY <1>2, RoomStays DEF MInv, IInv

(* A capture: what S holds moves, the embed e of n is new, nothing else changes. *)
LEMMA RehomeMeans ==
    ASSUME MInv, NEW r \in Request, Rehome(r), ~Refuse(r, "failed")
    PROVE  Constraints' /\ Room' /\ Home!Capture
  <1>1. PICK h, n, e, S : Rehomed(r, h, n, e, S)
    BY RehomeWrites DEF MInv
  <1>2. /\ Answer(r, "ok") /\ Satisfied(db')
        /\ req[r].pc = "locked" /\ req[r].op = "rehome"
        /\ h \in Live /\ n = db.objects + 1 /\ n \notin Live
        /\ e = db.units + 1 /\ e \notin DOMAIN db.unit
        /\ S # {} /\ \A u \in S : u \in DOMAIN db.unit /\ db.unit[u].object = h
        /\ db'.units = e /\ db'.objects = n /\ db'.captured = db.captured \cup {n}
        /\ db'.link = Followed(S, h, n)
        /\ Live' = Live \cup {n}
    BY <1>1 DEF Rehomed
  <1>3. PICK units : units = db'.unit
    OBVIOUS
  <1>4. /\ DOMAIN units = DOMAIN db.unit \cup {e}
        /\ \A u \in DOMAIN units :
              /\ units[u].object = IF u = e THEN h ELSE IF u \in S THEN n ELSE db.unit[u].object
              /\ units[u].shows = IF u = e THEN n ELSE db.unit[u].shows
              /\ units[u].cites = IF u = e THEN None ELSE db.unit[u].cites
    BY <1>1, <1>3 DEF Rehomed
  <1>5. Room' /\ db'.units <= MaxUnit /\ db'.objects <= MaxObject
    <2>1. PICK D : D = Due(req[r])
      OBVIOUS
    <2>2. D = {req[r].root} /\ Making(req[r])
      BY <1>2, <2>1 DEF Due, Making
    <2>3. req[r].root \in Unit
      BY <1>2, AtCommit, InBounds DEF MInv
    <2>4. Cardinality(D) = 1 /\ D \subseteq Unit
      BY <2>2, <2>3, FS_Singleton
    <2>5. Tables /\ Handlers /\ Room
      BY DEF MInv, IInv
    <2> QED BY <1>2, <2>1, <2>2, <2>4, <2>5, RoomMade
  <1>6. n \in Object /\ e \in Unit /\ n # None /\ h # None
    BY <1>2, <1>5, InBounds, OwnershipAssumption DEF Object, Unit, MInv, IInv, Tables
  <1>7. Values'
    <2>1. \A u \in DOMAIN units :
            /\ units[u].cites \in Atom \cup {None}
            /\ units[u].shows \in Object \cup {None}
            /\ units[u].shows # None => units[u].cites = None
      BY <1>4, <1>6 DEF MInv, Constraints, Values
    <2> QED BY <1>3, <2>1 DEF Values
  <1>8. /\ DOMAIN db'.link = DOMAIN db.link
        /\ \A l \in DOMAIN db.link :
              /\ IsLink(db'.link[l])
              /\ db'.link[l].fromUnit = db.link[l].fromUnit
              /\ db'.link[l].toUnit = db.link[l].toUnit
              /\ db'.link[l].to = None <=> db.link[l].to = None
    <2>1. /\ DOMAIN db'.link = DOMAIN db.link
          /\ \A l \in DOMAIN db.link : db'.link[l] =
                [db.link[l] EXCEPT !.from = IF db.link[l].fromUnit \in S /\ @ = h THEN n ELSE @,
                                   !.to   = IF db.link[l].toUnit \in S /\ @ = h THEN n ELSE @]
      BY <1>2 DEF Followed
    <2>2. ASSUME NEW l \in DOMAIN db.link
          PROVE  /\ IsLink(db'.link[l])
                 /\ db'.link[l].fromUnit = db.link[l].fromUnit
                 /\ db'.link[l].toUnit = db.link[l].toUnit
                 /\ db'.link[l].to = None <=> db.link[l].to = None
      <3>1. PICK old, new : old = db.link[l] /\ new = db'.link[l]
        OBVIOUS
      <3>2. IsLink(old)
        BY <3>1 DEF MInv, Constraints, LinkRows
      <3>3. PICK from, to :
                /\ from = (IF old.fromUnit \in S /\ old.from = h THEN n ELSE old.from)
                /\ to = (IF old.toUnit \in S /\ old.to = h THEN n ELSE old.to)
        OBVIOUS
      <3>4. new = [old EXCEPT !.from = from, !.to = to]
        BY <2>1, <3>1, <3>3
      <3>5. new = [from |-> from, fromUnit |-> old.fromUnit, to |-> to, toUnit |-> old.toUnit]
        BY <3>2, <3>4 DEF IsLink
      <3>6. /\ IsLink(new) /\ new.fromUnit = old.fromUnit /\ new.toUnit = old.toUnit
            /\ new.to = to
        BY <3>5 DEF IsLink
      <3> QED BY <1>6, <3>1, <3>3, <3>6
    <2> QED BY <2>1, <2>2
  <1>9. LinkRows' /\ Cited' = Cited
    BY <1>8 DEF LinkRows, Cited
  <1>10. Constraints'
    BY <1>2, <1>7, <1>9, AnswerMeans DEF Constraints, MInv
  <1>11. PICK page, page1, something : page = Page /\ page1 = Page' /\ something = None
    OBVIOUS
  <1>12. /\ DOMAIN page = DOMAIN db.unit
         /\ \A u \in DOMAIN page : page[u] = [home |-> db.unit[u].object, says |-> db.unit[u].cites,
                                              shows |-> db.unit[u].shows]
         /\ page1 = [u \in DOMAIN units |-> [home |-> units[u].object, says |-> units[u].cites,
                                             shows |-> units[u].shows]]
    BY <1>3, <1>11 DEF Page
  <1>13. page1 = [u \in DOMAIN page \cup {e} |->
                    IF u = e THEN [home |-> h, says |-> something, shows |-> n]
                    ELSE IF u \in S THEN [page[u] EXCEPT !.home = n]
                    ELSE page[u]]
    <2> DEFINE row(u) ==
                    [home |-> units[u].object, says |-> units[u].cites, shows |-> units[u].shows]
               entry(u) ==
                    IF u = e THEN [home |-> h, says |-> something, shows |-> n]
                    ELSE IF u \in S THEN [page[u] EXCEPT !.home = n]
                    ELSE page[u]
    <2>1. ASSUME NEW u \in DOMAIN units
          PROVE  row(u) = entry(u)
      <3>1. u = e \/ (u \in DOMAIN page /\ u # e)
        BY <1>4, <1>12
      <3>2. u # e =>
                page[u] = [home |-> db.unit[u].object, says |-> db.unit[u].cites,
                           shows |-> db.unit[u].shows]
        BY <1>12, <3>1
      <3>3. CASE u = e
        BY <1>4, <1>11, <3>3
      <3>4. CASE u # e /\ u \in S
        <4>1. [page[u] EXCEPT !.home = n]
                = [home |-> n, says |-> db.unit[u].cites, shows |-> db.unit[u].shows]
          BY <3>2, <3>4
        <4> QED BY <1>4, <3>4, <4>1
      <3>5. CASE u # e /\ u \notin S
        BY <1>4, <3>2, <3>5
      <3> QED BY <3>3, <3>4, <3>5
    <2>2. DOMAIN units = DOMAIN page \cup {e}
      BY <1>4, <1>12
    <2>3. page1 = [u \in DOMAIN units |-> row(u)]
      BY <1>12
    <2> HIDE DEF row, entry
    <2>4. page1 = [u \in DOMAIN page \cup {e} |-> entry(u)]
      BY <2>1, <2>2, <2>3
    <2> QED BY <2>4 DEF entry
  <1>14. S \in SUBSET Home!Of(h)
    <2>1. ASSUME NEW u \in S
          PROVE  u \in DOMAIN page /\ page[u].home = h
      <3>1. u \in DOMAIN page /\ db.unit[u].object = h
        BY <1>2, <1>12
      <3>2. page[u] = [home |-> db.unit[u].object, says |-> db.unit[u].cites,
                       shows |-> db.unit[u].shows]
        BY <1>12, <3>1
      <3> QED BY <3>1, <3>2
    <2> QED BY <1>11, <2>1 DEF Home!Of
  <1>15. /\ Page' = [u \in DOMAIN Page \cup {e} |->
                        IF u = e THEN [home |-> h, says |-> something, shows |-> n]
                        ELSE IF u \in S THEN [Page[u] EXCEPT !.home = n]
                        ELSE Page[u]]
         /\ h \in Live /\ n \in Object \ Live /\ e \in Unit \ DOMAIN Page
         /\ something \in Atom \cup {None}
         /\ S # {} /\ Live' = Live \cup {n} /\ db'.captured = db.captured \cup {n}
    BY <1>2, <1>6, <1>11, <1>12, <1>13
  <1>16. Home!Capture
    BY <1>9, <1>14, <1>15 DEF Home!Capture
  <1> QED BY <1>5, <1>10, <1>16

(* What the second look of persistDissolve rules out.                           *)
LEMMA NotInbound ==
    ASSUME NEW d, Inbound(d) = {}
    PROVE  /\ \A l \in DOMAIN db.link : db.link[l].to = d => db.link[l].from = d
           /\ \A edge \in db.derived : edge[2] # d
  <1>1. ASSUME NEW l \in DOMAIN db.link, db.link[l].to = d, db.link[l].from # d
        PROVE  <<db.link[l].from, d>> \in Inbound(d)
    BY <1>1 DEF Inbound
  <1>2. \A edge \in db.derived : edge[2] = d => edge \in Inbound(d)
    BY DEF Inbound
  <1> QED BY <1>1, <1>2

(* A folding back: the units of d are the host's, the embed is gone.            *)
LEMMA DissolveMeans ==
    ASSUME MInv, NEW r \in Request, Dissolve(r), \A reply : ~Refuse(r, reply)
    PROVE  Constraints' /\ Room' /\ Home!FoldBack
  <1>1. PICK h, d, e : FoldedBack(r, h, d, e)
    BY DissolveWrites DEF MInv
  <1>2. /\ Answer(r, "ok") /\ Satisfied(db')
        /\ h \in Live /\ d \in Live \ {h} /\ Inbound(d) = {}
        /\ e \in DOMAIN db.unit /\ db.unit[e].object = h /\ db.unit[e].shows = d
        /\ db'.units = db.units /\ db'.objects = db.objects /\ db'.captured = db.captured \ {d}
        /\ db'.link = Inherited(h, d)
        /\ Live' = Live \ {d}
    BY <1>1 DEF FoldedBack
  <1>3. PICK units : units = db'.unit
    OBVIOUS
  <1>4. /\ DOMAIN units = DOMAIN db.unit \ {e}
        /\ \A u \in DOMAIN units :
              /\ units[u].object = IF db.unit[u].object = d THEN h ELSE db.unit[u].object
              /\ units[u].shows = db.unit[u].shows
              /\ units[u].cites = db.unit[u].cites
    BY <1>1, <1>3 DEF FoldedBack
  <1>5. Room'
    BY <1>2, AnswerRoom
  <1>6. Values'
    <2>1. \A u \in DOMAIN units :
            /\ units[u].cites \in Atom \cup {None}
            /\ units[u].shows \in Object \cup {None}
            /\ units[u].shows # None => units[u].cites = None
      BY <1>4 DEF MInv, Constraints, Values
    <2> QED BY <1>3, <2>1 DEF Values
  <1>7. h # None /\ d # None
    BY <1>2, OwnershipAssumption DEF MInv, IInv, Tables
  <1>8. /\ DOMAIN db'.link = DOMAIN db.link
        /\ \A l \in DOMAIN db.link :
              /\ IsLink(db'.link[l])
              /\ db'.link[l].fromUnit = db.link[l].fromUnit
              /\ db'.link[l].toUnit = db.link[l].toUnit
              /\ db'.link[l].to = None <=> db.link[l].to = None
    <2>1. /\ DOMAIN db'.link = DOMAIN db.link
          /\ \A l \in DOMAIN db.link : db'.link[l] =
                IF db.link[l].from = d
                THEN [db.link[l] EXCEPT !.from = h, !.to = IF @ = d THEN h ELSE @]
                ELSE db.link[l]
      BY <1>2 DEF Inherited
    <2>2. ASSUME NEW l \in DOMAIN db.link
          PROVE  /\ IsLink(db'.link[l])
                 /\ db'.link[l].fromUnit = db.link[l].fromUnit
                 /\ db'.link[l].toUnit = db.link[l].toUnit
                 /\ db'.link[l].to = None <=> db.link[l].to = None
      <3>1. PICK old, new, to :
                old = db.link[l] /\ new = db'.link[l] /\ to = (IF old.to = d THEN h ELSE old.to)
        OBVIOUS
      <3>2. IsLink(old)
        BY <3>1 DEF MInv, Constraints, LinkRows
      <3>3. CASE new = [old EXCEPT !.from = h, !.to = to]
        <4>1. new = [from |-> h, fromUnit |-> old.fromUnit, to |-> to, toUnit |-> old.toUnit]
          BY <3>2, <3>3 DEF IsLink
        <4>2. /\ IsLink(new) /\ new.fromUnit = old.fromUnit /\ new.toUnit = old.toUnit
              /\ new.to = to
          BY <4>1 DEF IsLink
        <4> QED BY <1>7, <3>1, <4>2
      <3>4. CASE new = old
        BY <3>1, <3>2, <3>4
      <3>5. new = IF old.from = d THEN [old EXCEPT !.from = h, !.to = IF @ = d THEN h ELSE @]
                  ELSE old
        BY <2>1, <3>1
      <3>6. old.from = d => new = [old EXCEPT !.from = h, !.to = to]
        BY <3>1, <3>5
      <3>7. old.from # d => new = old
        BY <3>5
      <3> QED BY <3>1, <3>3, <3>4, <3>6, <3>7
    <2> QED BY <2>1, <2>2
  <1>9. LinkRows' /\ Cited' = Cited
    BY <1>8 DEF LinkRows, Cited
  <1>10. Constraints'
    BY <1>2, <1>6, <1>9, AnswerMeans DEF Constraints, MInv
  <1>11. PICK page, page1 : page = Page /\ page1 = Page'
    OBVIOUS
  <1>12. /\ DOMAIN page = DOMAIN db.unit
         /\ \A u \in DOMAIN page : page[u] = [home |-> db.unit[u].object, says |-> db.unit[u].cites,
                                              shows |-> db.unit[u].shows]
         /\ page1 = [u \in DOMAIN units |-> [home |-> units[u].object, says |-> units[u].cites,
                                             shows |-> units[u].shows]]
    BY <1>3, <1>11 DEF Page
  <1>13. \A u \in DOMAIN page : u \in Home!Of(d) <=> db.unit[u].object = d
    <2>1. ASSUME NEW u \in DOMAIN page
          PROVE  u \in Home!Of(d) <=> db.unit[u].object = d
      <3>1. page[u] = [home |-> db.unit[u].object, says |-> db.unit[u].cites,
                       shows |-> db.unit[u].shows]
        BY <1>12
      <3>2. page[u].home = db.unit[u].object
        BY <3>1
      <3> QED BY <1>11, <3>2 DEF Home!Of
    <2> QED BY <2>1
  <1>14. page1 = [u \in DOMAIN page \ {e} |->
                    IF u \in Home!Of(d) THEN [page[u] EXCEPT !.home = h] ELSE page[u]]
    <2> DEFINE row(u) ==
                    [home |-> units[u].object, says |-> units[u].cites, shows |-> units[u].shows]
               entry(u) == IF u \in Home!Of(d) THEN [page[u] EXCEPT !.home = h] ELSE page[u]
    <2>1. ASSUME NEW u \in DOMAIN units
          PROVE  row(u) = entry(u)
      <3>1. u \in DOMAIN page /\ (u \in Home!Of(d) <=> db.unit[u].object = d)
        BY <1>4, <1>12, <1>13
      <3>2. page[u] = [home |-> db.unit[u].object, says |-> db.unit[u].cites,
                       shows |-> db.unit[u].shows]
        BY <1>12, <3>1
      <3>3. CASE db.unit[u].object = d
        <4>1. [page[u] EXCEPT !.home = h]
                = [home |-> h, says |-> db.unit[u].cites, shows |-> db.unit[u].shows]
          BY <3>2
        <4> QED BY <1>4, <3>1, <3>3, <4>1
      <3>4. CASE db.unit[u].object # d
        BY <1>4, <3>1, <3>2, <3>4
      <3> QED BY <3>3, <3>4
    <2>2. DOMAIN units = DOMAIN page \ {e}
      BY <1>4, <1>12
    <2>3. page1 = [u \in DOMAIN units |-> row(u)]
      BY <1>12
    <2> HIDE DEF row, entry
    <2>4. page1 = [u \in DOMAIN page \ {e} |-> entry(u)]
      BY <2>1, <2>2, <2>3
    <2> QED BY <2>4 DEF entry
  <1>15. ASSUME NEW l \in DOMAIN db.link, db.link[l].to # None
         PROVE  /\ db.link[l].toUnit \in Home!Of(d) => db.link[l].fromUnit \in Home!Of(d)
                /\ e \notin {db.link[l].fromUnit, db.link[l].toUnit}
    <2>1. PICK old, new : old = db.link[l] /\ new = db'.link[l]
      OBVIOUS
    <2>2. /\ old.fromUnit \in DOMAIN db.unit /\ db.unit[old.fromUnit].object = old.from
          /\ old.toUnit \in DOMAIN db.unit /\ db.unit[old.toUnit].object = old.to
      BY <1>15, <2>1 DEF MInv, Constraints, Satisfied
    <2>3. old.to = d => old.from = d
      BY <1>2, <2>1, NotInbound
    <2>4. /\ new.fromUnit = old.fromUnit /\ new.toUnit = old.toUnit /\ new.to # None
          /\ l \in DOMAIN db'.link
      BY <1>8, <1>15, <2>1
    <2>5. new.fromUnit \in DOMAIN units /\ new.toUnit \in DOMAIN units
      BY <1>2, <1>3, <2>1, <2>4 DEF Satisfied
    <2>6. e \notin {old.fromUnit, old.toUnit}
      BY <1>4, <2>4, <2>5
    <2>7. /\ old.fromUnit \in DOMAIN page /\ old.toUnit \in DOMAIN page
          /\ old.fromUnit \in Home!Of(d) <=> old.from = d
          /\ old.toUnit \in Home!Of(d) <=> old.to = d
      BY <1>12, <1>13, <2>2
    <2>8. old.toUnit \in Home!Of(d) => old.fromUnit \in Home!Of(d)
      BY <2>3, <2>7
    <2> QED BY <2>1, <2>6, <2>8
  <1>16. /\ \A edge \in Cited : edge[2] \in Home!Of(d) => edge[1] \in Home!Of(d)
         /\ \A edge \in Cited : e \notin {edge[1], edge[2]}
    BY <1>15 DEF Cited
  <1>17. /\ e \in DOMAIN Page /\ Page[e].shows = d /\ Page[e].home = h
         /\ Page' = [u \in DOMAIN Page \ {e} |->
                        IF u \in Home!Of(d) THEN [Page[u] EXCEPT !.home = h] ELSE Page[u]]
    <2>1. e \in DOMAIN page
      BY <1>2, <1>12
    <2>2. page[e] = [home |-> db.unit[e].object, says |-> db.unit[e].cites,
                     shows |-> db.unit[e].shows]
      BY <1>12, <2>1
    <2>3. page[e].shows = d /\ page[e].home = h
      BY <1>2, <2>2
    <2> QED BY <1>11, <1>14, <2>1, <2>3
  <1>18. Home!FoldBack
    BY <1>2, <1>9, <1>16, <1>17 DEF Home!FoldBack
  <1> QED BY <1>5, <1>10, <1>18

(* The page as it is and as it will be, by what it says of each unit.           *)
LEMMA PageRows ==
    ASSUME NEW units, units = db.unit, NEW page, page = Page
    PROVE  /\ DOMAIN page = DOMAIN units
           /\ \A u \in DOMAIN units :
                /\ page[u] = [home |-> units[u].object, says |-> units[u].cites,
                              shows |-> units[u].shows]
                /\ page[u].home = units[u].object /\ page[u].says = units[u].cites
                /\ page[u].shows = units[u].shows
  BY DEF Page

LEMMA SameCardinality ==
    ASSUME NEW S
    PROVE  Home!Cardinality(S) = Cardinality(S)
  BY DEF Home!Cardinality, Cardinality

(* A copy: the units of F are those of o once more, in the new object n.        *)
LEMMA CopyMeans ==
    ASSUME MInv, NEW r \in Request, Copy(r), \A reply : ~Refuse(r, reply)
    PROVE  Constraints' /\ Room' /\ Home!Copy
  <1>1. PICK o, n, F : CopiedOnto(r, o, n, F)
    BY CopyWrites DEF MInv
  <1>2. /\ Answer(r, "ok") /\ Satisfied(db')
        /\ req[r].pc = "locked" /\ req[r].op = "copy"
        /\ o \in Live /\ n = db.objects + 1 /\ n \notin Live
        /\ Cardinality(F) = Cardinality(DOMAIN req[r].host)
        /\ db'.units = db.units + Cardinality(F) /\ db'.objects = n
        /\ db'.captured = db.captured /\ db'.link = db.link
        /\ Live' = Live \cup {n}
    BY <1>1 DEF CopiedOnto
  <1>3. PICK units, rows, host : units = db.unit /\ rows = db'.unit /\ host = DOMAIN req[r].host
    OBVIOUS
  <1>4. /\ DOMAIN rows = DOMAIN units \cup F
        /\ \A u \in DOMAIN units : rows[u] = units[u]
        /\ \A u \in F : /\ u \notin DOMAIN units /\ u \in 1..db'.units
                        /\ rows[u].object = n
                        /\ \E v \in DOMAIN units :
                              /\ units[v].object = o
                              /\ rows[u].shows = units[v].shows
                              /\ rows[u].cites = units[v].cites
        /\ host = {u \in DOMAIN units : units[u].object = o}
    BY <1>1, <1>3 DEF CopiedOnto
  <1>5. /\ DOMAIN units \subseteq Unit
        /\ \A u \in DOMAIN units :
              /\ units[u].object \in Object
              /\ units[u].cites \in Atom \cup {None}
              /\ units[u].shows \in Object \cup {None}
              /\ units[u].shows # None => units[u].cites = None
    BY <1>3, InBounds DEF MInv, Constraints, Values
  <1>6. Room' /\ db'.units <= MaxUnit /\ db'.objects <= MaxObject
    <2>1. PICK D : D = Due(req[r])
      OBVIOUS
    <2>2. D = host /\ Making(req[r])
      BY <1>2, <1>3, <2>1 DEF Due, Making
    <2>3. D \subseteq Unit /\ db'.units = db.units + Cardinality(D)
      BY <1>2, <1>3, <1>4, <1>5, <2>2
    <2>4. Tables /\ Handlers /\ Room
      BY DEF MInv, IInv
    <2> QED BY <1>2, <2>1, <2>2, <2>3, <2>4, RoomMade
  <1>7. n \in Object /\ F \subseteq Unit
    <2>1. n \in Object
      BY <1>2, <1>6, InBounds, OwnershipAssumption DEF Object
    <2>2. db'.units \in Nat
      BY <1>1 DEF CopiedOnto, Numbers, MInv, IInv, Tables
    <2> QED BY <1>4, <1>6, <2>1, <2>2, OwnershipAssumption DEF Unit
  <1>8. /\ DOMAIN rows \subseteq Unit
        /\ \A u \in DOMAIN rows :
              /\ rows[u].object \in Object
              /\ rows[u].cites \in Atom \cup {None}
              /\ rows[u].shows \in Object \cup {None}
              /\ rows[u].shows # None => rows[u].cites = None
    BY <1>4, <1>5, <1>7
  <1>9. Values' /\ LinkRows' /\ Cited' = Cited
    BY <1>2, <1>3, <1>8 DEF Values, LinkRows, Cited, MInv, Constraints
  <1>10. Constraints'
    BY <1>2, <1>9, AnswerMeans DEF Constraints, MInv
  <1>11. PICK page, page1 : page = Page /\ page1 = Page'
    OBVIOUS
  <1>12. /\ DOMAIN page = DOMAIN units
         /\ \A u \in DOMAIN units :
              /\ page[u] = [home |-> units[u].object, says |-> units[u].cites,
                            shows |-> units[u].shows]
              /\ page[u].home = units[u].object
    BY <1>3, <1>11, PageRows
  <1>13. page1 = [u \in DOMAIN rows |-> [home |-> rows[u].object, says |-> rows[u].cites,
                                         shows |-> rows[u].shows]]
    BY <1>3, <1>11 DEF Page
  <1>14. Home!Of(o) = host
    BY <1>4, <1>11, <1>12 DEF Home!Of
  <1>15. /\ DOMAIN page1 = DOMAIN page \cup F
         /\ F \in SUBSET (Unit \ DOMAIN page)
         /\ Cardinality(F) = Cardinality(Home!Of(o))
    BY <1>2, <1>3, <1>4, <1>7, <1>12, <1>13, <1>14
  <1>16. ASSUME NEW u \in F
         PROVE  /\ page1[u].home = n
                /\ \E v \in Home!Of(o) : page1[u] = [page[v] EXCEPT !.home = n]
    <2>1. PICK v \in DOMAIN units : /\ units[v].object = o
                                    /\ rows[u].shows = units[v].shows
                                    /\ rows[u].cites = units[v].cites
      BY <1>4
    <2>2. page1[u] = [home |-> n, says |-> units[v].cites, shows |-> units[v].shows]
      BY <1>4, <1>13, <2>1
    <2>3. [page[v] EXCEPT !.home = n] = [home |-> n, says |-> units[v].cites, shows |-> units[v].shows]
      BY <1>12
    <2>4. v \in Home!Of(o)
      BY <1>4, <1>14, <2>1
    <2> QED BY <2>2, <2>3, <2>4
  <1>17. \A u \in DOMAIN page : page1[u] = page[u]
    BY <1>4, <1>12, <1>13
  <1>18. page1 \in [DOMAIN page1 -> Home!Entry]
    BY <1>8, <1>13, PageEntries
  <1>19. \E N \in SUBSET (Unit \ DOMAIN Page) :
            /\ DOMAIN Page' = DOMAIN Page \cup N
            /\ Home!Cardinality(N) = Home!Cardinality(Home!Of(o))
            /\ \A u \in N :
                  /\ Page'[u].home = n
                  /\ \E v \in Home!Of(o) : Page'[u] = [Page[v] EXCEPT !.home = n]
            /\ \A u \in DOMAIN Page : Page'[u] = Page[u]
            /\ Page' \in [DOMAIN Page' -> Home!Entry]
    BY <1>11, <1>15, <1>16, <1>17, <1>18, SameCardinality
  <1>20. /\ o \in Live /\ n \in Object \ Live /\ Live' = Live \cup {n}
         /\ UNCHANGED <<db.captured, Cited>>
    BY <1>2, <1>7, <1>9
  <1>21. Home!Copy
    BY <1>19, <1>20 DEF Home!Copy
  <1> QED BY <1>6, <1>10, <1>21

(* What a save or a deletion in o has to leave alone for a reader to see one    *)
(* save of o.                                                                   *)
SavesOnly(o) ==
    /\ o \in Live /\ Live' = Live /\ db'.captured = db.captured
    /\ DOMAIN db'.unit \subseteq DOMAIN db.unit
    /\ \A u \in DOMAIN db'.unit :
          \/ db'.unit[u] = db.unit[u]
          \/ /\ db.unit[u].object = o /\ db.unit[u].shows = None
             /\ db'.unit[u].object = o /\ db'.unit[u].shows = None
    /\ \A u \in DOMAIN db.unit \ DOMAIN db'.unit :
          db.unit[u].object = o /\ db.unit[u].shows = None
    /\ \A l \in DOMAIN db.link :
          db.link[l].from # o /\ db.link[l].toUnit \in DOMAIN db'.unit =>
              l \in DOMAIN db'.link /\ db'.link[l] = db.link[l]
    /\ \A l \in DOMAIN db'.link :
          \/ l \in DOMAIN db.link /\ db'.link[l] = db.link[l]
          \/ db'.link[l].from = o

LEMMA SavesMean ==
    ASSUME MInv, NEW o, SavesOnly(o), Satisfied(db'), Values'
    PROVE  Home!Write
  <1>1. PICK units, rows : units = db.unit /\ rows = db'.unit
    OBVIOUS
  <1>2. PICK page, page1 : page = Page /\ page1 = Page'
    OBVIOUS
  <1>3. /\ DOMAIN page = DOMAIN units
        /\ \A u \in DOMAIN units :
              /\ page[u] = [home |-> units[u].object, says |-> units[u].cites,
                            shows |-> units[u].shows]
              /\ page[u].home = units[u].object /\ page[u].shows = units[u].shows
    BY <1>1, <1>2, PageRows
  <1>4. page1 = [u \in DOMAIN rows |-> [home |-> rows[u].object, says |-> rows[u].cites,
                                        shows |-> rows[u].shows]]
    BY <1>1, <1>2 DEF Page
  <1>5. /\ DOMAIN page1 = DOMAIN rows
        /\ \A u \in DOMAIN rows :
              /\ page1[u] = [home |-> rows[u].object, says |-> rows[u].cites,
                             shows |-> rows[u].shows]
              /\ page1[u].home = rows[u].object /\ page1[u].shows = rows[u].shows
    BY <1>4
  <1>6. /\ DOMAIN rows \subseteq DOMAIN units
        /\ \A u \in DOMAIN rows :
              \/ rows[u] = units[u]
              \/ /\ units[u].object = o /\ units[u].shows = None
                 /\ rows[u].object = o /\ rows[u].shows = None
        /\ \A u \in DOMAIN units \ DOMAIN rows : units[u].object = o /\ units[u].shows = None
    BY <1>1 DEF SavesOnly
  <1>7. DOMAIN page1 \subseteq Unit /\ page1 \in [DOMAIN page1 -> Home!Entry]
    <2>1. DOMAIN units \subseteq Unit /\ \A u \in DOMAIN units : units[u].object \in Object
      BY <1>1, InBounds
    <2>2. o \in Object
      BY InBounds DEF SavesOnly
    <2>3. \A u \in DOMAIN rows : /\ rows[u].object \in Object
                                 /\ rows[u].cites \in Atom \cup {None}
                                 /\ rows[u].shows \in Object \cup {None}
      BY <1>1, <1>6, <2>1, <2>2 DEF Values
    <2> QED BY <1>4, <1>5, <1>6, <2>1, <2>3, PageEntries
  <1>8. None \notin Object
    BY OwnershipAssumption DEF Object
  <1>9. \A u \in DOMAIN page :
            page[u].home # o \/ page[u].shows \in Object => u \in DOMAIN page1 /\ page1[u] = page[u]
    BY <1>3, <1>5, <1>6, <1>8
  <1>10. \A u \in DOMAIN page1 : u \notin DOMAIN page \/ page1[u] # page[u] =>
              page1[u].home = o /\ page1[u].shows = None
    BY <1>3, <1>5, <1>6
  <1>11. \A u : u \in Home!Of(o) <=> u \in DOMAIN units /\ units[u].object = o
    BY <1>2, <1>3 DEF Home!Of
  <1>12. ASSUME NEW edge \in Cited, edge[1] \notin Home!Of(o), edge[2] \in DOMAIN page1
         PROVE  edge \in Cited'
    <2>1. PICK l \in DOMAIN db.link : /\ db.link[l].to # None
                                      /\ edge = <<db.link[l].fromUnit, db.link[l].toUnit>>
      BY <1>12 DEF Cited
    <2>2. edge[1] = db.link[l].fromUnit /\ edge[2] = db.link[l].toUnit
      BY <2>1
    <2>3. edge[1] \in DOMAIN units /\ units[edge[1]].object = db.link[l].from
      BY <1>1, <2>2 DEF MInv, Constraints, Satisfied
    <2>4. db.link[l].from # o /\ db.link[l].toUnit \in DOMAIN db'.unit
      BY <1>1, <1>5, <1>11, <1>12, <2>2, <2>3
    <2>5. l \in DOMAIN db'.link /\ db'.link[l] = db.link[l]
      BY <2>4 DEF SavesOnly
    <2> QED BY <2>1, <2>5 DEF Cited
  <1>13. ASSUME NEW edge \in Cited'
         PROVE  /\ edge[1] \in DOMAIN page1 /\ edge[2] \in DOMAIN page1
                /\ edge \in Cited \/ page1[edge[1]].home = o
    <2>1. PICK l \in DOMAIN db'.link : /\ db'.link[l].to # None
                                       /\ edge = <<db'.link[l].fromUnit, db'.link[l].toUnit>>
      BY <1>13 DEF Cited
    <2>2. edge[1] = db'.link[l].fromUnit /\ edge[2] = db'.link[l].toUnit
      BY <2>1
    <2>3. /\ edge[1] \in DOMAIN rows /\ rows[edge[1]].object = db'.link[l].from
          /\ edge[2] \in DOMAIN rows
      BY <1>1, <2>1, <2>2 DEF Satisfied
    <2>4. CASE l \in DOMAIN db.link /\ db'.link[l] = db.link[l]
      <3>1. edge \in Cited
        BY <2>1, <2>4 DEF Cited
      <3> QED BY <1>5, <2>3, <3>1
    <2>5. CASE db'.link[l].from = o
      BY <1>5, <2>3, <2>5
    <2> QED BY <2>4, <2>5 DEF SavesOnly
  <1>14. o \in Live /\ UNCHANGED <<Live, db.captured>>
    BY DEF SavesOnly
  <1> QED BY <1>2, <1>7, <1>9, <1>10, <1>12, <1>13, <1>14 DEF Home!Write

LEMMA SaveMeans ==
    ASSUME MInv, NEW r \in Request, Save(r), \A reply : ~Refuse(r, reply)
    PROVE  Constraints' /\ Room' /\ Home!Write
  <1>1. PICK o, u, cite : Cites(r, o, u, cite)
    BY SaveWrites DEF MInv
  <1>2. /\ Answer(r, "ok") /\ Satisfied(db')
        /\ db'.units = db.units /\ db'.objects = db.objects
        /\ cite \in Atom /\ db.unit[u].shows = None
    BY <1>1 DEF Cites, MInv, Constraints, Writing
  <1>3. PICK units, rows : units = db.unit /\ rows = db'.unit
    OBVIOUS
  <1>4. /\ u \in DOMAIN units /\ units[u].object = o /\ units[u].shows = None
        /\ DOMAIN rows = DOMAIN units
        /\ \A v \in DOMAIN units : /\ v # u => rows[v] = units[v]
                                   /\ rows[v].object = units[v].object
                                   /\ rows[v].shows = units[v].shows
                                   /\ rows[v].cites = IF v = u THEN cite ELSE units[v].cites
    BY <1>1, <1>2, <1>3 DEF Cites
  <1>5. Values'
    <2>1. \A v \in DOMAIN rows : /\ rows[v].cites \in Atom \cup {None}
                                 /\ rows[v].shows \in Object \cup {None}
                                 /\ rows[v].shows # None => rows[v].cites = None
      BY <1>2, <1>3, <1>4 DEF MInv, Constraints, Values
    <2> QED BY <1>3, <2>1 DEF Values
  <1>6. PICK old, new : old = db.link /\ new = db'.link
    OBVIOUS
  <1>7. /\ DOMAIN new = DOMAIN old \cup {cite.link}
        /\ \A l \in DOMAIN old \ {cite.link} : new[l] = old[l]
        /\ IsLink(new[cite.link]) /\ new[cite.link].fromUnit = u
        /\ cite.link \in DOMAIN old => new[cite.link].from = old[cite.link].from
    BY <1>1, <1>6 DEF Cites
  <1>8. LinkRows'
    BY <1>6, <1>7 DEF LinkRows, MInv, Constraints
  <1>9. new[cite.link].from = o
    <2>1. /\ new[cite.link].fromUnit \in DOMAIN rows
          /\ rows[new[cite.link].fromUnit].object = new[cite.link].from
      BY <1>2, <1>3, <1>6, <1>7 DEF Satisfied
    <2> QED BY <1>4, <1>7, <2>1
  <1>10. SavesOnly(o)
    <2>1. /\ o \in Live /\ Live' = Live /\ db'.captured = db.captured
      BY <1>1 DEF Cites
    <2>2. \A l \in DOMAIN old : old[l].from # o => l \in DOMAIN new /\ new[l] = old[l]
      BY <1>7, <1>9
    <2>3. \A l \in DOMAIN new : (l \in DOMAIN old /\ new[l] = old[l]) \/ new[l].from = o
      BY <1>7, <1>9
    <2>4. /\ DOMAIN rows \subseteq DOMAIN units
          /\ \A v \in DOMAIN rows :
              \/ rows[v] = units[v]
              \/ /\ units[v].object = o /\ units[v].shows = None
                 /\ rows[v].object = o /\ rows[v].shows = None
          /\ \A v \in DOMAIN units \ DOMAIN rows : units[v].object = o /\ units[v].shows = None
      BY <1>4
    <2> QED BY <1>3, <1>6, <2>1, <2>2, <2>3, <2>4 DEF SavesOnly
  <1>11. Home!Write
    BY <1>2, <1>5, <1>10, SavesMean
  <1>12. Room'
    BY <1>2, AnswerRoom DEF MInv
  <1> QED BY <1>2, <1>5, <1>8, <1>11, <1>12, AnswerMeans DEF Constraints, MInv

LEMMA DeleteMeans ==
    ASSUME MInv, NEW r \in Request, Delete(r), \A reply : ~Refuse(r, reply)
    PROVE  Constraints' /\ Room' /\ Home!Write
  <1>1. PICK o, u : Drops(r, o, u)
    BY DeleteWrites DEF MInv
  <1>2. /\ Answer(r, "ok") /\ Satisfied(db')
        /\ db'.units = db.units /\ db'.objects = db.objects
    BY <1>1 DEF Drops
  <1>3. Values' /\ LinkRows'
    BY <1>1 DEF Drops, Values, LinkRows, MInv, Constraints
  <1>4. SavesOnly(o)
    <2>1. ASSUME NEW l \in DOMAIN db.link,
                 db.link[l].from # o, db.link[l].toUnit \in DOMAIN db'.unit
          PROVE  l \in DOMAIN db'.link
      <3>1. db.unit[db.link[l].fromUnit].object = db.link[l].from
        BY DEF MInv, Constraints, Satisfied
      <3>2. u # db.link[l].fromUnit /\ u # db.link[l].toUnit
        BY <1>1, <2>1, <3>1 DEF Drops
      <3> QED BY <1>1, <3>2 DEF Drops
    <2> QED BY <1>1, <2>1 DEF Drops, SavesOnly
  <1>5. Home!Write
    BY <1>2, <1>3, <1>4, SavesMean
  <1>6. Room'
    BY <1>2, AnswerRoom DEF MInv
  <1> QED BY <1>2, <1>3, <1>5, <1>6, AnswerMeans DEF Constraints, MInv

--------------------------------------------------------------------------------
LEMMA HandleMeans ==
    ASSUME MInv, NEW r \in Request, Handle(r)
    PROVE  Constraints' /\ Room' /\ [Home!Next]_Home!vars
  <1>1. CASE \E reply : Refuse(r, reply)
    BY <1>1, RefuseMeans
  <1>2. CASE \A reply : ~Refuse(r, reply)
    <2>1. CASE ReadDissolved(r) \/ ReadInbound(r) \/ LockDissolved(r) \/ Gate(r)
      BY <1>2, <2>1, WaitMeans
    <2>2. CASE Rehome(r)
      BY <1>2, <2>2, RehomeMeans DEF Home!Next
    <2>3. CASE Dissolve(r)
      BY <1>2, <2>3, DissolveMeans DEF Home!Next
    <2>4. CASE Copy(r)
      BY <1>2, <2>4, CopyMeans DEF Home!Next
    <2>5. CASE Save(r)
      BY <1>2, <2>5, SaveMeans DEF Home!Next
    <2>6. CASE Delete(r)
      BY <1>2, <2>6, DeleteMeans DEF Home!Next
    <2>7. CASE Victim(r)
      BY <1>2, <2>7 DEF Victim
    <2> QED BY <2>1, <2>2, <2>3, <2>4, <2>5, <2>6, <2>7 DEF Handle
  <1> QED BY <1>1, <1>2

LEMMA InitMeans == Init => MInv /\ Home!Init
  <1> SUFFICES ASSUME Init PROVE MInv /\ Home!Init
    OBVIOUS
  <1>1. PICK S \in SUBSET DOMAIN Start :
            db = [rev |-> [o \in Days |-> 1], unit |-> Start, link |-> << >>, derived |-> {},
                  named |-> [u \in S |-> Start[u].object], braced |-> << >>,
                  units |-> Cardinality(DOMAIN Start), objects |-> Cardinality(Days),
                  captured |-> {}]
    BY DEF Init
  <1>2. /\ Live = Days /\ DOMAIN db.rev = Days /\ db.unit = Start
        /\ DOMAIN db.link = {} /\ db.derived = {} /\ DOMAIN db.braced = {}
        /\ DOMAIN db.named = S /\ \A u \in S : db.named[u] = Start[u].object
        /\ db.units = Cardinality(DOMAIN Start) /\ db.objects = Cardinality(Days)
        /\ db.captured = {}
    BY <1>1 DEF Live
  <1>3. \A r \in Request : req[r].pc = "idle"
    BY DEF Init, Idle
  <1>4. IInv
    BY InitHolds
  <1>5. Constraints
    <2>1. Satisfied(db)
      BY <1>2, OwnershipAssumption DEF Satisfied
    <2>2. Values /\ LinkRows
      BY <1>2, OwnershipAssumption DEF Values, LinkRows
    <2> QED BY <1>3, <2>1, <2>2 DEF Constraints, Writing
  <1>6. Room
    <2>1. Owed = {} /\ Makers = {}
      BY <1>3 DEF Owed, Makers, Due, Making
    <2>2. Cardinality(Owed) = 0 /\ Cardinality(Makers) = 0
      BY <2>1, FS_EmptySet
    <2>3. db.units \in Nat /\ db.objects \in Nat
      BY <1>4 DEF IInv, Tables
    <2> QED BY <1>2, <2>2, <2>3, OwnershipAssumption DEF Room
  <1>7. MInv
    BY <1>4, <1>5, <1>6 DEF MInv
  <1>8. PICK page : page = Page
    OBVIOUS
  <1>9. Home!TypeOK
    <2>1. PICK units : units = db.unit
      OBVIOUS
    <2>2. page = [u \in DOMAIN units |-> [home |-> units[u].object, says |-> units[u].cites,
                                          shows |-> units[u].shows]]
      BY <1>8, <2>1 DEF Page
    <2>3. /\ DOMAIN units \subseteq Unit
          /\ \A u \in DOMAIN units : /\ units[u].object \in Object
                                     /\ units[u].object \in Live
                                     /\ units[u].cites \in Atom \cup {None}
                                     /\ units[u].shows \in Object \cup {None}
      BY <1>7, <2>1, InBounds DEF MInv, IInv, Tables, Constraints, Values
    <2>4. page \in [DOMAIN units -> Home!Entry] /\ DOMAIN page = DOMAIN units
      BY <2>2, <2>3, PageEntries
    <2>5. \A u \in DOMAIN page : page[u].home \in Live
      BY <2>2, <2>3
    <2>6. Live \subseteq Object /\ db.captured \subseteq Live
      BY <1>2, <1>7, InBounds
    <2> QED BY <1>8, <2>3, <2>4, <2>5, <2>6 DEF Home!TypeOK
  <1>10. Cited = {}
    BY <1>2 DEF Cited
  <1> QED BY <1>2, <1>7, <1>9, <1>10 DEF Home!Init

LEMMA StepMeans == MInv /\ [Next]_vars => MInv' /\ [Home!Next]_Home!vars
  <1> SUFFICES ASSUME MInv, [Next]_vars PROVE MInv' /\ [Home!Next]_Home!vars
    OBVIOUS
  <1>1. IInv'
    BY StepKeeps DEF MInv
  <1>2. Constraints' /\ Room' /\ [Home!Next]_Home!vars
    <2>1. CASE Brace
      BY <2>1, BraceMeans
    <2>2. CASE \E r \in Request : Arrive(r) \/ Handle(r)
      BY <2>2, ArriveMeans, HandleMeans
    <2>3. CASE UNCHANGED vars
      <3>1. UNCHANGED db /\ \A s \in Request : req'[s] = req[s]
        BY <2>3 DEF vars
      <3> QED BY <3>1, HandlersMean, Stutters
    <2> QED BY <2>1, <2>2, <2>3 DEF Next
  <1> QED BY <1>1, <1>2 DEF MInv

(* A reader of units, embeds and citations cannot tell the tables, which five   *)
(* kinds of handlers read and write in transactions that cross, from objects    *)
(* that are captured, folded back, copied and saved one at a time.              *)
THEOREM OwnershipImplementsOneHome == Spec => ImplementsOneHome
  BY InitMeans, StepMeans, PTL DEF Spec, ImplementsOneHome, Home!Spec

(* Whatever moved: at every COMMIT, both ends of a citation are paragraphs that *)
(* are there, in the objects the link names, and the bounds leave room for what *)
(* is under way.                                                                *)
THEOREM OwnershipCitationsResolve == Spec => [](Satisfied(db) /\ Room /\ Home!CitationsResolve)
  <1>1. MInv => Satisfied(db) /\ Room /\ Home!CitationsResolve
    <2> SUFFICES ASSUME MInv PROVE Satisfied(db) /\ Room /\ Home!CitationsResolve
      OBVIOUS
    <2>1. DOMAIN Page = DOMAIN db.unit
      BY DEF Page
    <2> QED BY <2>1 DEF MInv, Constraints, Satisfied, Home!CitationsResolve, Cited
  <1> QED BY <1>1, InitMeans, StepMeans, PTL DEF Spec

--------------------------------------------------------------------------------
(* The trees: what moves stays a tree, and what it leaves is one.               *)

(* Positions are numbers, no unit is its own ancestor, nothing hangs below an   *)
(* embed.                                                                       *)
Forested(unit) ==
    /\ \A u \in DOMAIN unit : unit[u].pos \in Nat
    /\ Tree!Acyclic(unit)
    /\ \A u \in DOMAIN unit : unit[u].parent # None => unit[unit[u].parent].shows = None

(* The content of one object, h.                                                *)
Tidy(c, h) ==
    /\ Rows(c) /\ IsFiniteSet(DOMAIN c) /\ DOMAIN c \subseteq Int
    /\ \A u \in DOMAIN c : c[u].object = h
    /\ Placed(c) /\ Forested(c)

(* What moves: the root, and with every other unit its parent.                  *)
LEMMA SubtreeShape ==
    ASSUME NEW c, NEW root \in DOMAIN c, NEW S, S = Tree!Subtree(c, root)
    PROVE  /\ root \in S /\ S \subseteq DOMAIN c
           /\ \A w \in DOMAIN c : c[w].parent \in S => w \in S
           /\ \A w \in S : w # root => c[w].parent \in S
  <1>1. \A v : v \in S <=>
            /\ v \in DOMAIN c
            /\ \A T \in SUBSET DOMAIN c :
                  root \in T /\ (\A w \in DOMAIN c : c[w].parent \in T => w \in T) => v \in T
    BY DEF Tree!Subtree
  <1>2. root \in S /\ S \subseteq DOMAIN c
    BY <1>1
  <1>3. ASSUME NEW w \in DOMAIN c, c[w].parent \in S
        PROVE  w \in S
    <2>1. ASSUME NEW T \in SUBSET DOMAIN c, root \in T,
                 \A x \in DOMAIN c : c[x].parent \in T => x \in T
          PROVE  w \in T
      BY <1>1, <1>3, <2>1
    <2> QED BY <1>1, <2>1
  <1>4. ASSUME NEW w \in S, w # root, c[w].parent \notin S
        PROVE  FALSE
    <2>1. S \ {w} \in SUBSET DOMAIN c /\ root \in S \ {w}
      BY <1>2, <1>4
    <2>2. \A x \in DOMAIN c : c[x].parent \in S \ {w} => x \in S \ {w}
      BY <1>3, <1>4
    <2>3. w \in S \ {w}
      BY <1>1, <2>1, <2>2
    <2> QED BY <2>3
  <1> QED BY <1>2, <1>3, <1>4

LEMMA RootLeaves ==
    ASSUME NEW c, NEW root \in DOMAIN c, NEW S, S = Tree!Subtree(c, root), Tree!Acyclic(c)
    PROVE  c[root].parent \notin S
  <1>1. S \in SUBSET DOMAIN c /\ S # {} /\ \A w \in S : w # root => c[w].parent \in S
    BY SubtreeShape
  <1> QED BY <1>1 DEF Tree!Acyclic

(* Numbering anew keeps the order.                                              *)
Renumbered(c, d, S) ==
    /\ DOMAIN d = DOMAIN c
    /\ \A v \in DOMAIN c : /\ IsRow(d[v]) /\ d[v].object = c[v].object
                           /\ d[v].parent = c[v].parent /\ d[v].shows = c[v].shows
                           /\ v \notin S => d[v] = c[v]
    /\ \A v \in S : d[v].pos \in Nat
    /\ \A v, w \in S : d[w].pos < d[v].pos <=> c[w].pos < c[v].pos

LEMMA NumberedOrder ==
    ASSUME NEW c, NEW S \in SUBSET DOMAIN c, IsFiniteSet(S), Rows(c),
           \A v \in S : c[v].pos \in Nat
    PROVE  Renumbered(c, Tree!Numbered(c, S), S)
  <1> DEFINE before(v) == {w \in S : c[w].pos < c[v].pos}
             d == Tree!Numbered(c, S)
  <1>1. /\ DOMAIN d = DOMAIN c
        /\ \A v \in DOMAIN c :
              d[v] = IF v \in S THEN [c[v] EXCEPT !.pos = Cardinality(before(v))] ELSE c[v]
    BY DEF Tree!Numbered, Cardinality, Tree!Cardinality
  <1>2. \A v \in S : IsFiniteSet(before(v)) /\ Cardinality(before(v)) \in Nat
    BY FS_Subset, FS_CardinalityType
  <1>3. ASSUME NEW v \in S, NEW w \in S, c[w].pos < c[v].pos
        PROVE  Cardinality(before(w)) < Cardinality(before(v))
    <2>1. before(w) \subseteq before(v) /\ w \in before(v) /\ w \notin before(w)
      BY <1>3
    <2>2. before(w) # before(v)
      BY <2>1
    <2> HIDE DEF before
    <2>3. Cardinality(before(w)) <= Cardinality(before(v))
          /\ (Cardinality(before(w)) = Cardinality(before(v)) => before(w) = before(v))
      BY <1>2, <2>1, FS_Subset
    <2> QED BY <1>2, <2>2, <2>3
  <1>4. ASSUME NEW v \in S, NEW w \in S, c[w].pos = c[v].pos
        PROVE  Cardinality(before(w)) = Cardinality(before(v))
    BY <1>4
  <1> HIDE DEF before
  <1>5. ASSUME NEW v \in DOMAIN c
        PROVE  /\ IsRow(d[v]) /\ d[v].object = c[v].object
               /\ d[v].parent = c[v].parent /\ d[v].shows = c[v].shows
               /\ v \notin S => d[v] = c[v]
               /\ v \in S => d[v].pos = Cardinality(before(v))
    <2>1. IsRow(c[v])
      BY DEF Rows
    <2> QED BY <1>1, <2>1 DEF IsRow
  <1> HIDE DEF d
  <1>6. ASSUME NEW v \in S, NEW w \in S
        PROVE  d[w].pos < d[v].pos <=> c[w].pos < c[v].pos
    <2>1. /\ d[w].pos = Cardinality(before(w)) /\ d[v].pos = Cardinality(before(v))
          /\ Cardinality(before(w)) \in Nat /\ Cardinality(before(v)) \in Nat
          /\ c[v].pos \in Nat /\ c[w].pos \in Nat
      BY <1>2, <1>5
    <2>2. /\ c[w].pos < c[v].pos => Cardinality(before(w)) < Cardinality(before(v))
          /\ c[v].pos < c[w].pos => Cardinality(before(v)) < Cardinality(before(w))
          /\ c[w].pos = c[v].pos => Cardinality(before(w)) = Cardinality(before(v))
      BY <1>3, <1>4
    <2> QED BY <2>1, <2>2
  <1>7. Renumbered(c, d, S)
    BY <1>1, <1>2, <1>5, <1>6 DEF Renumbered
  <1> QED BY <1>7 DEF d

(* Where rehome_subtree puts the units it moves, and the ones it leaves.        *)
MovedPlaces(c, root, M, S) ==
    /\ DOMAIN M = S
    /\ \A u \in S : /\ M[u].parent = IF u = root THEN None ELSE c[u].parent
                    /\ M[u].pos \in Nat
                    /\ u # root => M[u].pos = c[u].pos

LEMMA MovedStand ==
    ASSUME NEW c, NEW h, Tidy(c, h), NEW root \in DOMAIN c, NEW n, NEW S, S = Tree!Subtree(c, root)
    PROVE  MovedPlaces(c, root, Moved(c, root, n), S)
  <1> DEFINE out == [u \in S |-> [c[u] EXCEPT !.object = n,
                                             !.parent = IF u = root THEN None ELSE @]]
  <1>1. root \in S /\ S \subseteq DOMAIN c
    BY SubtreeShape
  <1>2. ASSUME NEW u \in S
        PROVE  /\ IsRow(out[u]) /\ out[u].parent = IF u = root THEN None ELSE c[u].parent
               /\ out[u].pos = c[u].pos /\ out[u].pos \in Nat
    <2>1. IsRow(c[u]) /\ c[u].pos \in Nat
      BY <1>1 DEF Tidy, Rows, Forested
    <2> QED BY <2>1 DEF IsRow
  <1>3. DOMAIN out = S /\ Moved(c, root, n) = Tree!Numbered(out, {root})
    BY DEF Moved
  <1> HIDE DEF out
  <1>4. Renumbered(out, Tree!Numbered(out, {root}), {root})
    <2>1. {root} \in SUBSET DOMAIN out /\ IsFiniteSet({root}) /\ Rows(out)
          /\ \A v \in {root} : out[v].pos \in Nat
      BY <1>1, <1>2, <1>3, FS_Singleton DEF Rows
    <2> QED BY <2>1, NumberedOrder
  <1>5. PICK M : M = Moved(c, root, n)
    OBVIOUS
  <1>6. DOMAIN M = S
    BY <1>3, <1>4, <1>5 DEF Renumbered
  <1>7. ASSUME NEW u \in S
        PROVE  /\ M[u].parent = IF u = root THEN None ELSE c[u].parent
               /\ M[u].pos \in Nat
               /\ u # root => M[u].pos = c[u].pos
    <2>1. /\ M[u].parent = out[u].parent
          /\ u = root => M[u].pos \in Nat
          /\ u # root => M[u] = out[u]
      BY <1>3, <1>4, <1>5 DEF Renumbered
    <2> QED BY <1>2, <2>1
  <1> QED BY <1>5, <1>6, <1>7 DEF MovedPlaces

HostPlaces(c, root, e, H, S) ==
    /\ DOMAIN H = (DOMAIN c \ S) \cup {e}
    /\ H[e].parent = c[root].parent /\ H[e].pos \in Nat
    /\ \A u \in DOMAIN c \ S : /\ H[u].parent = c[u].parent /\ H[u].pos \in Nat
                               /\ c[u].parent # c[root].parent => H[u] = c[u]
    /\ \A u \in DOMAIN c \ S : c[u].parent = c[root].parent =>
            /\ H[u].pos < H[e].pos <=> c[u].pos < c[root].pos
            /\ H[e].pos < H[u].pos <=> c[root].pos < c[u].pos
            /\ \A v \in DOMAIN c \ S : c[v].parent = c[root].parent =>
                  (H[u].pos < H[v].pos <=> c[u].pos < c[v].pos)

LEMMA HostStands ==
    ASSUME NEW c, NEW h, Tidy(c, h), NEW root \in DOMAIN c, NEW n, NEW e, e \notin DOMAIN c,
           NEW S, S = Tree!Subtree(c, root)
    PROVE  HostPlaces(c, root, e, HostWithout(c, root, n, e), S)
  <1> DEFINE D == (DOMAIN c \ S) \cup {e}
             out == [u \in D |-> IF u = e THEN [c[root] EXCEPT !.shows = n, !.cites = None]
                                 ELSE c[u]]
             family == Tree!Kids(out, c[root].parent)
  <1>1. root \in S /\ S \subseteq DOMAIN c
    BY SubtreeShape
  <1>2. ASSUME NEW u \in DOMAIN c \ S
        PROVE  u \in D /\ out[u] = c[u] /\ IsRow(out[u]) /\ out[u].pos \in Nat
    BY DEF Tidy, Rows, Forested
  <1>3. IsRow(out[e]) /\ out[e].parent = c[root].parent /\ out[e].pos = c[root].pos
        /\ out[e].pos \in Nat
    <2>1. IsRow(c[root]) /\ c[root].pos \in Nat
      BY DEF Tidy, Rows, Forested
    <2> QED BY <2>1 DEF IsRow
  <1>4. DOMAIN out = D
        /\ HostWithout(c, root, n, e) = Tree!Numbered(out, family)
    BY DEF HostWithout
  <1>5. /\ family \subseteq D /\ e \in family
        /\ \A u \in DOMAIN c \ S : u \in family <=> c[u].parent = c[root].parent
    BY <1>2, <1>3, <1>4 DEF Tree!Kids
  <1>6. IsFiniteSet(family)
    <2>1. IsFiniteSet(D)
      BY FS_Subset, FS_AddElement DEF Tidy
    <2> QED BY <1>5, <2>1, FS_Subset
  <1> PICK H : H = Tree!Numbered(out, family)
    OBVIOUS
  <1>7. \A u \in D : IsRow(out[u]) /\ out[u].pos \in Nat
    BY <1>2, <1>3
  <1> HIDE DEF out, family
  <1>8. Renumbered(out, H, family)
    BY <1>4, <1>5, <1>6, <1>7, NumberedOrder DEF Rows
  <1>9. DOMAIN H = D /\ H[e].parent = c[root].parent /\ H[e].pos \in Nat
    BY <1>3, <1>4, <1>5, <1>8 DEF Renumbered
  <1>10. ASSUME NEW u \in DOMAIN c \ S
         PROVE  /\ H[u].parent = c[u].parent /\ H[u].pos \in Nat
                /\ c[u].parent # c[root].parent => H[u] = c[u]
    BY <1>2, <1>4, <1>5, <1>8 DEF Renumbered
  <1>11. ASSUME NEW u \in DOMAIN c \ S, c[u].parent = c[root].parent
         PROVE  /\ H[u].pos < H[e].pos <=> c[u].pos < c[root].pos
                /\ H[e].pos < H[u].pos <=> c[root].pos < c[u].pos
    BY <1>2, <1>3, <1>5, <1>8, <1>11 DEF Renumbered
  <1>12. ASSUME NEW u \in DOMAIN c \ S, NEW v \in DOMAIN c \ S,
                c[u].parent = c[root].parent, c[v].parent = c[root].parent
         PROVE  H[u].pos < H[v].pos <=> c[u].pos < c[v].pos
    BY <1>2, <1>5, <1>8, <1>12 DEF Renumbered
  <1>13. HostPlaces(c, root, e, H, S)
    BY <1>9, <1>10, <1>11, <1>12 DEF HostPlaces
  <1> QED BY <1>4, <1>13

--------------------------------------------------------------------------------
(* Every content is a tree of its own.                                          *)
LEMMA ContentTidy ==
    ASSUME IInv, Satisfied(db), Forested(db.unit), NEW o
    PROVE  /\ Tidy(Content(o), o)
           /\ \A u : u \in DOMAIN Content(o) <=> u \in DOMAIN db.unit /\ db.unit[u].object = o
           /\ \A u \in DOMAIN Content(o) : Content(o)[u] = db.unit[u]
  <1> PICK c, unit : c = Content(o) /\ unit = db.unit
    OBVIOUS
  <1>1. /\ \A u : u \in DOMAIN c <=> u \in DOMAIN unit /\ unit[u].object = o
        /\ \A u \in DOMAIN c : c[u] = unit[u]
    BY DEF Content
  <1>2. Rows(unit) /\ DOMAIN unit \subseteq 1..db.units /\ db.units \in Nat
    BY DEF IInv, Tables
  <1>3. DOMAIN c \subseteq Int /\ IsFiniteSet(DOMAIN c)
    <2>1. DOMAIN c \subseteq 1..db.units
      BY <1>1, <1>2
    <2>2. IsFiniteSet(1..db.units) /\ 1..db.units \subseteq Int
      BY <1>2, FS_Interval
    <2> QED BY <2>1, <2>2, FS_Subset
  <1>4. Rows(c) /\ \A u \in DOMAIN c : c[u].object = o
    BY <1>1, <1>2 DEF Rows
  <1>5. Placed(unit) /\ Forested(unit)
    BY DEF Satisfied
  <1>6. Placed(c)
    BY <1>1, <1>5 DEF Placed
  <1>7. Tree!Acyclic(c)
    BY <1>1, <1>5 DEF Tree!Acyclic, Forested
  <1>8. \A u \in DOMAIN c : c[u].parent # None => c[c[u].parent].shows = None
    BY <1>1, <1>5, <1>6 DEF Forested, Placed
  <1>9. \A u \in DOMAIN c : c[u].pos \in Nat
    BY <1>1, <1>5 DEF Forested
  <1> QED BY <1>1, <1>3, <1>4, <1>6, <1>7, <1>8, <1>9 DEF Tidy, Forested

(* The tables after a re-homing: the moved units, the host without them, and    *)
(* the rest.                                                                    *)
Split(units, h, n, e, root, S, a, b) ==
    /\ DOMAIN units = DOMAIN db.unit \cup {e}
    /\ \A u \in S : units[u] = b[u] /\ b[u].object = n /\ b[u].shows = db.unit[u].shows
    /\ units[e] = a[e] /\ a[e].object = h /\ a[e].shows = n
    /\ \A u \in DOMAIN db.unit : u \notin S =>
            IF db.unit[u].object = h
            THEN units[u] = a[u] /\ a[u].object = h /\ a[u].shows = db.unit[u].shows
            ELSE units[u] = db.unit[u]

LEMMA RehomeSplits ==
    ASSUME IInv, Satisfied(db), Forested(db.unit), NEW r \in Request,
           Committing(r, "rehome"),
           NEW h, NEW n, NEW e, NEW c, NEW root, NEW S, NEW a, NEW b, NEW layers,
           h = req[r].object, n = db.objects + 1, e = db.units + 1,
           c = req[r].host, root = req[r].root, S = Tree!Subtree(c, root),
           a = HostWithout(c, root, n, e), b = Moved(c, root, n), layers = Over(a, b)
    PROVE  /\ ~Collides(layers, {h})
           /\ Tidy(c, h) /\ root \in DOMAIN c /\ c = Content(h) /\ h \in Live /\ h \in 1..db.objects
           /\ e \notin DOMAIN db.unit /\ n \notin Live
           /\ HostPlaces(c, root, e, a, S) /\ MovedPlaces(c, root, b, S)
           /\ Split(Replaced(layers, {h}), h, n, e, root, S, a, b)
  <1>1. /\ c = Content(h) /\ h \in Live /\ h \in 1..db.objects /\ root \in DOMAIN c /\ Rows(c)
        /\ \A u \in DOMAIN c : u \in DOMAIN db.unit /\ c[u] = db.unit[u] /\ db.unit[u].object = h
    BY AtCommit DEF Committing
  <1>2. /\ Tidy(c, h)
        /\ \A u : u \in DOMAIN c <=> u \in DOMAIN db.unit /\ db.unit[u].object = h
    BY <1>1, ContentTidy
  <1>3. e \notin DOMAIN db.unit /\ n \notin Live
    BY DEF IInv, Tables
  <1>4. HostPlaces(c, root, e, a, S) /\ MovedPlaces(c, root, b, S)
    BY <1>1, <1>2, <1>3, HostStands, MovedStand
  <1>5. /\ \A u \in DOMAIN a :
              /\ a[u].object = IF u = e THEN c[root].object ELSE c[u].object
              /\ a[u].shows = IF u = e THEN n ELSE c[u].shows
        /\ DOMAIN a = (DOMAIN c \ S) \cup {e}
    <2>1. HostShape(c, root, n, e)
      BY <1>1, HostRows
    <2> QED BY <2>1 DEF HostShape
  <1>6. DOMAIN b = S /\ \A u \in S : b[u].object = n /\ b[u].shows = c[u].shows
    <2>1. DOMAIN b = S
      BY <1>4 DEF MovedPlaces
    <2> QED BY <1>1, <2>1, MovedRows
  <1>7. root \in S /\ S \subseteq DOMAIN c
    BY <1>1, SubtreeShape
  <1>8. /\ DOMAIN layers = DOMAIN c \cup {e}
        /\ \A u \in DOMAIN layers : layers[u] = IF u \in S THEN b[u] ELSE a[u]
    <2>1. /\ DOMAIN layers = DOMAIN a \cup DOMAIN b
          /\ \A u \in DOMAIN layers : layers[u] = IF u \in DOMAIN a THEN a[u] ELSE b[u]
      BY DEF Over
    <2>2. e \notin S
      BY <1>1, <1>3, <1>7
    <2>3. DOMAIN layers = DOMAIN c \cup {e}
      BY <1>5, <1>6, <1>7, <2>1
    <2>4. \A u \in DOMAIN layers : u \in DOMAIN a <=> u \notin S
      BY <1>5, <2>2, <2>3
    <2> QED BY <2>1, <2>3, <2>4
  <1>9. ~Collides(layers, {h})
    BY <1>2, <1>3, <1>8 DEF Collides
  <1>10. PICK units : units = Replaced(layers, {h})
    OBVIOUS
  <1>11. LayersWritten(units, layers, {h})
    BY <1>9, <1>10, ReplacedUnits
  <1>12. DOMAIN units = DOMAIN db.unit \cup {e}
    BY <1>2, <1>8, <1>11 DEF LayersWritten
  <1>13. \A u \in DOMAIN layers : units[u] = layers[u]
    BY <1>11 DEF LayersWritten
  <1>14. \A u \in S : units[u] = b[u] /\ b[u].object = n /\ b[u].shows = db.unit[u].shows
    <2>1. \A u \in S : u \in DOMAIN layers /\ layers[u] = b[u] /\ c[u] = db.unit[u]
      BY <1>1, <1>7, <1>8
    <2> QED BY <1>6, <1>13, <2>1
  <1>15. units[e] = a[e] /\ a[e].object = h /\ a[e].shows = n
    <2>1. e \notin S /\ e \in DOMAIN layers
      BY <1>1, <1>3, <1>7, <1>8
    <2>2. units[e] = a[e]
      BY <1>8, <1>13, <2>1
    <2>3. c[root].object = h
      BY <1>2, <1>7 DEF Tidy
    <2> QED BY <1>5, <2>2, <2>3
  <1>16. ASSUME NEW u \in DOMAIN db.unit, u \notin S
         PROVE  IF db.unit[u].object = h
                THEN units[u] = a[u] /\ a[u].object = h /\ a[u].shows = db.unit[u].shows
                ELSE units[u] = db.unit[u]
    <2>1. CASE db.unit[u].object = h
      <3>1. u \in DOMAIN c /\ u # e /\ c[u] = db.unit[u]
        BY <1>1, <1>2, <1>3, <1>16, <2>1
      <3> QED BY <1>5, <1>8, <1>13, <1>16, <2>1, <3>1
    <2>2. CASE db.unit[u].object # h
      BY <1>11, <2>2 DEF LayersWritten
    <2> QED BY <2>1, <2>2
  <1>17. Split(units, h, n, e, root, S, a, b)
    BY <1>12, <1>14, <1>15, <1>16 DEF Split
  <1> QED BY <1>1, <1>2, <1>3, <1>4, <1>9, <1>10, <1>17

(* Both are trees, the embed stands where the root stood.                       *)
LEMMA SplitStands ==
    ASSUME IInv, Satisfied(db), Forested(db.unit),
           NEW units, NEW h, NEW n, NEW e, NEW c, NEW root, NEW S, NEW a, NEW b,
           c = Content(h), root \in DOMAIN c, S = Tree!Subtree(c, root),
           e \in Int, e \notin DOMAIN db.unit, n \notin Live, h \in Live,
           HostPlaces(c, root, e, a, S), MovedPlaces(c, root, b, S),
           Split(units, h, n, e, root, S, a, b)
    PROVE  Placed(units) /\ Forested(units)
  <1> PICK old, p : old = db.unit /\ p = c[root].parent
    OBVIOUS
  <1>1. /\ Tidy(c, h)
        /\ \A u : u \in DOMAIN c <=> u \in DOMAIN old /\ old[u].object = h
        /\ \A u \in DOMAIN c : c[u] = old[u]
    BY ContentTidy
  <1>2. /\ root \in S /\ S \subseteq DOMAIN c
        /\ \A w \in DOMAIN c : c[w].parent \in S => w \in S
        /\ \A w \in S : w # root => c[w].parent \in S
    BY SubtreeShape
  <1>3. p \notin S
    BY <1>1, RootLeaves DEF Tidy, Forested
  <1>4. Placed(old) /\ Forested(old) /\ \A u \in DOMAIN old : old[u].object # n
    BY DEF Satisfied, IInv, Tables
  <1>5. DOMAIN old \subseteq Int /\ None \notin DOMAIN old /\ None # e
    <2>1. DOMAIN old \subseteq Int
      BY DEF IInv, Tables
    <2> QED BY <2>1, OwnershipAssumption
  <1> DEFINE rest == DOMAIN c \ S
             others == {u \in DOMAIN old : old[u].object # h}
  <1>6. DOMAIN units = S \cup {e} \cup rest \cup others
    BY <1>1, <1>2 DEF Split
  <1>7. ASSUME NEW u \in S
        PROVE  /\ units[u].object = n /\ units[u].pos \in Nat
               /\ units[u].shows = old[u].shows
               /\ units[u].parent = IF u = root THEN None ELSE old[u].parent
               /\ u # root => units[u].pos = old[u].pos /\ old[u].parent \in S
    BY <1>1, <1>2 DEF Split, MovedPlaces
  <1>8. ASSUME NEW u \in rest
        PROVE  /\ units[u] = a[u] /\ units[u].object = h /\ units[u].pos \in Nat
               /\ units[u].shows = old[u].shows /\ units[u].parent = old[u].parent
               /\ old[u].parent # None => old[u].parent \in rest
               /\ old[u].parent # p => a[u] = old[u]
    <2>1. u \in DOMAIN old /\ old[u].object = h /\ c[u] = old[u] /\ u \notin S
      BY <1>1
    <2>2. units[u] = a[u] /\ a[u].object = h /\ a[u].shows = old[u].shows
      BY <2>1 DEF Split
    <2>3. /\ a[u].parent = c[u].parent /\ a[u].pos \in Nat
          /\ c[u].parent # p => a[u] = c[u]
      BY DEF HostPlaces
    <2>4. c[u].parent # None => c[u].parent \in DOMAIN c
      BY <1>1 DEF Tidy, Placed
    <2>5. c[u].parent \notin S
      BY <1>2, <2>1
    <2> QED BY <2>1, <2>2, <2>3, <2>4, <2>5
  <1>9. /\ units[e].object = h /\ units[e].parent = p /\ units[e].pos \in Nat
        /\ units[e] = a[e]
        /\ p # None => p \in rest /\ old[p].shows = None
    <2>1. p # None => p \in DOMAIN c /\ c[p].shows = None
      BY <1>1 DEF Tidy, Placed, Forested
    <2> QED BY <1>1, <1>3, <2>1 DEF Split, HostPlaces
  <1>10. ASSUME NEW u \in others
         PROVE  /\ units[u] = old[u] /\ old[u].object # h /\ old[u].object # n
                /\ old[u].parent # None => /\ old[u].parent \in others
                                           /\ old[old[u].parent].object = old[u].object
    <2>1. u \notin S
      BY <1>1, <1>2
    <2> QED BY <1>4, <2>1 DEF Split, Placed
  <1>11. e \notin S /\ e \notin rest /\ e \notin others /\ n # h
    BY <1>1, <1>2
  <1>12. \A u \in DOMAIN units : units[u].parent # None =>
            /\ units[u].parent \in DOMAIN units
            /\ units[units[u].parent].object = units[u].object
            /\ units[units[u].parent].shows = None
    <2>1. ASSUME NEW u \in S, units[u].parent # None
          PROVE  /\ units[u].parent \in S /\ units[units[u].parent].object = n
                 /\ units[units[u].parent].shows = None
      <3>1. u # root /\ old[u].parent \in S /\ units[u].parent = old[u].parent
        BY <1>7, <2>1
      <3>2. old[old[u].parent].shows = None
        BY <1>1, <1>2, <1>4, <2>1, <3>1 DEF Forested
      <3> QED BY <1>7, <3>1, <3>2
    <2>2. ASSUME NEW u \in rest, units[u].parent # None
          PROVE  /\ units[u].parent \in rest /\ units[units[u].parent].object = h
                 /\ units[units[u].parent].shows = None
      <3>1. old[u].parent \in rest /\ units[u].parent = old[u].parent
        BY <1>8, <2>2
      <3>2. old[old[u].parent].shows = None
        BY <1>1, <1>4, <1>8, <2>2 DEF Forested
      <3> QED BY <1>8, <3>1, <3>2
    <2>3. units[e].parent # None => /\ p \in rest /\ units[p].object = h
                                    /\ units[p].shows = None
      BY <1>8, <1>9
    <2>4. ASSUME NEW u \in others, units[u].parent # None
          PROVE  /\ units[u].parent \in others
                 /\ units[units[u].parent].object = units[u].object
                 /\ units[units[u].parent].shows = None
      BY <1>4, <1>10, <2>4 DEF Forested
    <2>5. /\ \A u \in S : units[u].object = n
          /\ \A u \in rest : units[u].object = h
          /\ units[e].object = h /\ units[e].parent = p
      BY <1>7, <1>8, <1>9
    <2> HIDE DEF rest, others
    <2>6. TAKE u \in DOMAIN units
    <2>7. HAVE units[u].parent # None
    <2>8. CASE u \in S
      BY <1>6, <2>1, <2>5, <2>7, <2>8
    <2>9. CASE u \in rest
      BY <1>6, <2>2, <2>5, <2>7, <2>9
    <2>10. CASE u = e
      BY <1>6, <2>3, <2>5, <2>7, <2>10
    <2>11. CASE u \in others
      BY <1>6, <2>4, <2>7, <2>11
    <2> QED BY <1>6, <2>8, <2>9, <2>10, <2>11
  <1>13. ASSUME NEW u \in DOMAIN units, NEW v \in DOMAIN units,
                units[u].object = units[v].object, units[u].parent = units[v].parent,
                units[u].pos = units[v].pos
         PROVE  u = v
    <2>1. CASE u \in S /\ v \in S
      <3>1. None \notin S
        BY <1>1, <1>2, <1>5
      <3>2. u = root <=> v = root
        BY <1>7, <1>13, <2>1, <3>1
      <3>3. CASE u # root /\ v # root
        <4>1. u \in DOMAIN old /\ v \in DOMAIN old /\ old[u].object = h /\ old[v].object = h
          BY <1>1, <1>2, <2>1
        <4>2. old[u].parent = old[v].parent /\ old[u].pos = old[v].pos
          BY <1>7, <1>13, <2>1, <3>3
        <4> QED BY <1>4, <4>1, <4>2 DEF Placed
      <3> QED BY <3>2, <3>3
    <2>2. CASE u \in rest /\ v \in rest
      <3>1. /\ u \in DOMAIN old /\ v \in DOMAIN old /\ old[u].object = h /\ old[v].object = h
            /\ old[u].parent = old[v].parent /\ c[u] = old[u] /\ c[v] = old[v]
        BY <1>1, <1>8, <1>13, <2>2
      <3>2. old[u].pos = old[v].pos
        <4>1. CASE old[u].parent = p
          <5>1. /\ a[u].pos < a[v].pos <=> c[u].pos < c[v].pos
                /\ a[v].pos < a[u].pos <=> c[v].pos < c[u].pos
            <6>1. /\ u \in DOMAIN c \ S /\ v \in DOMAIN c \ S
                  /\ c[u].parent = c[root].parent /\ c[v].parent = c[root].parent
              BY <2>2, <3>1, <4>1
            <6>2. \A x, y \in DOMAIN c \ S :
                    c[x].parent = c[root].parent /\ c[y].parent = c[root].parent =>
                        (a[x].pos < a[y].pos <=> c[x].pos < c[y].pos)
              BY DEF HostPlaces
            <6> QED BY <6>1, <6>2
          <5>2. a[u].pos = a[v].pos /\ a[u].pos \in Nat /\ c[u].pos \in Nat /\ c[v].pos \in Nat
            BY <1>4, <1>8, <1>13, <2>2, <3>1 DEF Forested
          <5> QED BY <3>1, <5>1, <5>2
        <4>2. CASE old[u].parent # p
          BY <1>8, <1>13, <2>2, <3>1, <4>2
        <4> QED BY <4>1, <4>2
      <3> QED BY <1>4, <3>1, <3>2 DEF Placed
    <2>3. ASSUME NEW w \in rest, units[w].parent = units[e].parent, units[w].pos = units[e].pos
          PROVE  FALSE
      <3>1. /\ w \in DOMAIN old /\ old[w].object = h /\ c[w] = old[w] /\ old[w].parent = p
            /\ c[root] = old[root] /\ root \in DOMAIN old /\ old[root].object = h
        BY <1>1, <1>2, <1>8, <1>9, <2>3
      <3>2. /\ a[w].pos < a[e].pos <=> c[w].pos < c[root].pos
            /\ a[e].pos < a[w].pos <=> c[root].pos < c[w].pos
        BY <2>3, <3>1 DEF HostPlaces
      <3>3. a[w].pos = a[e].pos /\ a[w].pos \in Nat /\ c[w].pos \in Nat /\ c[root].pos \in Nat
        BY <1>4, <1>8, <1>9, <2>3, <3>1 DEF Forested
      <3>4. old[w].pos = old[root].pos
        BY <3>1, <3>2, <3>3
      <3>5. w = root
        BY <1>4, <3>1, <3>4 DEF Placed
      <3> QED BY <1>2, <3>5
    <2>4. CASE u \in others /\ v \in others
      BY <1>4, <1>10, <1>13, <2>4 DEF Placed
    <2>5. \/ u \in S /\ v \in S
          \/ u \in rest \cup {e} /\ v \in rest \cup {e}
          \/ u \in others /\ v \in others
      <3>1. /\ \A k \in S : units[k].object = n
            /\ \A k \in rest \cup {e} : units[k].object = h
            /\ \A k \in others : units[k].object \notin {h, n}
        BY <1>7, <1>8, <1>9, <1>10
      <3> HIDE DEF rest, others
      <3> QED BY <1>6, <1>11, <1>13, <3>1
    <2> QED BY <1>13, <2>1, <2>2, <2>3, <2>4, <2>5
  <1>14. ASSUME NEW T \in SUBSET DOMAIN units, T # {}, \A u \in T : units[u].parent \in T
         PROVE  FALSE
    <2>1. root \notin T
      <3>1. None \notin T
        BY <1>1, <1>2, <1>5, <1>6
      <3> QED BY <1>2, <1>7, <1>14, <3>1
    <2>2. \A u \in T \ {e} : u \in DOMAIN old /\ old[u].parent \in T
      BY <1>1, <1>2, <1>6, <1>7, <1>8, <1>10, <1>14, <2>1
    <2>3. \A u \in T \ {e} : old[u].parent # e
      <3>1. None \notin T
        BY <1>1, <1>2, <1>5, <1>6
      <3> QED BY <1>4, <2>2, <3>1 DEF Placed
    <2>4. T \ {e} \in SUBSET DOMAIN old /\ T \ {e} # {}
      <3>1. e \in T => p \in T /\ p # e
        <4>1. None \notin T
          BY <1>1, <1>2, <1>5, <1>6
        <4> QED BY <1>9, <1>11, <1>14, <4>1
      <3> QED BY <1>14, <2>2, <3>1
    <2> QED BY <1>4, <2>2, <2>3, <2>4 DEF Forested, Tree!Acyclic
  <1>15. \A u \in DOMAIN units : units[u].pos \in Nat
    <2>1. \A k \in others : k \in DOMAIN old /\ units[k].pos \in Nat
      BY <1>4, <1>10 DEF Forested
    <2>2. /\ \A k \in S : units[k].pos \in Nat
          /\ \A k \in rest : units[k].pos \in Nat
          /\ units[e].pos \in Nat
      BY <1>7, <1>8, <1>9
    <2> HIDE DEF rest, others
    <2> QED BY <1>6, <2>1, <2>2
  <1>16. Tree!Acyclic(units)
    BY <1>14 DEF Tree!Acyclic
  <1>17. Placed(units)
    BY <1>12, <1>13 DEF Placed
  <1> QED BY <1>12, <1>15, <1>16, <1>17 DEF Forested

--------------------------------------------------------------------------------
(* What a transaction writes meets the constraints, but for the anchors the     *)
(* operation leaves behind.                                                     *)

(* Links start from paragraphs; embeds show what was captured, and that is no   *)
(* copy.                                                                        *)
Plain(t) == \A l \in DOMAIN t.link : t.unit[t.link[l].fromUnit].shows = None

Embeds(t) ==
    \A u \in DOMAIN t.unit : t.unit[u].shows # None =>
        /\ t.unit[u].shows \in 1..t.objects
        /\ \A edge \in t.derived : t.unit[u].shows # edge[1]

(* Among any objects there is one that none of them shows.                      *)
Nested(t) ==
    \A T \in SUBSET (1..t.objects) : T # {} =>
        \E o \in T : \A u \in DOMAIN t.unit : t.unit[u].shows = o => t.unit[u].object \notin T

Sound(t) == Forested(t.unit) /\ Plain(t) /\ Embeds(t) /\ Nested(t)

SInv == MInv /\ Sound(db)

Unbraced(r) == Tree!Subtree(req[r].host, req[r].root) \cap DOMAIN db.braced = {}

At(units, u, o) == u \in DOMAIN units /\ units[u].object = o

LEMMA SatisfiedParts ==
    ASSUME NEW t
    PROVE  Satisfied(t) <=>
            /\ \A u \in DOMAIN t.unit : t.unit[u].object \in DOMAIN t.rev
            /\ Placed(t.unit)
            /\ \A l \in DOMAIN t.link :
                  /\ At(t.unit, t.link[l].fromUnit, t.link[l].from)
                  /\ t.link[l].to # None => At(t.unit, t.link[l].toUnit, t.link[l].to)
            /\ \A edge \in t.derived : edge[1] \in DOMAIN t.rev /\ edge[2] \in DOMAIN t.rev
            /\ \A u \in DOMAIN t.named : At(t.unit, u, t.named[u])
            /\ \A u \in DOMAIN t.braced : At(t.unit, u, t.braced[u])
  BY DEF Satisfied, At

(* The tables after re-home: h the host, n the new object, e the new embed, S the *)
(* units that move and layers the rows written.                                  *)
RehomedTables(exp, h, n, e, S, layers) ==
    [db EXCEPT !.rev = Over([@ EXCEPT ![h] = exp + 1], [o \in {n} |-> 1]),
               !.unit = Replaced(layers, {h}), !.link = Followed(S, h, n),
               !.named = [u \in DOMAIN @ |-> IF u \in S /\ @[u] = h THEN n ELSE @[u]],
               !.units = e, !.objects = n, !.captured = @ \cup {n}]

(* What re-home commits, when its ids are free.                                 *)
LEMMA RehomeCommits ==
    ASSUME NEW r, Rehome(r), NEW h, NEW n, NEW e, NEW S, NEW layers,
           h = req[r].object, n = db.objects + 1, e = db.units + 1,
           S = Tree!Subtree(req[r].host, req[r].root),
           layers = Over(HostWithout(req[r].host, req[r].root, n, e),
                         Moved(req[r].host, req[r].root, n)),
           ~Collides(layers, {h})
    PROVE  Commit(r, RehomedTables(req[r].expected, h, n, e, S, layers))
  BY DEF Rehome, RehomedTables

LEMMA RehomeFits ==
    ASSUME SInv, NEW r \in Request, Rehome(r)
    PROVE  \E w : Commit(r, w) /\ Sound(w) /\ (Unbraced(r) => Satisfied(w))
  <1>1. PICK h, n, e, c, root, S, a, b, layers :
            /\ h = req[r].object /\ n = db.objects + 1 /\ e = db.units + 1
            /\ c = req[r].host /\ root = req[r].root /\ S = Tree!Subtree(c, root)
            /\ a = HostWithout(c, root, n, e) /\ b = Moved(c, root, n) /\ layers = Over(a, b)
    OBVIOUS
  <1>2. PICK units, links, names, revs, taken :
            /\ units = Replaced(layers, {h}) /\ links = Followed(S, h, n)
            /\ names = [u \in DOMAIN db.named |-> IF u \in S /\ db.named[u] = h THEN n
                                                  ELSE db.named[u]]
            /\ revs = Over([db.rev EXCEPT ![h] = req[r].expected + 1], [o \in {n} |-> 1])
            /\ taken = db.captured \cup {n}
    OBVIOUS
  <1>3. PICK w : w = [db EXCEPT !.rev = revs, !.unit = units, !.link = links, !.named = names,
                                !.units = e, !.objects = n, !.captured = taken]
    OBVIOUS
  <1>4. /\ w.rev = revs /\ w.unit = units /\ w.link = links /\ w.named = names
        /\ w.objects = n /\ w.derived = db.derived /\ w.braced = db.braced
    BY <1>3 DEF SInv, MInv, IInv, Tables
  <1>5. IInv /\ Satisfied(db) /\ Forested(db.unit) /\ Plain(db) /\ Embeds(db) /\ LinkRows
        /\ Nested(db)
    BY DEF SInv, MInv, Constraints, Sound
  <1>6. Committing(r, "rehome")
    BY DEF Rehome
  <1>7. /\ ~Collides(layers, {h})
        /\ Tidy(c, h) /\ root \in DOMAIN c /\ c = Content(h) /\ h \in Live /\ h \in 1..db.objects
        /\ e \notin DOMAIN db.unit /\ n \notin Live
        /\ HostPlaces(c, root, e, a, S) /\ MovedPlaces(c, root, b, S)
        /\ Split(units, h, n, e, root, S, a, b)
    BY <1>1, <1>2, <1>5, <1>6, RehomeSplits
  <1>8. db.units \in Nat /\ db.objects \in Nat /\ e \in Int /\ n \in Nat /\ n # None
    BY <1>1, <1>5, OwnershipAssumption DEF IInv, Tables
  <1>9. Placed(units) /\ Forested(units)
    BY <1>1, <1>5, <1>7, <1>8, SplitStands
  <1>10. Commit(r, w)
    <2>1. w = RehomedTables(req[r].expected, h, n, e, S, layers)
      BY <1>2, <1>3 DEF RehomedTables
    <2>2. /\ S = Tree!Subtree(req[r].host, req[r].root)
          /\ layers = Over(HostWithout(req[r].host, req[r].root, n, e),
                           Moved(req[r].host, req[r].root, n))
      BY <1>1
    <2>3. h = req[r].object /\ n = db.objects + 1 /\ e = db.units + 1
      BY <1>1
    <2>4. S = Tree!Subtree(req[r].host, req[r].root)
      BY <2>2
    <2>5. layers = Over(HostWithout(req[r].host, req[r].root, n, e), Moved(req[r].host, req[r].root, n))
      BY <2>2
    <2>6. ~Collides(layers, {h})
      BY <1>7
    <2>7. Commit(r, RehomedTables(req[r].expected, h, n, e, S, layers))
      BY <2>3, <2>4, <2>5, <2>6, RehomeCommits
    <2> QED BY <2>1, <2>7
  <1> PICK old : old = db.unit
    OBVIOUS
  <1>11. /\ \A u \in S : u \in DOMAIN old /\ old[u].object = h
         /\ DOMAIN units = DOMAIN old \cup {e}
         /\ \A u \in DOMAIN old : /\ units[u].shows = old[u].shows
                                  /\ units[u].object = IF u \in S THEN n ELSE old[u].object
         /\ units[e].object = h /\ units[e].shows = n
    <2>1. S \subseteq DOMAIN c
      BY <1>1, <1>7, SubtreeShape
    <2>2. \A u \in DOMAIN c : u \in DOMAIN old /\ old[u].object = h
      BY <1>5, <1>7, ContentTidy
    <2> QED BY <1>7, <2>1, <2>2 DEF Split
  <1>12. DOMAIN revs = Live \cup {n}
    BY <1>2 DEF Over, Live
  <1>13. /\ \A u \in DOMAIN old : old[u].object \in Live
         /\ \A l \in DOMAIN db.link :
               /\ At(old, db.link[l].fromUnit, db.link[l].from)
               /\ db.link[l].to # None => At(old, db.link[l].toUnit, db.link[l].to)
         /\ \A edge \in db.derived : edge[1] \in Live /\ edge[2] \in Live
         /\ \A u \in DOMAIN db.named : At(old, u, db.named[u])
         /\ \A u \in DOMAIN db.braced : At(old, u, db.braced[u])
    BY <1>5, SatisfiedParts DEF Live
  <1>14. /\ DOMAIN links = DOMAIN db.link
         /\ \A l \in DOMAIN db.link :
                /\ links[l].fromUnit = db.link[l].fromUnit /\ links[l].toUnit = db.link[l].toUnit
                /\ links[l].from = IF db.link[l].fromUnit \in S /\ db.link[l].from = h THEN n
                                   ELSE db.link[l].from
                /\ links[l].to = IF db.link[l].toUnit \in S /\ db.link[l].to = h THEN n
                                 ELSE db.link[l].to
    <2>1. DOMAIN links = DOMAIN db.link
      BY <1>2 DEF Followed
    <2>2. ASSUME NEW l \in DOMAIN db.link
          PROVE  /\ links[l].fromUnit = db.link[l].fromUnit /\ links[l].toUnit = db.link[l].toUnit
                 /\ links[l].from = IF db.link[l].fromUnit \in S /\ db.link[l].from = h THEN n
                                    ELSE db.link[l].from
                 /\ links[l].to = IF db.link[l].toUnit \in S /\ db.link[l].to = h THEN n
                                  ELSE db.link[l].to
      <3>1. IsLink(db.link[l])
        BY <1>5 DEF LinkRows
      <3>2. links[l] = [db.link[l] EXCEPT
                !.from = IF db.link[l].fromUnit \in S /\ @ = h THEN n ELSE @,
                !.to   = IF db.link[l].toUnit \in S /\ @ = h THEN n ELSE @]
        BY <1>2 DEF Followed
      <3> QED BY <3>1, <3>2 DEF IsLink
    <2> QED BY <2>1, <2>2
  <1>15. \A l \in DOMAIN links :
            /\ At(units, links[l].fromUnit, links[l].from)
            /\ links[l].to # None => At(units, links[l].toUnit, links[l].to)
    <2>1. ASSUME NEW l \in DOMAIN db.link
          PROVE  At(units, links[l].fromUnit, links[l].from)
      BY <1>11, <1>13, <1>14 DEF At
    <2>2. ASSUME NEW l \in DOMAIN db.link, links[l].to # None
          PROVE  At(units, links[l].toUnit, links[l].to)
      <3>1. db.link[l].to # None
        BY <1>14, <2>2, <1>7, OwnershipAssumption
      <3> QED BY <1>11, <1>13, <1>14, <3>1 DEF At
    <2> QED BY <1>14, <2>1, <2>2
  <1>16. \A u \in DOMAIN names : At(units, u, names[u])
    <2>1. DOMAIN names = DOMAIN db.named
          /\ \A u \in DOMAIN names : names[u] = IF u \in S /\ db.named[u] = h THEN n
                                                ELSE db.named[u]
      BY <1>2
    <2> QED BY <1>11, <1>13, <2>1 DEF At
  <1>17. Unbraced(r) => \A u \in DOMAIN db.braced : At(units, u, db.braced[u])
    <2>1. Unbraced(r) => \A u \in DOMAIN db.braced : u \notin S
      BY <1>1 DEF Unbraced
    <2> QED BY <1>11, <1>13, <2>1 DEF At
  <1>18. \A u \in DOMAIN units : units[u].object \in DOMAIN revs
    BY <1>7, <1>11, <1>12, <1>13
  <1>19. Unbraced(r) => Satisfied(w)
    BY <1>4, <1>9, <1>12, <1>13, <1>15, <1>16, <1>17, <1>18, SatisfiedParts
  <1>20. Plain(w)
    <2>1. \A l \in DOMAIN db.link : old[db.link[l].fromUnit].shows = None
      BY <1>5 DEF Plain
    <2> QED BY <1>4, <1>11, <1>13, <1>14, <2>1 DEF Plain, At
  <1>21. Embeds(w)
    <2>1. \A u \in DOMAIN old : old[u].shows # None =>
            /\ old[u].shows \in 1..db.objects
            /\ \A edge \in db.derived : old[u].shows # edge[1]
      BY <1>5 DEF Embeds
    <2>2. \A u \in DOMAIN old : old[u].shows # None => old[u].shows \in 1..n
      BY <1>1, <1>8, <2>1
    <2>3. \A edge \in db.derived : edge[1] # n
      BY <1>7, <1>13
    <2>4. n \in 1..n
      BY <1>1, <1>8
    <2> QED BY <1>4, <1>11, <2>1, <2>2, <2>3, <2>4 DEF Embeds
  <1>22. ASSUME NEW T \in SUBSET (1..n), T # {},
                \A o \in T : \E u \in DOMAIN units : units[u].shows = o /\ units[u].object \in T
         PROVE  FALSE
    <2> DEFINE T0 == IF n \in T THEN (T \ {n}) \cup {h} ELSE T
    <2>1. \A u \in DOMAIN old : old[u].shows # n
      <3>1. n \notin 1..db.objects
        BY <1>1, <1>8
      <3> QED BY <1>5, <1>8, <3>1 DEF Embeds
    <2>2. n \in T => h \in T
      BY <1>11, <1>22, <2>1
    <2>3. T0 \in SUBSET (1..db.objects) /\ T0 # {} /\ \A o \in T0 : o \in T /\ o # n
      <3>1. \A o \in T : o # n => o \in 1..db.objects
        BY <1>1, <1>8, <1>22
      <3>2. h # n
        BY <1>7
      <3>3. n \in T => T0 = (T \ {n}) \cup {h}
        OBVIOUS
      <3>4. n \notin T => T0 = T
        OBVIOUS
      <3> HIDE DEF T0
      <3>5. CASE n \in T
        BY <1>7, <2>2, <3>1, <3>2, <3>3, <3>5
      <3>6. CASE n \notin T
        BY <1>22, <3>1, <3>4, <3>6
      <3> QED BY <3>5, <3>6
    <2>4. ASSUME NEW o \in T0
          PROVE  \E u \in DOMAIN old : old[u].shows = o /\ old[u].object \in T0
      <3>1. PICK u \in DOMAIN units : units[u].shows = o /\ units[u].object \in T
        BY <1>22, <2>3
      <3>2. u \in DOMAIN old
        BY <1>11, <2>3, <3>1
      <3>3. old[u].object \in T0
        <4>1. old[u].object # n
          BY <1>7, <1>13, <3>2
        <4> QED BY <1>11, <2>2, <3>1, <3>2, <4>1
      <3> QED BY <1>11, <3>1, <3>2, <3>3
    <2> HIDE DEF T0
    <2>5. \E o \in T0 : \A u \in DOMAIN old : old[u].shows = o => old[u].object \notin T0
      BY <1>5, <2>3 DEF Nested
    <2> QED BY <2>4, <2>5
  <1>23. Nested(w)
    BY <1>4, <1>22 DEF Nested
  <1> QED BY <1>4, <1>9, <1>10, <1>19, <1>20, <1>21, <1>23 DEF Sound

--------------------------------------------------------------------------------
(* dissolve_object: the units of f stand where the embed e stood.               *)
FoldPlaces(c, e, f, L) ==
    /\ DOMAIN L = (DOMAIN c \ {e}) \cup DOMAIN f
    /\ \A u \in DOMAIN f :
          /\ L[u].parent = IF f[u].parent = None THEN c[e].parent ELSE f[u].parent
          /\ L[u].pos \in Nat
          /\ f[u].parent # None => L[u].pos = f[u].pos
    /\ \A u \in DOMAIN c \ {e} :
          /\ L[u].parent = c[u].parent
          /\ L[u].pos \in Nat
          /\ c[u].parent # c[e].parent => L[u] = c[u]
    /\ \A u, v \in {w \in DOMAIN c \ {e} : c[w].parent = c[e].parent}
                        \cup {w \in DOMAIN f : f[w].parent = None} :
          L[u].pos = L[v].pos => u = v

LEMMA FoldedStands ==
    ASSUME NEW c, NEW f, NEW h, NEW d, Tidy(c, h), Tidy(f, d), NEW e \in DOMAIN c,
           DOMAIN c \cap DOMAIN f = {}
    PROVE  FoldPlaces(c, e, f, Folded(c, e, f))
  <1> DEFINE family == Tree!Kids(c, c[e].parent) \ {e}
             roots == Tree!Kids(f, None)
             before(v) ==
                IF v \in roots
                THEN {w \in family : c[w].pos < c[e].pos} \cup {w \in roots : f[w].pos < f[v].pos}
                ELSE {w \in family : c[w].pos < c[v].pos}
                        \cup (IF c[v].pos > c[e].pos THEN roots ELSE {})
  <1> PICK L, p : L = Folded(c, e, f) /\ p = c[e].parent
    OBVIOUS
  <1>1. /\ family = {w \in DOMAIN c \ {e} : c[w].parent = p}
        /\ roots = {w \in DOMAIN f : f[w].parent = None}
    BY DEF Tree!Kids
  <1>2. DOMAIN L = (DOMAIN c \ {e}) \cup DOMAIN f
    BY DEF Folded
  <1>3. \A u \in (DOMAIN c \ {e}) \cup DOMAIN f : L[u] =
            CASE u \in roots -> [f[u] EXCEPT !.object = c[e].object, !.parent = c[e].parent,
                                             !.pos = Cardinality(before(u))]
              [] u \in DOMAIN f \ roots -> [f[u] EXCEPT !.object = c[e].object]
              [] u \in family -> [c[u] EXCEPT !.pos = Cardinality(before(u))]
              [] OTHER -> c[u]
    BY DEF Folded
  <1>4. /\ \A u \in DOMAIN c : IsRow(c[u]) /\ c[u].pos \in Nat
        /\ \A u \in DOMAIN f : IsRow(f[u]) /\ f[u].pos \in Nat
    BY DEF Tidy, Forested, Rows
  <1>5. IsFiniteSet(family \cup roots)
    <2>1. family \cup roots \subseteq DOMAIN c \cup DOMAIN f
      BY <1>1
    <2>2. IsFiniteSet(DOMAIN c) /\ IsFiniteSet(DOMAIN f)
      BY DEF Tidy
    <2>3. IsFiniteSet(DOMAIN c \cup DOMAIN f)
      BY <2>2, FS_Union
    <2> HIDE DEF family, roots
    <2> QED BY <2>1, <2>3, FS_Subset
  <1>6. family \cap roots = {} /\ e \notin roots
    BY <1>1
  <1>7. \A v : before(v) \subseteq family \cup roots
    OBVIOUS
  <1>8. ASSUME NEW u \in family \cup roots, NEW v \in family \cup roots, u # v
        PROVE  \/ before(u) \subseteq before(v) /\ u \in before(v) /\ u \notin before(u)
               \/ before(v) \subseteq before(u) /\ v \in before(u) /\ v \notin before(v)
    <2>1. c[e].pos \in Nat
      BY <1>4
    <2>2. \A w \in family : /\ c[w].pos \in Nat /\ c[w].pos # c[e].pos
                            /\ \A x \in family : w # x => c[w].pos # c[x].pos
      BY <1>1, <1>4 DEF Tidy, Placed
    <2>3. \A w \in roots : /\ f[w].pos \in Nat
                           /\ \A x \in roots : w # x => f[w].pos # f[x].pos
      BY <1>1, <1>4 DEF Tidy, Placed
    <2>4. ASSUME NEW x \in roots, NEW y \in roots, f[x].pos < f[y].pos
          PROVE  before(x) \subseteq before(y) /\ x \in before(y) /\ x \notin before(x)
      BY <1>6, <2>3, <2>4
    <2>5. ASSUME NEW x \in family, NEW y \in family, c[x].pos < c[y].pos
          PROVE  before(x) \subseteq before(y) /\ x \in before(y) /\ x \notin before(x)
      <3>1. x \notin roots /\ y \notin roots
        BY <1>6
      <3>2. /\ before(x) = {w \in family : c[w].pos < c[x].pos}
                              \cup (IF c[x].pos > c[e].pos THEN roots ELSE {})
            /\ before(y) = {w \in family : c[w].pos < c[y].pos}
                              \cup (IF c[y].pos > c[e].pos THEN roots ELSE {})
        BY <3>1
      <3>3. c[x].pos > c[e].pos => c[y].pos > c[e].pos
        BY <2>1, <2>2, <2>5
      <3>4. \A w \in family : c[w].pos < c[x].pos => c[w].pos < c[y].pos
        BY <2>2, <2>5
      <3>5. ~(c[x].pos < c[x].pos)
        BY <2>2
      <3> HIDE DEF before
      <3> QED BY <2>5, <3>1, <3>2, <3>3, <3>4, <3>5
    <2>6. ASSUME NEW x \in roots, NEW y \in family
          PROVE  \/ before(x) \subseteq before(y) /\ x \in before(y) /\ x \notin before(x)
                 \/ before(y) \subseteq before(x) /\ y \in before(x) /\ y \notin before(y)
      <3>1. y \notin roots /\ x \notin family
        BY <1>6
      <3>2. /\ before(x) = {w \in family : c[w].pos < c[e].pos}
                              \cup {w \in roots : f[w].pos < f[x].pos}
            /\ before(y) = {w \in family : c[w].pos < c[y].pos}
                              \cup (IF c[y].pos > c[e].pos THEN roots ELSE {})
        BY <3>1
      <3> HIDE DEF before
      <3>3. CASE c[y].pos > c[e].pos
        <4>1. \A w \in family : c[w].pos < c[e].pos => c[w].pos < c[y].pos
          BY <2>1, <2>2, <3>3
        <4>2. ~(f[x].pos < f[x].pos)
          BY <2>3
        <4> QED BY <3>1, <3>2, <3>3, <4>1, <4>2
      <3>4. CASE c[y].pos < c[e].pos
        <4>1. \A w \in family : c[w].pos < c[y].pos => c[w].pos < c[e].pos
          BY <2>1, <2>2, <3>4
        <4>2. ~(c[y].pos > c[e].pos) /\ ~(c[y].pos < c[y].pos)
          BY <2>1, <2>2, <3>4
        <4> QED BY <3>1, <3>2, <3>4, <4>1, <4>2
      <3> QED BY <2>1, <2>2, <3>3, <3>4
    <2> HIDE DEF before
    <2>7. CASE u \in roots /\ v \in roots
      BY <1>8, <2>3, <2>4, <2>7
    <2>8. CASE u \in family /\ v \in family
      BY <1>8, <2>2, <2>5, <2>8
    <2> QED BY <1>8, <2>6, <2>7, <2>8
  <1>9. ASSUME NEW v
        PROVE  IsFiniteSet(before(v)) /\ Cardinality(before(v)) \in Nat
    BY <1>5, <1>7, FS_Subset, FS_CardinalityType
  <1> HIDE DEF before
  <1>10. ASSUME NEW u \in family \cup roots, NEW v \in family \cup roots,
                Cardinality(before(u)) = Cardinality(before(v))
         PROVE  u = v
    <2>1. ASSUME NEW x, NEW y, before(x) \subseteq before(y), x \in before(y), x \notin before(x),
                 Cardinality(before(x)) = Cardinality(before(y))
          PROVE  FALSE
      BY <1>9, <2>1, FS_Subset
    <2> QED BY <1>8, <1>10, <2>1
  <1> HIDE DEF family, roots
  <1>11. ASSUME NEW u \in DOMAIN f
         PROVE  /\ L[u].parent = IF f[u].parent = None THEN p ELSE f[u].parent
                /\ L[u].pos \in Nat
                /\ f[u].parent # None => L[u].pos = f[u].pos
                /\ u \in roots => L[u].pos = Cardinality(before(u))
    <2> PICK place : place = Cardinality(before(u))
      OBVIOUS
    <2>1. /\ u \in (DOMAIN c \ {e}) \cup DOMAIN f /\ place \in Nat /\ IsRow(f[u])
          /\ u \notin family
      BY <1>1, <1>4, <1>9
    <2>2. CASE u \in roots
      <3>1. L[u] = [f[u] EXCEPT !.object = c[e].object, !.parent = c[e].parent, !.pos = place]
        BY <1>3, <2>1, <2>2
      <3>2. f[u].parent = None
        BY <1>1, <2>2
      <3> QED BY <2>1, <3>1, <3>2 DEF IsRow
    <2>3. CASE u \notin roots
      <3>1. L[u] = [f[u] EXCEPT !.object = c[e].object]
        BY <1>3, <2>1, <2>3
      <3>2. f[u].parent # None /\ f[u].pos \in Nat
        BY <1>1, <1>4, <2>3
      <3> QED BY <2>1, <2>3, <3>1, <3>2 DEF IsRow
    <2> QED BY <2>2, <2>3
  <1>12. ASSUME NEW u \in DOMAIN c \ {e}
         PROVE  /\ L[u].parent = c[u].parent /\ L[u].pos \in Nat
                /\ c[u].parent # p => L[u] = c[u]
                /\ u \in family => L[u].pos = Cardinality(before(u))
    <2>1. u \notin DOMAIN f /\ u \notin roots
      BY <1>1
    <2>2. CASE u \in family
      <3>1. L[u] = [c[u] EXCEPT !.pos = Cardinality(before(u))]
        BY <1>3, <2>1, <2>2
      <3> QED BY <1>1, <1>4, <1>9, <2>2, <3>1 DEF IsRow
    <2>3. CASE u \notin family
      <3>1. L[u] = c[u]
        BY <1>3, <2>1, <2>3
      <3> QED BY <1>1, <1>4, <2>3, <3>1
    <2> QED BY <2>2, <2>3
  <1>13. \A u, v \in family \cup roots : L[u].pos = L[v].pos => u = v
    BY <1>1, <1>10, <1>11, <1>12
  <1>14. FoldPlaces(c, e, f, L)
    BY <1>1, <1>2, <1>11, <1>12, <1>13 DEF FoldPlaces
  <1> QED BY <1>14

(* The tables after a folding back.                                             *)
Joined(units, h, d, e, c, f, L) ==
    /\ DOMAIN units = DOMAIN db.unit \ {e}
    /\ \A u \in (DOMAIN c \ {e}) \cup DOMAIN f :
          units[u] = L[u] /\ L[u].object = h /\ L[u].shows = db.unit[u].shows
    /\ \A u \in DOMAIN db.unit : db.unit[u].object \notin {h, d} => units[u] = db.unit[u]

LEMMA DissolveJoins ==
    ASSUME IInv, Satisfied(db), Forested(db.unit), NEW h, NEW d, NEW e, NEW c, NEW f, NEW L,
           c = Content(h), f = Content(d), h # d, h # None, d # None,
           e \in EmbedsOf(c, d), L = Folded(c, e, f)
    PROVE  /\ ~Collides(L, {h, d})
           /\ Tidy(c, h) /\ Tidy(f, d) /\ DOMAIN c \cap DOMAIN f = {}
           /\ FoldPlaces(c, e, f, L)
           /\ Joined(Replaced(L, {h, d}), h, d, e, c, f, L)
  <1>1. /\ Tidy(c, h) /\ Tidy(f, d)
        /\ \A u : u \in DOMAIN c <=> u \in DOMAIN db.unit /\ db.unit[u].object = h
        /\ \A u : u \in DOMAIN f <=> u \in DOMAIN db.unit /\ db.unit[u].object = d
        /\ \A u \in DOMAIN c : c[u] = db.unit[u]
        /\ \A u \in DOMAIN f : f[u] = db.unit[u]
    BY ContentTidy
  <1>2. DOMAIN c \cap DOMAIN f = {} /\ e \in DOMAIN c
    BY <1>1 DEF EmbedsOf
  <1>3. FoldPlaces(c, e, f, L)
    BY <1>1, <1>2, FoldedStands
  <1>4. /\ DOMAIN L = (DOMAIN c \ {e}) \cup DOMAIN f
        /\ \A u \in DOMAIN L : /\ L[u].object = h
                               /\ u \in DOMAIN c => L[u].shows = c[u].shows
                               /\ u \in DOMAIN f => L[u].shows = f[u].shows
    <2>1. Rows(c) /\ Rows(f)
      BY <1>1 DEF Tidy
    <2>2. \A u \in DOMAIN c : c[u].object = h
      BY <1>1
    <2>3. \A u \in DOMAIN c \cap DOMAIN f : c[u] = f[u]
      BY <1>2
    <2>4. FoldedShape(c, e, f, h)
      BY <1>2, <2>1, <2>2, <2>3, FoldedRows
    <2> QED BY <2>4 DEF FoldedShape
  <1>5. ~Collides(L, {h, d})
    BY <1>1, <1>4 DEF Collides
  <1>6. PICK units : units = Replaced(L, {h, d})
    OBVIOUS
  <1>7. LayersWritten(units, L, {h, d})
    BY <1>5, <1>6, ReplacedUnits
  <1>8. DOMAIN units = DOMAIN db.unit \ {e}
    <2>1. \A u : u \in DOMAIN L <=> u \in DOMAIN db.unit /\ u # e /\ db.unit[u].object \in {h, d}
      BY <1>1, <1>2, <1>4
    <2>2. db.unit[e].object = h
      BY <1>1, <1>2
    <2>3. \A u \in DOMAIN units : u \in DOMAIN db.unit \ {e}
      BY <1>7, <2>1, <2>2 DEF LayersWritten
    <2>4. \A u \in DOMAIN db.unit \ {e} : u \in DOMAIN units
      BY <1>7, <2>1 DEF LayersWritten
    <2> QED BY <2>3, <2>4
  <1>9. \A u \in (DOMAIN c \ {e}) \cup DOMAIN f :
            units[u] = L[u] /\ L[u].object = h /\ L[u].shows = db.unit[u].shows
    BY <1>1, <1>4, <1>7 DEF LayersWritten
  <1>10. \A u \in DOMAIN db.unit : db.unit[u].object \notin {h, d} => units[u] = db.unit[u]
    BY <1>7 DEF LayersWritten
  <1> QED BY <1>1, <1>2, <1>3, <1>5, <1>6, <1>8, <1>9, <1>10 DEF Joined

LEMMA JoinedStand ==
    ASSUME IInv, Satisfied(db), Forested(db.unit),
           NEW units, NEW h, NEW d, NEW e, NEW c, NEW f, NEW L,
           c = Content(h), f = Content(d), h # d, d # None, e \in EmbedsOf(c, d),
           DOMAIN c \cap DOMAIN f = {}, FoldPlaces(c, e, f, L),
           Joined(units, h, d, e, c, f, L)
    PROVE  Placed(units) /\ Forested(units)
  <1> PICK old, p : old = db.unit /\ p = c[e].parent
    OBVIOUS
  <1>1. /\ Tidy(c, h) /\ Tidy(f, d)
        /\ \A u : u \in DOMAIN c <=> u \in DOMAIN old /\ old[u].object = h
        /\ \A u : u \in DOMAIN f <=> u \in DOMAIN old /\ old[u].object = d
        /\ \A u \in DOMAIN c : c[u] = old[u]
        /\ \A u \in DOMAIN f : f[u] = old[u]
    BY ContentTidy
  <1>2. Placed(old) /\ Forested(old) /\ e \in DOMAIN c /\ c[e].shows = d
    BY DEF Satisfied, EmbedsOf
  <1>3. DOMAIN old \subseteq Int /\ None \notin DOMAIN old
    <2>1. DOMAIN old \subseteq Int
      BY DEF IInv, Tables
    <2> QED BY <2>1, OwnershipAssumption
  <1> DEFINE rest == DOMAIN c \ {e}
             others == {u \in DOMAIN old : old[u].object \notin {h, d}}
             seat == {u \in rest : c[u].parent = p} \cup {u \in DOMAIN f : f[u].parent = None}
  <1>4. DOMAIN units = rest \cup DOMAIN f \cup others
    <2>1. old[e].object = h
      BY <1>1, <1>2
    <2> QED BY <1>1, <2>1 DEF Joined
  <1>5. p # e /\ (p # None => p \in rest /\ old[p].shows = None)
    <2>1. p # None => p \in DOMAIN c /\ c[p].shows = None
      BY <1>1, <1>2 DEF Tidy, Placed, Forested
    <2>2. p # e
      BY <1>1, <1>2, <1>3, <2>1
    <2> QED BY <1>1, <2>1, <2>2
  <1>6. ASSUME NEW u \in rest
        PROVE  /\ units[u] = L[u] /\ units[u].object = h /\ units[u].pos \in Nat
               /\ units[u].shows = old[u].shows /\ units[u].parent = old[u].parent
               /\ old[u].parent # None => old[u].parent \in rest /\ old[old[u].parent].shows = None
               /\ old[u].parent # p => units[u].pos = old[u].pos
    <2>1. /\ c[u] = old[u] /\ units[u] = L[u] /\ L[u].object = h
          /\ L[u].shows = old[u].shows
      BY <1>1 DEF Joined
    <2>2. /\ L[u].parent = c[u].parent /\ L[u].pos \in Nat
          /\ c[u].parent # p => L[u] = c[u]
      BY DEF FoldPlaces
    <2>3. c[u].parent # None => c[u].parent \in DOMAIN c /\ c[c[u].parent].shows = None
      BY <1>1 DEF Tidy, Placed, Forested
    <2>4. c[u].parent # e
      BY <1>2, <1>3, <1>1, <2>3
    <2> QED BY <1>1, <2>1, <2>2, <2>3, <2>4
  <1>7. ASSUME NEW u \in DOMAIN f
        PROVE  /\ units[u] = L[u] /\ units[u].object = h /\ units[u].pos \in Nat
               /\ units[u].shows = old[u].shows
               /\ units[u].parent = IF old[u].parent = None THEN p ELSE old[u].parent
               /\ old[u].parent # None => /\ old[u].parent \in DOMAIN f
                                          /\ old[old[u].parent].shows = None
                                          /\ units[u].pos = old[u].pos
    <2>1. /\ f[u] = old[u] /\ units[u] = L[u] /\ L[u].object = h
          /\ L[u].shows = old[u].shows
      BY <1>1 DEF Joined
    <2>2. /\ L[u].parent = IF f[u].parent = None THEN p ELSE f[u].parent
          /\ L[u].pos \in Nat
          /\ f[u].parent # None => L[u].pos = f[u].pos
      BY DEF FoldPlaces
    <2>3. f[u].parent # None => f[u].parent \in DOMAIN f /\ f[f[u].parent].shows = None
      BY <1>1 DEF Tidy, Placed, Forested
    <2> QED BY <1>1, <2>1, <2>2, <2>3
  <1>8. ASSUME NEW u \in others
        PROVE  /\ units[u] = old[u] /\ old[u].object \notin {h, d}
               /\ old[u].parent # None => /\ old[u].parent \in others
                                          /\ old[old[u].parent].object = old[u].object
                                          /\ old[old[u].parent].shows = None
    BY <1>2 DEF Joined, Placed, Forested
  <1>9. rest \cap DOMAIN f = {} /\ rest \cap others = {} /\ DOMAIN f \cap others = {}
        /\ None \notin rest \cup DOMAIN f \cup others
    BY <1>1, <1>3
  <1>10. \A u, v \in seat : units[u].pos = units[v].pos => u = v
    <2>1. \A u, v \in seat : L[u].pos = L[v].pos => u = v
      BY DEF FoldPlaces
    <2> QED BY <1>6, <1>7, <2>1
  <1>11. \A u \in rest \cup DOMAIN f : u \in seat <=> units[u].parent = p
    <2>1. \A u \in rest : u \in seat <=> units[u].parent = p
      BY <1>1, <1>6, <1>9
    <2>2. \A u \in DOMAIN f : u \in seat <=> units[u].parent = p
      BY <1>1, <1>3, <1>5, <1>7, <1>9
    <2> QED BY <2>1, <2>2
  <1> HIDE DEF seat
  <1>12. \A u \in DOMAIN units : units[u].parent # None =>
            /\ units[u].parent \in DOMAIN units
            /\ units[units[u].parent].object = units[u].object
            /\ units[units[u].parent].shows = None
    <2>1. \A u \in rest : units[u].parent # None =>
                /\ units[u].parent \in rest /\ units[units[u].parent].object = units[u].object
                /\ units[units[u].parent].shows = None
      BY <1>6
    <2>2. \A u \in DOMAIN f : units[u].parent # None =>
                /\ units[u].parent \in rest \cup DOMAIN f
                /\ units[units[u].parent].object = units[u].object
                /\ units[units[u].parent].shows = None
      BY <1>5, <1>6, <1>7
    <2>3. \A u \in others : units[u].parent # None =>
                /\ units[u].parent \in others
                /\ units[units[u].parent].object = units[u].object
                /\ units[units[u].parent].shows = None
      BY <1>8
    <2> HIDE DEF rest, others
    <2> QED BY <1>4, <2>1, <2>2, <2>3
  <1>13. ASSUME NEW u \in DOMAIN units, NEW v \in DOMAIN units,
                units[u].object = units[v].object, units[u].parent = units[v].parent,
                units[u].pos = units[v].pos
         PROVE  u = v
    <2>1. CASE u \in others
      <3>1. v \in others
        <4>1. units[v].object \notin {h, d}
          BY <1>8, <1>13, <2>1
        <4>2. v \notin rest /\ v \notin DOMAIN f
          BY <1>6, <1>7, <4>1
        <4> QED BY <1>4, <1>13, <4>2
      <3> QED BY <1>2, <1>8, <1>13, <2>1, <3>1 DEF Placed
    <2>2. CASE u \in rest \cup DOMAIN f
      <3>1. v \in rest \cup DOMAIN f
        <4>1. units[v].object = h
          BY <1>6, <1>7, <1>13, <2>2
        <4>2. v \notin others
          BY <1>8, <4>1
        <4> QED BY <1>4, <1>13, <4>2
      <3>2. CASE units[u].parent = p
        BY <1>10, <1>11, <1>13, <2>2, <3>1, <3>2
      <3>3. CASE units[u].parent # p
        <4>1. \/ u \in rest /\ v \in rest
              \/ /\ u \in DOMAIN f /\ v \in DOMAIN f
                 /\ old[u].parent # None /\ old[v].parent # None
          BY <1>6, <1>7, <1>9, <1>13, <2>2, <3>1, <3>3
        <4>2. /\ old[u].parent = old[v].parent /\ old[u].pos = old[v].pos
              /\ old[u].object = old[v].object /\ u \in DOMAIN old /\ v \in DOMAIN old
          BY <1>1, <1>6, <1>7, <1>13, <3>3, <4>1
        <4> QED BY <1>2, <4>2 DEF Placed
      <3> QED BY <3>2, <3>3
    <2> QED BY <1>4, <2>1, <2>2
  <1>14. ASSUME NEW T \in SUBSET DOMAIN units, T # {}, \A u \in T : units[u].parent \in T
         PROVE  FALSE
    <2>1. None \notin T
      BY <1>4, <1>9, <1>14
    <2>2. CASE T \subseteq DOMAIN f
      <3>1. \A u \in T : old[u].parent \in T
        BY <1>5, <1>7, <1>9, <1>14, <2>1, <2>2
      <3>2. T \in SUBSET DOMAIN old
        BY <1>1, <2>2
      <3> QED BY <1>2, <1>14, <3>1, <3>2 DEF Forested, Tree!Acyclic
    <2>3. CASE ~(T \subseteq DOMAIN f)
      <3>1. T \ DOMAIN f \in SUBSET DOMAIN old /\ T \ DOMAIN f # {}
        BY <1>1, <1>4, <1>14, <2>3
      <3>2. ASSUME NEW u \in T \ DOMAIN f
            PROVE  old[u].parent \in T \ DOMAIN f
        BY <1>4, <1>6, <1>8, <1>9, <1>14, <2>1
      <3> QED BY <1>2, <3>1, <3>2 DEF Forested, Tree!Acyclic
    <2> QED BY <2>2, <2>3
  <1>15. \A u \in DOMAIN units : units[u].pos \in Nat
    BY <1>2, <1>4, <1>6, <1>7, <1>8 DEF Forested
  <1>16. Tree!Acyclic(units)
    BY <1>14 DEF Tree!Acyclic
  <1>17. Placed(units)
    BY <1>12, <1>13 DEF Placed
  <1> QED BY <1>12, <1>15, <1>16, <1>17 DEF Forested

Unanchored(r) ==
    /\ DOMAIN req[r].folded \cap DOMAIN db.braced = {}
    /\ EmbedsOf(req[r].host, req[r].other) \cap Anchors = {}

LEMMA DissolveFits ==
    ASSUME SInv, NEW r \in Request, Dissolve(r)
    PROVE  \/ \E reply \in {"conflict", "blocked"} : Refuse(r, reply)
           \/ \E w : Commit(r, w) /\ Sound(w) /\ (Unanchored(r) => Satisfied(w))
  <1>1. PICK h, d, c, f :
            h = req[r].object /\ d = req[r].other /\ c = req[r].host /\ f = req[r].folded
    OBVIOUS
  <1>2. PICK e \in EmbedsOf(c, d) :
            IF ~DissolvedCurrent(r) THEN Refuse(r, "conflict")
            ELSE IF Inbound(d) # {} THEN Refuse(r, "blocked")
            ELSE IF Collides(Folded(c, e, f), {h, d}) THEN Refuse(r, "failed")
            ELSE Commit(r, Dissolved(h, d, req[r].expected + 1, Folded(c, e, f)))
    BY <1>1 DEF Dissolve
  <1> PICK L : L = Folded(c, e, f)
    OBVIOUS
  <1> SUFFICES ASSUME DissolvedCurrent(r), Inbound(d) = {}
               PROVE  \E w : Commit(r, w) /\ Sound(w) /\ (Unanchored(r) => Satisfied(w))
    BY <1>2
  <1>3. IInv /\ Satisfied(db) /\ Forested(db.unit) /\ Plain(db) /\ Embeds(db) /\ LinkRows
        /\ Nested(db)
    BY DEF SInv, MInv, Constraints, Sound
  <1>4. /\ c = Content(h) /\ f = Content(d) /\ h \in Live /\ d \in Live
        /\ h \in 1..db.objects /\ d \in 1..db.objects
    <2>1. req[r].pc = "locked" /\ req[r].op = "dissolve"
      BY DEF Dissolve, Committing
    <2>2. /\ c = Content(h) /\ f = Content(d) /\ h \in Live /\ d \in Live /\ h \in 1..db.objects
      BY <1>1, <1>3, <2>1, AtCommit
    <2> QED BY <1>3, <2>2 DEF IInv, Tables
  <1>5. h # None /\ d # None
    BY <1>4, OwnershipAssumption
  <1> PICK old : old = db.unit
    OBVIOUS
  <1>6. e \in DOMAIN old /\ old[e].object = h /\ old[e].shows = d
    <2>1. e \in DOMAIN c /\ c[e].shows = d
      BY DEF EmbedsOf
    <2> QED BY <1>4, <2>1 DEF Content
  <1>7. h # d
    <2>1. {d} \in SUBSET (1..db.objects) /\ {d} # {}
      BY <1>4
    <2>2. PICK o \in {d} : \A u \in DOMAIN old : old[u].shows = o => old[u].object \notin {d}
      BY <1>3, <2>1 DEF Nested
    <2> QED BY <1>6, <2>2
  <1>8. PICK units, links, names, revs, taken :
            /\ units = Replaced(L, {h, d}) /\ links = Inherited(h, d)
            /\ names = [u \in DOMAIN db.named |-> IF db.named[u] = d THEN h ELSE db.named[u]]
            /\ revs = [o \in DOMAIN db.rev \ {d} |-> IF o = h THEN req[r].expected + 1
                                                     ELSE db.rev[o]]
            /\ taken = db.captured \ {d}
    OBVIOUS
  <1>9. PICK w : w = [db EXCEPT !.rev = revs, !.unit = units, !.link = links, !.named = names,
                                !.captured = taken]
    OBVIOUS
  <1>10. /\ w.rev = revs /\ w.unit = units /\ w.link = links /\ w.named = names
         /\ w.objects = db.objects /\ w.derived = db.derived /\ w.braced = db.braced
    BY <1>9 DEF SInv, MInv, IInv, Tables
  <1>11. /\ ~Collides(L, {h, d})
         /\ Tidy(c, h) /\ Tidy(f, d) /\ DOMAIN c \cap DOMAIN f = {}
         /\ FoldPlaces(c, e, f, L)
         /\ Joined(units, h, d, e, c, f, L)
    BY <1>2, <1>3, <1>4, <1>5, <1>7, <1>8, DissolveJoins
  <1>12. Placed(units) /\ Forested(units)
    BY <1>3, <1>4, <1>5, <1>7, <1>11, JoinedStand
  <1>13. Commit(r, w)
    BY <1>2, <1>8, <1>9, <1>11 DEF Dissolved
  <1>14. /\ DOMAIN units = DOMAIN old \ {e}
         /\ \A u \in DOMAIN old \ {e} :
               /\ units[u].shows = old[u].shows
               /\ units[u].object = IF old[u].object = d THEN h ELSE old[u].object
    <2>1. \A u : /\ u \in DOMAIN c <=> u \in DOMAIN old /\ old[u].object = h
                 /\ u \in DOMAIN f <=> u \in DOMAIN old /\ old[u].object = d
      BY <1>3, <1>4, ContentTidy
    <2> QED BY <1>11, <2>1 DEF Joined
  <1>15. DOMAIN revs = Live \ {d}
    BY <1>8 DEF Live
  <1>16. /\ \A u \in DOMAIN old : old[u].object \in Live
         /\ \A l \in DOMAIN db.link :
               /\ At(old, db.link[l].fromUnit, db.link[l].from)
               /\ db.link[l].to # None => At(old, db.link[l].toUnit, db.link[l].to)
         /\ \A edge \in db.derived : edge[1] \in Live /\ edge[2] \in Live
         /\ \A u \in DOMAIN db.named : At(old, u, db.named[u])
         /\ \A u \in DOMAIN db.braced : At(old, u, db.braced[u])
    BY <1>3, SatisfiedParts DEF Live
  <1>17. /\ DOMAIN links = DOMAIN db.link
         /\ \A l \in DOMAIN db.link :
                /\ links[l].fromUnit = db.link[l].fromUnit /\ links[l].toUnit = db.link[l].toUnit
                /\ links[l].from = IF db.link[l].from = d THEN h ELSE db.link[l].from
                /\ links[l].to = IF db.link[l].from = d /\ db.link[l].to = d THEN h
                                 ELSE db.link[l].to
    <2>1. DOMAIN links = DOMAIN db.link
      BY <1>8 DEF Inherited
    <2>2. ASSUME NEW l \in DOMAIN db.link
          PROVE  /\ links[l].fromUnit = db.link[l].fromUnit /\ links[l].toUnit = db.link[l].toUnit
                 /\ links[l].from = IF db.link[l].from = d THEN h ELSE db.link[l].from
                 /\ links[l].to = IF db.link[l].from = d /\ db.link[l].to = d THEN h
                                  ELSE db.link[l].to
      <3>1. IsLink(db.link[l])
        BY <1>3 DEF LinkRows
      <3>2. links[l] = IF db.link[l].from = d
                       THEN [db.link[l] EXCEPT !.from = h, !.to = IF @ = d THEN h ELSE @]
                       ELSE db.link[l]
        BY <1>8 DEF Inherited
      <3> QED BY <3>1, <3>2 DEF IsLink
    <2> QED BY <2>1, <2>2
  <1>18. \A l \in DOMAIN db.link : db.link[l].fromUnit # e
    <2>1. \A l \in DOMAIN db.link : old[db.link[l].fromUnit].shows = None
      BY <1>3 DEF Plain
    <2> QED BY <1>5, <1>6, <2>1
  <1>24. \A l \in DOMAIN db.link : db.link[l].to = d => db.link[l].from = d
    BY NotInbound
  <1>25. \A edge \in db.derived : edge[1] # d /\ edge[2] # d
    <2>1. \A edge \in db.derived : edge[1] # d
      BY <1>3, <1>5, <1>6 DEF Embeds
    <2> QED BY <2>1, NotInbound
  <1>26. ASSUME NEW l \in DOMAIN db.link
         PROVE  /\ links[l].fromUnit = db.link[l].fromUnit
                /\ db.link[l].fromUnit \in DOMAIN old \ {e}
                /\ old[db.link[l].fromUnit].object = db.link[l].from
                /\ db.link[l].to # None => /\ db.link[l].toUnit \in DOMAIN old
                                           /\ old[db.link[l].toUnit].object = db.link[l].to
    <2>1. At(old, db.link[l].fromUnit, db.link[l].from)
      BY <1>16
    <2>2. db.link[l].to # None => At(old, db.link[l].toUnit, db.link[l].to)
      BY <1>16
    <2> QED BY <1>17, <1>18, <2>1, <2>2 DEF At
  <1>19. Unanchored(r) => Satisfied(w)
    <2> SUFFICES ASSUME Unanchored(r)
                 PROVE  Satisfied(w)
      OBVIOUS
    <2>1. /\ e \notin DOMAIN db.named /\ e \notin DOMAIN db.braced
          /\ \A l \in DOMAIN db.link : db.link[l].toUnit # e
      <3>1. e \notin Anchors
        BY <1>1 DEF Unanchored
      <3> QED BY <3>1 DEF Anchors
    <2>2. \A u \in DOMAIN db.braced : old[u].object # d
      <3>1. \A u \in DOMAIN db.braced : u \notin DOMAIN f
        BY <1>1 DEF Unanchored
      <3>2. \A u \in DOMAIN old : old[u].object = d => u \in DOMAIN f
        BY <1>4 DEF Content
      <3> QED BY <1>16, <3>1, <3>2 DEF At
    <2>3. \A u \in DOMAIN units : units[u].object \in DOMAIN revs
      BY <1>4, <1>7, <1>14, <1>15, <1>16
    <2>4. \A l \in DOMAIN links :
              /\ At(units, links[l].fromUnit, links[l].from)
              /\ links[l].to # None => At(units, links[l].toUnit, links[l].to)
      <3>1. ASSUME NEW l \in DOMAIN db.link
            PROVE  At(units, links[l].fromUnit, links[l].from)
        BY <1>14, <1>17, <1>26 DEF At
      <3>2. ASSUME NEW l \in DOMAIN db.link, links[l].to # None
            PROVE  At(units, links[l].toUnit, links[l].to)
        <4>1. /\ links[l].toUnit = db.link[l].toUnit /\ db.link[l].toUnit # e
              /\ links[l].to = IF db.link[l].to = d THEN h ELSE db.link[l].to
          BY <1>17, <1>24, <2>1
        <4>2. db.link[l].toUnit \in DOMAIN old /\ old[db.link[l].toUnit].object = db.link[l].to
          BY <1>5, <1>26, <3>2, <4>1
        <4> QED BY <1>14, <4>1, <4>2 DEF At
      <3> QED BY <1>17, <3>1, <3>2
    <2>5. \A edge \in db.derived : edge[1] \in DOMAIN revs /\ edge[2] \in DOMAIN revs
      BY <1>15, <1>16, <1>25
    <2>6. \A u \in DOMAIN names : At(units, u, names[u])
      <3>1. DOMAIN names = DOMAIN db.named
            /\ \A u \in DOMAIN names : names[u] = IF db.named[u] = d THEN h ELSE db.named[u]
        BY <1>8
      <3> QED BY <1>14, <1>16, <2>1, <3>1 DEF At
    <2>7. \A u \in DOMAIN db.braced : At(units, u, db.braced[u])
      BY <1>14, <1>16, <2>1, <2>2 DEF At
    <2> QED BY <1>10, <1>12, <2>3, <2>4, <2>5, <2>6, <2>7, SatisfiedParts
  <1>20. Plain(w)
    <2>1. \A l \in DOMAIN db.link : old[db.link[l].fromUnit].shows = None
      BY <1>3 DEF Plain
    <2>2. /\ DOMAIN links = DOMAIN db.link
          /\ \A l \in DOMAIN db.link : /\ links[l].fromUnit = db.link[l].fromUnit
                                      /\ db.link[l].fromUnit \in DOMAIN old \ {e}
      BY <1>17, <1>26
    <2>3. \A l \in DOMAIN links : units[links[l].fromUnit].shows = None
      BY <1>14, <2>1, <2>2
    <2> QED BY <1>10, <2>3 DEF Plain
  <1>21. Embeds(w)
    BY <1>3, <1>10, <1>14 DEF Embeds
  <1>22. ASSUME NEW T \in SUBSET (1..db.objects), T # {},
                \A o \in T : \E u \in DOMAIN units : units[u].shows = o /\ units[u].object \in T
         PROVE  FALSE
    <2> DEFINE T0 == T \cup {o \in {d} : h \in T}
    <2>1. T0 \in SUBSET (1..db.objects) /\ T0 # {}
      BY <1>4, <1>22
    <2>2. ASSUME NEW o \in T0
          PROVE  \E u \in DOMAIN old : old[u].shows = o /\ old[u].object \in T0
      <3>1. CASE o \in T
        <4>1. PICK u \in DOMAIN units : units[u].shows = o /\ units[u].object \in T
          BY <1>22, <3>1
        <4> QED BY <1>14, <4>1
      <3>2. CASE o = d /\ h \in T
        BY <1>6, <3>2
      <3> QED BY <2>2, <3>1, <3>2
    <2> HIDE DEF T0
    <2>3. \E o \in T0 : \A u \in DOMAIN old : old[u].shows = o => old[u].object \notin T0
      BY <1>3, <2>1 DEF Nested
    <2> QED BY <2>2, <2>3
  <1>23. Nested(w)
    BY <1>10, <1>22 DEF Nested
  <1> QED BY <1>10, <1>12, <1>13, <1>19, <1>20, <1>21, <1>23 DEF Sound

(* materialize_object: the copies hang among themselves as the originals do.    *)
Twins(c, n, K, origin) ==
    /\ \A i \in DOMAIN K :
          /\ origin[i] \in DOMAIN c
          /\ K[i].object = n /\ K[i].pos = c[origin[i]].pos /\ K[i].shows = c[origin[i]].shows
          /\ c[origin[i]].parent = None => K[i].parent = None
          /\ c[origin[i]].parent # None => /\ K[i].parent \in DOMAIN K
                                           /\ origin[K[i].parent] = c[origin[i]].parent
    /\ \A i, j \in DOMAIN K : origin[i] = origin[j] => i = j

LEMMA CopiesStand ==
    ASSUME NEW c, NEW o, Tidy(c, o), NEW last \in Nat, NEW n
    PROVE  \E origin : Twins(c, n, Copied(c, n, last), origin)
  <1> DEFINE new(u) == last + Cardinality({v \in DOMAIN c : v <= u})
             original(i) == CHOOSE u \in DOMAIN c : new(u) = i
             ids == {new(u) : u \in DOMAIN c}
  <1>1. \A u, v \in DOMAIN c : new(u) = new(v) => u = v
    BY NewIds DEF Tidy
  <1> PICK K : K = Copied(c, n, last)
    OBVIOUS
  <1>2. K = [i \in ids |->
                [c[original(i)] EXCEPT !.object = n, !.parent = IF @ = None THEN None ELSE new(@)]]
    BY DEF Copied
  <1> HIDE DEF new
  <1>3. ASSUME NEW u \in DOMAIN c
        PROVE  new(u) \in ids /\ original(new(u)) = u
    BY <1>1
  <1>4. \A i \in ids : \E u \in DOMAIN c : new(u) = i
    OBVIOUS
  <1>5. \A i \in ids : original(i) \in DOMAIN c /\ new(original(i)) = i
    BY <1>4
  <1> PICK origin : origin = [i \in ids |-> original(i)]
    OBVIOUS
  <1>6. \A i \in ids : origin[i] = original(i)
    OBVIOUS
  <1> HIDE DEF original, ids
  <1>7. DOMAIN K = ids
    BY <1>2
  <1>8. ASSUME NEW i \in ids
        PROVE  /\ origin[i] \in DOMAIN c
               /\ K[i].object = n /\ K[i].pos = c[origin[i]].pos /\ K[i].shows = c[origin[i]].shows
               /\ c[origin[i]].parent = None => K[i].parent = None
               /\ c[origin[i]].parent # None => /\ K[i].parent \in ids
                                                /\ origin[K[i].parent] = c[origin[i]].parent
    <2>1. PICK row, p : row = c[origin[i]] /\ p = (IF row.parent = None THEN None ELSE new(row.parent))
      OBVIOUS
    <2>2. K[i] = [row EXCEPT !.object = n, !.parent = p]
      BY <1>2, <1>6, <2>1
    <2>3. origin[i] \in DOMAIN c /\ IsRow(row)
      BY <1>5, <1>6, <2>1 DEF Tidy, Rows
    <2>4. K[i].object = n /\ K[i].pos = row.pos /\ K[i].shows = row.shows /\ K[i].parent = p
      BY <2>2, <2>3 DEF IsRow
    <2>5. row.parent # None => row.parent \in DOMAIN c
      BY <2>1, <2>3 DEF Tidy, Placed
    <2>6. row.parent # None => p \in ids /\ origin[p] = row.parent
      BY <1>3, <1>6, <2>1, <2>5
    <2> QED BY <2>1, <2>3, <2>4, <2>6
  <1>9. \A i, j \in ids : origin[i] = origin[j] => i = j
    BY <1>5, <1>6
  <1>10. Twins(c, n, K, origin)
    BY <1>7, <1>8, <1>9 DEF Twins
  <1> QED BY <1>10

LEMMA CopyFits ==
    ASSUME SInv, NEW r \in Request, Copy(r)
    PROVE  \E w : Commit(r, w) /\ Sound(w) /\ Satisfied(w)
  <1>1. PICK n, c, o, K : /\ n = db.objects + 1 /\ c = req[r].host /\ o = req[r].object
                          /\ K = Copied(c, n, db.units)
    OBVIOUS
  <1>2. PICK revs, units, derived, last :
            /\ revs = Over(db.rev, [k \in {n} |-> 1])
            /\ units = Over(db.unit, K)
            /\ derived = db.derived \cup {<<n, o>>}
            /\ last = db.units + Cardinality(DOMAIN c)
    OBVIOUS
  <1>3. PICK w : w = [db EXCEPT !.rev = revs, !.unit = units, !.derived = derived,
                                !.units = last, !.objects = n]
    OBVIOUS
  <1>4. /\ w.rev = revs /\ w.unit = units /\ w.link = db.link /\ w.named = db.named
        /\ w.objects = n /\ w.derived = derived /\ w.braced = db.braced
    BY <1>3 DEF SInv, MInv, IInv, Tables
  <1>5. IInv /\ Satisfied(db) /\ Forested(db.unit) /\ Plain(db) /\ Embeds(db) /\ Nested(db)
    BY DEF SInv, MInv, Constraints, Sound
  <1>6. req[r].pc = "locked" /\ Commit(r, w)
    BY <1>1, <1>2, <1>3 DEF Copy, Committing
  <1>7. c = Content(o) /\ o \in Live
    BY <1>1, <1>5, <1>6, AtCommit
  <1> PICK old : old = db.unit
    OBVIOUS
  <1>8. /\ Tidy(c, o)
        /\ \A u \in DOMAIN c : u \in DOMAIN old /\ c[u] = old[u]
    BY <1>5, <1>7, ContentTidy
  <1>9. /\ db.units \in Nat /\ db.objects \in Nat /\ DOMAIN old \subseteq 1..db.units
        /\ Live \subseteq 1..db.objects /\ n \notin Live
    BY <1>1, <1>5 DEF IInv, Tables
  <1>10. \A i \in DOMAIN K : i \notin DOMAIN old /\ i \in Int
    <2>1. Rows(c) /\ DOMAIN c \subseteq 1..db.units
      BY <1>8, <1>9 DEF Tidy
    <2>2. CopiedShape(c, n, db.units)
      BY <1>9, <2>1, CopiedRows
    <2>3. /\ Cardinality(DOMAIN c) \in Nat
          /\ \A i \in DOMAIN K : i \in (db.units + 1)..(db.units + Cardinality(DOMAIN c))
      BY <1>1, <2>2 DEF CopiedShape
    <2> QED BY <1>9, <2>3
  <1>11. PICK origin : Twins(c, n, K, origin)
    BY <1>1, <1>8, <1>9, CopiesStand
  <1>12. /\ DOMAIN units = DOMAIN old \cup DOMAIN K
         /\ \A u \in DOMAIN old : units[u] = old[u]
         /\ \A i \in DOMAIN K : units[i] = K[i]
    BY <1>2, <1>10 DEF Over
  <1>13. None \notin DOMAIN old /\ None \notin DOMAIN K
    BY <1>9, <1>10, OwnershipAssumption
  <1>14. /\ DOMAIN revs = Live \cup {n}
         /\ \A u \in DOMAIN old : old[u].object \in Live
         /\ \A l \in DOMAIN db.link :
               /\ At(old, db.link[l].fromUnit, db.link[l].from)
               /\ db.link[l].to # None => At(old, db.link[l].toUnit, db.link[l].to)
         /\ \A edge \in db.derived : edge[1] \in Live /\ edge[2] \in Live
         /\ \A u \in DOMAIN db.named : At(old, u, db.named[u])
         /\ \A u \in DOMAIN db.braced : At(old, u, db.braced[u])
    <2>1. DOMAIN revs = Live \cup {n}
      BY <1>2 DEF Over, Live
    <2> QED BY <1>5, <2>1, SatisfiedParts DEF Live
  <1>15. \A u \in DOMAIN old : old[u].parent # None =>
            /\ old[u].parent \in DOMAIN old
            /\ old[old[u].parent].object = old[u].object
            /\ old[old[u].parent].shows = None
    BY <1>5 DEF Satisfied, Placed, Forested
  <1>16. ASSUME NEW i \in DOMAIN K, K[i].parent # None
         PROVE  /\ K[i].parent \in DOMAIN K /\ K[K[i].parent].object = n
                /\ K[K[i].parent].shows = None
    <2>1. /\ origin[i] \in DOMAIN c /\ c[origin[i]].parent # None
          /\ K[i].parent \in DOMAIN K /\ origin[K[i].parent] = c[origin[i]].parent
      BY <1>11, <1>16 DEF Twins
    <2>2. c[c[origin[i]].parent].shows = None
      BY <1>8, <2>1 DEF Tidy, Forested
    <2> QED BY <1>11, <2>1, <2>2 DEF Twins
  <1>17. \A u \in DOMAIN units : units[u].parent # None =>
            /\ units[u].parent \in DOMAIN units
            /\ units[units[u].parent].object = units[u].object
            /\ units[units[u].parent].shows = None
    <2>1. \A i \in DOMAIN K : K[i].object = n
      BY <1>11 DEF Twins
    <2> QED BY <1>12, <1>15, <1>16, <2>1
  <1>18. ASSUME NEW u \in DOMAIN units, NEW v \in DOMAIN units,
                units[u].object = units[v].object, units[u].parent = units[v].parent,
                units[u].pos = units[v].pos
         PROVE  u = v
    <2>1. CASE u \in DOMAIN old /\ v \in DOMAIN old
      BY <1>5, <1>12, <1>18, <2>1 DEF Satisfied, Placed
    <2>2. CASE u \in DOMAIN K /\ v \in DOMAIN K
      <3>1. K[u].parent = K[v].parent /\ K[u].pos = K[v].pos
        BY <1>12, <1>18, <2>2
      <3>2. /\ origin[u] \in DOMAIN c /\ origin[v] \in DOMAIN c
            /\ c[origin[u]].parent = c[origin[v]].parent
            /\ c[origin[u]].pos = c[origin[v]].pos
        BY <1>11, <1>13, <2>2, <3>1 DEF Twins
      <3>3. c[origin[u]].object = c[origin[v]].object /\ Placed(c)
        BY <1>8, <3>2 DEF Tidy
      <3>4. origin[u] = origin[v]
        BY <3>2, <3>3 DEF Placed
      <3> QED BY <1>11, <2>2, <3>4 DEF Twins
    <2>3. \A i \in DOMAIN K : units[i].object = n
      BY <1>11, <1>12 DEF Twins
    <2>4. \A x \in DOMAIN old : units[x].object # n
      BY <1>9, <1>12, <1>14
    <2> QED BY <1>12, <1>18, <2>1, <2>2, <2>3, <2>4
  <1>19. ASSUME NEW T \in SUBSET DOMAIN units, T # {}, \A u \in T : units[u].parent \in T
         PROVE  FALSE
    <2>1. None \notin T
      BY <1>12, <1>13, <1>19
    <2>2. CASE T \subseteq DOMAIN K
      <3> DEFINE O == {origin[i] : i \in T}
      <3>1. O \in SUBSET DOMAIN c /\ O # {}
        BY <1>11, <1>19, <2>2 DEF Twins
      <3>2. ASSUME NEW u \in O
            PROVE  c[u].parent \in O
        <4>1. PICK i \in T : u = origin[i]
          OBVIOUS
        <4>2. K[i].parent \in T /\ K[i].parent # None /\ i \in DOMAIN K
          BY <1>12, <1>19, <2>1, <2>2
        <4>3. origin[K[i].parent] = c[u].parent
          BY <1>11, <4>1, <4>2 DEF Twins
        <4> QED BY <4>2, <4>3
      <3> HIDE DEF O
      <3> QED BY <1>8, <3>1, <3>2 DEF Tidy, Forested, Tree!Acyclic
    <2>3. CASE ~(T \subseteq DOMAIN K)
      <3>1. T \ DOMAIN K \in SUBSET DOMAIN old /\ T \ DOMAIN K # {}
        BY <1>12, <1>19, <2>3
      <3>2. ASSUME NEW u \in T \ DOMAIN K
            PROVE  old[u].parent \in T \ DOMAIN K
        <4>1. old[u].parent \in T /\ old[u].parent # None
          BY <1>12, <1>19, <2>1, <3>1
        <4> QED BY <1>10, <1>15, <3>1, <4>1
      <3> QED BY <1>5, <3>1, <3>2 DEF Forested, Tree!Acyclic
    <2> QED BY <2>2, <2>3
  <1>20. Placed(units) /\ Forested(units)
    <2>1. \A u \in DOMAIN units : units[u].pos \in Nat
      <3>1. \A u \in DOMAIN c : c[u].pos \in Nat
        BY <1>8 DEF Tidy, Forested
      <3>2. \A u \in DOMAIN old : old[u].pos \in Nat
        BY <1>5 DEF Forested
      <3> QED BY <1>11, <1>12, <3>1, <3>2 DEF Twins
    <2>2. Placed(units)
      BY <1>17, <1>18 DEF Placed
    <2>3. Tree!Acyclic(units)
      BY <1>19 DEF Tree!Acyclic
    <2> QED BY <1>17, <2>1, <2>2, <2>3 DEF Forested
  <1>21. Satisfied(w)
    <2>1. \A u, k : At(old, u, k) => At(units, u, k)
      BY <1>12 DEF At
    <2>2. \A u \in DOMAIN units : units[u].object \in DOMAIN revs
      BY <1>11, <1>12, <1>14 DEF Twins
    <2>3. \A edge \in derived : edge[1] \in DOMAIN revs /\ edge[2] \in DOMAIN revs
      BY <1>2, <1>7, <1>14
    <2> QED BY <1>4, <1>14, <1>20, <2>1, <2>2, <2>3, SatisfiedParts
  <1>22. Plain(w)
    BY <1>4, <1>5, <1>12, <1>14 DEF Plain, At
  <1>23. \A i \in DOMAIN units : units[i].shows # None =>
            \E u \in DOMAIN old : old[u].shows = units[i].shows
    <2>1. \A i \in DOMAIN K : K[i].shows = c[origin[i]].shows /\ origin[i] \in DOMAIN c
      BY <1>11 DEF Twins
    <2> QED BY <1>8, <1>12, <2>1
  <1>24. \A u \in DOMAIN old : old[u].shows # None =>
            /\ old[u].shows \in 1..db.objects /\ old[u].shows # n
            /\ \A edge \in db.derived : old[u].shows # edge[1]
    <2>1. \A k \in 1..db.objects : k # n
      BY <1>1, <1>9
    <2> QED BY <1>5, <2>1 DEF Embeds
  <1>25. Embeds(w)
    <2>1. \A k \in 1..db.objects : k \in 1..n
      BY <1>1, <1>9
    <2>2. ASSUME NEW i \in DOMAIN units, units[i].shows # None, NEW edge \in derived
          PROVE  units[i].shows \in 1..n /\ units[i].shows # edge[1]
      <3>1. PICK u \in DOMAIN old : old[u].shows = units[i].shows
        BY <1>23, <2>2
      <3>2. edge \in db.derived \/ edge[1] = n
        BY <1>2, <2>2
      <3> QED BY <1>24, <2>1, <2>2, <3>1, <3>2
    <2>3. derived # {}
      BY <1>2
    <2> QED BY <1>4, <2>2, <2>3 DEF Embeds
  <1>26. ASSUME NEW T \in SUBSET (1..n), T # {}
         PROVE  \E k \in T : \A u \in DOMAIN units : units[u].shows = k => units[u].object \notin T
    <2>1. \A i \in DOMAIN units : units[i].shows # n
      <3>1. n # None
        BY <1>1, <1>9, OwnershipAssumption
      <3> QED BY <1>23, <1>24, <3>1
    <2>2. CASE n \in T
      BY <2>1, <2>2
    <2>3. CASE n \notin T
      <3>1. T \in SUBSET (1..db.objects)
        <4>1. \A k \in 1..n : k # n => k \in 1..db.objects
          BY <1>1, <1>9
        <4> QED BY <1>26, <2>3, <4>1
      <3>2. PICK k \in T : \A u \in DOMAIN old : old[u].shows = k => old[u].object \notin T
        BY <1>5, <1>26, <3>1 DEF Nested
      <3>3. \A i \in DOMAIN K : units[i].object = n
        BY <1>11, <1>12 DEF Twins
      <3> QED BY <1>12, <2>3, <3>2, <3>3
    <2> QED BY <2>2, <2>3
  <1>27. Nested(w)
    BY <1>4, <1>26 DEF Nested
  <1> QED BY <1>4, <1>6, <1>20, <1>21, <1>22, <1>25, <1>27 DEF Sound

LEMMA SaveFits ==
    ASSUME SInv, NEW r \in Request, Save(r)
    PROVE  \E w : Commit(r, w) /\ Sound(w) /\ (~StaleMention(req[r]) => Satisfied(w))
  <1>1. PICK o, cite, root, gone, row :
            /\ o = req[r].object /\ cite = req[r].cite /\ root = req[r].root
            /\ gone = (cite.object = o /\ cite.unit \notin DOMAIN req[r].host)
            /\ row = [from |-> IF cite.link \in DOMAIN db.link THEN db.link[cite.link].from ELSE o,
                      fromUnit |-> root,
                      to |-> IF gone THEN None ELSE cite.object,
                      toUnit |-> IF gone THEN None ELSE cite.unit]
    OBVIOUS
  <1>2. PICK revs, units, links :
            /\ revs = [db.rev EXCEPT ![o] = req[r].expected + 1]
            /\ units = [db.unit EXCEPT ![root].cites = cite]
            /\ links = Over([l \in {cite.link} |-> row], db.link)
    OBVIOUS
  <1>3. PICK w : w = [db EXCEPT !.rev = revs, !.unit = units, !.link = links]
    OBVIOUS
  <1>4. /\ w.rev = revs /\ w.unit = units /\ w.link = links /\ w.named = db.named
        /\ w.objects = db.objects /\ w.derived = db.derived /\ w.braced = db.braced
    BY <1>3 DEF SInv, MInv, IInv, Tables
  <1>5. IInv /\ Satisfied(db) /\ Forested(db.unit) /\ Plain(db) /\ Embeds(db) /\ Nested(db)
    BY DEF SInv, MInv, Constraints, Sound
  <1>6. req[r].pc = "locked" /\ req[r].op = "save"
    BY DEF Save, Committing
  <1>7. Commit(r, w)
    <2>1. w = [db EXCEPT !.rev[o] = req[r].expected + 1, !.unit[root].cites = cite,
                         !.link = Over([l \in {cite.link} |-> row], @)]
      BY <1>2, <1>3 DEF IInv, Tables
    <2> QED BY <1>1, <2>1 DEF Save
  <1> PICK old : old = db.unit
    OBVIOUS
  <1>8. root \in DOMAIN old /\ old[root].object = o /\ old[root].shows = None
    <2>1. root \in DOMAIN req[r].host /\ old[root].object = o /\ req[r].host[root] = old[root]
          /\ root \in DOMAIN old
      BY <1>1, <1>5, <1>6, AtCommit
    <2>2. req[r].host[root].shows = None
      BY <1>1, <1>6 DEF SInv, MInv, Constraints, Writing
    <2> QED BY <2>1, <2>2
  <1>9. /\ DOMAIN units = DOMAIN old
        /\ \A u \in DOMAIN old :
              /\ units[u].object = old[u].object /\ units[u].parent = old[u].parent
              /\ units[u].pos = old[u].pos /\ units[u].shows = old[u].shows
    <2>1. ASSUME NEW u \in DOMAIN old
          PROVE  /\ units[u].object = old[u].object /\ units[u].parent = old[u].parent
                 /\ units[u].pos = old[u].pos /\ units[u].shows = old[u].shows
      <3>1. IsRow(old[u])
        BY <1>5 DEF IInv, Tables, Rows
      <3>2. units[u] = IF u = root THEN [old[u] EXCEPT !.cites = cite] ELSE old[u]
        BY <1>2
      <3> QED BY <3>1, <3>2 DEF IsRow
    <2> QED BY <1>2, <2>1
  <1>10. Placed(units) /\ Forested(units)
    <2>1. Placed(old) /\ Forested(old)
      BY <1>5 DEF Satisfied
    <2>2. Placed(units)
      BY <1>9, <2>1 DEF Placed
    <2>3. Tree!Acyclic(units)
      BY <1>9, <2>1 DEF Forested, Tree!Acyclic
    <2>4. \A u \in DOMAIN old : old[u].parent # None => old[u].parent \in DOMAIN old
      BY <2>1 DEF Placed
    <2> QED BY <1>9, <2>1, <2>2, <2>3, <2>4 DEF Forested
  <1>11. /\ DOMAIN links = DOMAIN db.link \cup {cite.link}
         /\ \A l \in DOMAIN links : links[l] = IF l = cite.link THEN row ELSE db.link[l]
    BY <1>2 DEF Over
  <1>12. /\ DOMAIN revs = Live
         /\ \A u \in DOMAIN old : old[u].object \in Live
         /\ \A l \in DOMAIN db.link :
               /\ At(old, db.link[l].fromUnit, db.link[l].from)
               /\ db.link[l].to # None => At(old, db.link[l].toUnit, db.link[l].to)
         /\ \A edge \in db.derived : edge[1] \in Live /\ edge[2] \in Live
         /\ \A u \in DOMAIN db.named : At(old, u, db.named[u])
         /\ \A u \in DOMAIN db.braced : At(old, u, db.braced[u])
    <2>1. DOMAIN revs = Live
      BY <1>2 DEF Live
    <2> QED BY <1>5, <2>1, SatisfiedParts DEF Live
  <1>13. \A u, k : At(old, u, k) => At(units, u, k)
    BY <1>9 DEF At
  <1>14. ~StaleMention(req[r]) => Satisfied(w)
    <2> SUFFICES ASSUME ~StaleMention(req[r])
                 PROVE  Satisfied(w)
      OBVIOUS
    <2>1. /\ At(old, cite.unit, cite.object)
          /\ cite.link \in DOMAIN db.link => db.link[cite.link].from = o
      BY <1>1 DEF StaleMention, At
    <2>2. /\ row.from = o /\ row.fromUnit = root
          /\ row.to # None => row.to = cite.object /\ row.toUnit = cite.unit
      BY <1>1, <2>1
    <2>3. \A l \in DOMAIN links : /\ At(units, links[l].fromUnit, links[l].from)
                                  /\ links[l].to # None => At(units, links[l].toUnit, links[l].to)
      <3>1. /\ At(units, row.fromUnit, row.from)
            /\ row.to # None => At(units, row.toUnit, row.to)
        BY <1>8, <1>13, <2>1, <2>2 DEF At
      <3>2. \A l \in DOMAIN db.link :
                /\ At(units, db.link[l].fromUnit, db.link[l].from)
                /\ db.link[l].to # None => At(units, db.link[l].toUnit, db.link[l].to)
        BY <1>12, <1>13
      <3> QED BY <1>11, <3>1, <3>2
    <2>4. \A u \in DOMAIN units : units[u].object \in DOMAIN revs
      BY <1>9, <1>12
    <2> QED BY <1>4, <1>10, <1>12, <1>13, <2>3, <2>4, SatisfiedParts
  <1>15. Plain(w)
    <2>1. row.fromUnit = root
      BY <1>1
    <2>2. \A l \in DOMAIN links : units[links[l].fromUnit].shows = None
      BY <1>5, <1>8, <1>9, <1>11, <1>12, <2>1 DEF Plain, At
    <2> QED BY <1>4, <2>2 DEF Plain
  <1>16. Embeds(w)
    BY <1>4, <1>5, <1>9 DEF Embeds
  <1>17. Nested(w)
    <2>1. ASSUME NEW T \in SUBSET (1..db.objects), T # {}
          PROVE  \E k \in T : \A u \in DOMAIN units : units[u].shows = k => units[u].object \notin T
      <3>1. PICK k \in T : \A u \in DOMAIN old : old[u].shows = k => old[u].object \notin T
        BY <1>5, <2>1 DEF Nested
      <3> QED BY <1>9, <3>1
    <2> QED BY <1>4, <2>1 DEF Nested
  <1> QED BY <1>4, <1>7, <1>10, <1>14, <1>15, <1>16, <1>17 DEF Sound

LEMMA DeleteFits ==
    ASSUME SInv, NEW r \in Request, Delete(r)
    PROVE  \E w : Commit(r, w) /\ Sound(w) /\ Satisfied(w)
  <1>1. PICK o, u : o = req[r].object /\ u = req[r].root
    OBVIOUS
  <1>2. PICK revs, units, links, names, braces :
            /\ revs = [db.rev EXCEPT ![o] = req[r].expected + 1]
            /\ units = [v \in DOMAIN db.unit \ {u} |-> db.unit[v]]
            /\ links = [l \in {k \in DOMAIN db.link : u \notin {db.link[k].fromUnit, db.link[k].toUnit}}
                            |-> db.link[l]]
            /\ names = [v \in DOMAIN db.named \ {u} |-> db.named[v]]
            /\ braces = [v \in DOMAIN db.braced \ {u} |-> db.braced[v]]
    OBVIOUS
  <1>3. PICK w : w = [db EXCEPT !.rev = revs, !.unit = units, !.link = links, !.named = names,
                                !.braced = braces]
    OBVIOUS
  <1>4. /\ w.rev = revs /\ w.unit = units /\ w.link = links /\ w.named = names
        /\ w.objects = db.objects /\ w.derived = db.derived /\ w.braced = braces
    BY <1>3 DEF SInv, MInv, IInv, Tables
  <1>5. IInv /\ Satisfied(db) /\ Forested(db.unit) /\ Plain(db) /\ Embeds(db) /\ Nested(db)
        /\ Placed(db.unit)
    BY DEF SInv, MInv, Constraints, Sound, Satisfied
  <1>6. req[r].pc = "locked" /\ req[r].op = "delete"
    BY DEF Delete, Committing
  <1>7. Commit(r, w)
    <2>1. w = [db EXCEPT !.rev[o] = req[r].expected + 1, !.unit = units, !.link = links,
                         !.named = names, !.braced = braces]
      BY <1>2, <1>3 DEF IInv, Tables
    <2> QED BY <1>1, <1>2, <2>1 DEF Delete
  <1> PICK old : old = db.unit
    OBVIOUS
  <1>8. u \in DOMAIN old /\ old[u].object = o /\ \A v \in DOMAIN old : old[v].parent # u
    <2>1. /\ u \in DOMAIN req[r].host /\ req[r].host = Content(o)
          /\ u \in DOMAIN old /\ old[u].object = o
      BY <1>1, <1>5, <1>6, AtCommit
    <2>2. Tree!Kids(req[r].host, u) = {}
      BY <1>1, <1>6 DEF SInv, MInv, Constraints, Writing
    <2>3. u # None
      BY <1>5, <2>1, OwnershipAssumption DEF IInv, Tables
    <2>4. ASSUME NEW v \in DOMAIN old, old[v].parent = u
          PROVE  FALSE
      <3>1. old[v].object = o
        BY <1>5, <2>1, <2>3, <2>4 DEF Placed
      <3>2. v \in Tree!Kids(req[r].host, u)
        BY <2>1, <2>4, <3>1 DEF Content, Tree!Kids
      <3> QED BY <2>2, <3>2
    <2> QED BY <2>1, <2>4
  <1>9. DOMAIN units = DOMAIN old \ {u} /\ \A v \in DOMAIN units : units[v] = old[v]
    BY <1>2
  <1>10. Placed(units) /\ Forested(units)
    <2>1. Placed(units)
      BY <1>5, <1>8, <1>9 DEF Placed
    <2>2. Tree!Acyclic(units)
      BY <1>5, <1>9 DEF Forested, Tree!Acyclic
    <2>3. \A v \in DOMAIN units : units[v].parent # None => units[v].parent \in DOMAIN units
      BY <2>1 DEF Placed
    <2> QED BY <1>5, <1>9, <2>1, <2>2, <2>3 DEF Forested
  <1>11. /\ DOMAIN revs = Live
         /\ \A v \in DOMAIN old : old[v].object \in Live
         /\ \A l \in DOMAIN db.link :
               /\ At(old, db.link[l].fromUnit, db.link[l].from)
               /\ db.link[l].to # None => At(old, db.link[l].toUnit, db.link[l].to)
         /\ \A edge \in db.derived : edge[1] \in Live /\ edge[2] \in Live
         /\ \A v \in DOMAIN db.named : At(old, v, db.named[v])
         /\ \A v \in DOMAIN db.braced : At(old, v, db.braced[v])
    <2>1. DOMAIN revs = Live
      BY <1>2 DEF Live
    <2> QED BY <1>5, <2>1, SatisfiedParts DEF Live
  <1>12. \A v, k : At(old, v, k) /\ v # u => At(units, v, k)
    BY <1>9 DEF At
  <1>13. /\ DOMAIN links \subseteq DOMAIN db.link
         /\ \A l \in DOMAIN links : /\ links[l] = db.link[l]
                                    /\ links[l].fromUnit # u /\ links[l].toUnit # u
    BY <1>2
  <1>14. Satisfied(w)
    <2>1. \A v \in DOMAIN units : units[v].object \in DOMAIN revs
      BY <1>9, <1>11
    <2>2. \A l \in DOMAIN links : /\ At(units, links[l].fromUnit, links[l].from)
                                  /\ links[l].to # None => At(units, links[l].toUnit, links[l].to)
      BY <1>11, <1>12, <1>13
    <2>3. \A v \in DOMAIN names : At(units, v, names[v])
      BY <1>2, <1>11, <1>12
    <2>4. \A v \in DOMAIN braces : At(units, v, braces[v])
      BY <1>2, <1>11, <1>12
    <2> QED BY <1>4, <1>10, <1>11, <2>1, <2>2, <2>3, <2>4, SatisfiedParts
  <1>15. Plain(w)
    <2>1. \A l \in DOMAIN links : links[l].fromUnit \in DOMAIN units
      BY <1>9, <1>11, <1>13 DEF At
    <2>2. \A l \in DOMAIN links : old[links[l].fromUnit].shows = None
      BY <1>5, <1>13 DEF Plain
    <2>3. \A l \in DOMAIN links : units[links[l].fromUnit].shows = None
      BY <1>9, <2>1, <2>2
    <2> QED BY <1>4, <2>3 DEF Plain
  <1>16. Embeds(w)
    BY <1>4, <1>5, <1>9 DEF Embeds
  <1>17. Nested(w)
    <2>1. ASSUME NEW T \in SUBSET (1..db.objects), T # {}
          PROVE  \E k \in T : \A v \in DOMAIN units : units[v].shows = k => units[v].object \notin T
      <3>1. PICK k \in T : \A v \in DOMAIN old : old[v].shows = k => old[v].object \notin T
        BY <1>5, <2>1 DEF Nested
      <3> QED BY <1>9, <3>1
    <2> QED BY <1>4, <2>1 DEF Nested
  <1> QED BY <1>4, <1>7, <1>10, <1>14, <1>15, <1>16, <1>17 DEF Sound

--------------------------------------------------------------------------------
(* The trees stay trees, whoever writes them.                                   *)
LEMMA CommitSound ==
    ASSUME SInv, NEW r \in Request, NEW w, Commit(r, w), Sound(w)
    PROVE  Sound(db)'
  <1>1. db' = w \/ db' = db
    BY DEF Commit, Refuse
  <1> QED BY <1>1 DEF SInv, Sound

LEMMA InitSound == Init => SInv
  <1> SUFFICES ASSUME Init PROVE SInv
    OBVIOUS
  <1>1. MInv
    BY InitMeans
  <1>2. db.unit = Start /\ DOMAIN db.link = {}
    BY DEF Init
  <1>3. \A u \in DOMAIN Start : Start[u].shows = None /\ Start[u].pos \in Nat
    BY OwnershipAssumption
  <1>4. Forested(db.unit)
    <2>1. \A u \in DOMAIN Start : Start[u].parent # None => Start[u].parent \in DOMAIN Start
      BY OwnershipAssumption DEF Placed
    <2> QED BY <1>2, <1>3, <2>1, OwnershipAssumption DEF Forested
  <1>5. Plain(db) /\ Embeds(db)
    BY <1>2, <1>3 DEF Plain, Embeds
  <1>6. Nested(db)
    <2>1. \A o \in 1..db.objects : o # None
      BY <1>1, OwnershipAssumption DEF MInv, IInv, Tables
    <2> QED BY <1>2, <1>3, <2>1 DEF Nested
  <1> QED BY <1>1, <1>4, <1>5, <1>6 DEF SInv, Sound

LEMMA StepSound == SInv /\ [Next]_vars => SInv'
  <1> SUFFICES ASSUME SInv, [Next]_vars PROVE SInv'
    OBVIOUS
  <1>1. MInv'
    BY StepMeans DEF SInv
  <1>2. db' = db => Sound(db)'
    BY DEF SInv
  <1>3. CASE Brace
    <2>1. PICK braced : db' = [db EXCEPT !.braced = braced]
      BY <1>3 DEF Brace
    <2>2. /\ db'.unit = db.unit /\ db'.link = db.link /\ db'.derived = db.derived
          /\ db'.objects = db.objects
      BY <2>1 DEF SInv, MInv, IInv, Tables
    <2>3. Forested(db.unit) /\ Plain(db) /\ Embeds(db) /\ Nested(db)
      BY DEF SInv, Sound
    <2>4. Forested(db'.unit)
      BY <2>2, <2>3
    <2>5. Plain(db')
      BY <2>2, <2>3 DEF Plain
    <2>6. Embeds(db')
      BY <2>2, <2>3 DEF Embeds
    <2>7. Nested(db')
      BY <2>2, <2>3 DEF Nested
    <2> QED BY <1>1, <2>4, <2>5, <2>6, <2>7 DEF SInv, Sound
  <1>4. ASSUME NEW r \in Request, Arrive(r)
        PROVE  db' = db
    BY <1>4 DEF Arrive, ReceiveRehome, ReceiveDissolve, ReceiveCopy, ReceiveSave, ReceiveCite,
                ReceiveDelete, Receive
  <1>5. ASSUME NEW r \in Request, Handle(r)
        PROVE  Sound(db)'
    <2>1. CASE ReadDissolved(r) \/ ReadInbound(r) \/ LockDissolved(r) \/ Gate(r) \/ Victim(r)
      <3>1. db' = db
        BY <2>1 DEF ReadDissolved, ReadInbound, LockDissolved, Gate, Victim, Refuse
      <3> QED BY <1>2, <3>1
    <2>2. CASE Rehome(r)
      BY <2>2, RehomeFits, CommitSound
    <2>3. CASE Dissolve(r)
      <3>1. CASE \E reply \in {"conflict", "blocked"} : Refuse(r, reply)
        BY <1>2, <3>1 DEF Refuse
      <3> QED BY <2>3, <3>1, DissolveFits, CommitSound
    <2>4. CASE Copy(r)
      BY <2>4, CopyFits, CommitSound
    <2>5. CASE Save(r)
      BY <2>5, SaveFits, CommitSound
    <2>6. CASE Delete(r)
      BY <2>6, DeleteFits, CommitSound
    <2> QED BY <1>5, <2>1, <2>2, <2>3, <2>4, <2>5, <2>6 DEF Handle
  <1> QED BY <1>1, <1>2, <1>3, <1>4, <1>5 DEF Next, vars, SInv

(* Only its own handler answers a request.                                      *)
LEMMA OwnStep ==
    ASSUME IInv, NEW r \in Request, Arrive(r) \/ Handle(r)
    PROVE  \A s \in Request \ {r} : req'[s] = req[s]
  <1>1. req = [s \in Request |-> req[s]]
    BY DEF IInv, Handlers
  <1>2. \A reply : Answer(r, reply) => \A s \in Request \ {r} : req'[s] = req[s]
    BY <1>1 DEF Answer
  <1>3. \A w : Commit(r, w) => \A s \in Request \ {r} : req'[s] = req[s]
    BY <1>2 DEF Commit, Refuse
  <1>4. \A o, q : Receive(r, o, q) => \A s \in Request \ {r} : req'[s] = req[s]
    BY <1>1 DEF Receive
  <1>5. CASE Arrive(r)
    BY <1>4, <1>5 DEF Arrive, ReceiveRehome, ReceiveDissolve, ReceiveCopy, ReceiveSave,
                      ReceiveCite, ReceiveDelete
  <1>6. CASE ReadDissolved(r) \/ ReadInbound(r)
    BY <1>1, <1>2, <1>6 DEF ReadDissolved, ReadInbound, Refuse
  <1>7. CASE LockDissolved(r) \/ Gate(r)
    BY <1>1, <1>2, <1>7 DEF LockDissolved, Gate, Refuse
  <1>8. CASE Rehome(r) \/ Dissolve(r)
    BY <1>2, <1>3, <1>8 DEF Rehome, Dissolve, Refuse
  <1>9. CASE Copy(r) \/ Save(r) \/ Delete(r) \/ Victim(r)
    BY <1>2, <1>3, <1>9 DEF Copy, Save, Delete, Victim, Refuse
  <1> QED BY <1>5, <1>6, <1>7, <1>8, <1>9 DEF Handle

LEMMA Replied ==
    ASSUME IInv, NEW r \in Request
    PROVE  /\ \A reply : Answer(r, reply) => req'[r].reply = reply
           /\ \A w : Commit(r, w) =>
                 \/ req'[r].reply = "ok"
                 \/ /\ ~Satisfied(w)
                    /\ req'[r].reply = IF req[r].op \in {"save", "delete"} THEN "refused"
                                       ELSE "failed"
  <1>1. ASSUME NEW reply, Answer(r, reply)
        PROVE  req'[r].reply = reply
    BY <1>1 DEF Answer, Idle, IInv, Handlers
  <1>2. ASSUME NEW w, Commit(r, w)
        PROVE  \/ req'[r].reply = "ok"
               \/ /\ ~Satisfied(w)
                  /\ req'[r].reply = IF req[r].op \in {"save", "delete"} THEN "refused" ELSE "failed"
    <2>1. PICK reply : reply = IF req[r].op \in {"save", "delete"} THEN "refused" ELSE "failed"
      OBVIOUS
    <2>2. Answer(r, "ok") \/ (~Satisfied(w) /\ Answer(r, reply))
      BY <1>2, <2>1 DEF Commit, Refuse
    <2> QED BY <1>1, <2>1, <2>2
  <1> QED BY <1>1, <1>2

(* A re-homing or a dissolve fails with a 500 only for an anchor that does not  *)
(* move along, a save is refused only for a mention that is out of date, and a  *)
(* copy or a deletion meets no constraint at all: whatever tree the day is,     *)
(* and whoever else writes it meanwhile.                                        *)
THEOREM OwnershipOnlyAnchorsFail == Spec => OnlyAnchorsFail
  <1>1. ASSUME SInv, [Next]_vars, NEW r \in Request, req[r].pc = "locked", req'[r].pc = "idle"
        PROVE  /\ req'[r].reply = "failed" =>
                    \/ /\ req[r].op = "rehome"
                       /\ Tree!Subtree(req[r].host, req[r].root) \cap DOMAIN db.braced # {}
                    \/ /\ req[r].op = "dissolve"
                       /\ \/ DOMAIN req[r].folded \cap DOMAIN db.braced # {}
                          \/ EmbedsOf(req[r].host, req[r].other) \cap Anchors # {}
               /\ req'[r].reply = "refused" => req[r].op = "save" /\ StaleMention(req[r])
    <2>1. IInv
      BY <1>1 DEF SInv, MInv
    <2>2. Handle(r)
      <3>1. ~(UNCHANGED req)
        BY <1>1
      <3>2. PICK s \in Request : Arrive(s) \/ Handle(s)
        BY <1>1, <3>1 DEF Next, Brace, vars
      <3>3. s = r
        BY <1>1, <2>1, <3>2, OwnStep
      <3>4. ~Arrive(r)
        BY <1>1 DEF Arrive, ReceiveRehome, ReceiveDissolve, ReceiveCopy, ReceiveSave, ReceiveCite,
                    ReceiveDelete, Receive
      <3> QED BY <3>2, <3>3, <3>4
    <2>3. CASE Rehome(r)
      <3>1. req[r].op = "rehome"
        BY <2>3 DEF Rehome, Committing
      <3> QED BY <1>1, <2>1, <2>3, <3>1, RehomeFits, Replied DEF Unbraced
    <2>4. CASE Dissolve(r)
      <3>1. req[r].op = "dissolve"
        BY <2>4 DEF Dissolve, Committing
      <3>2. CASE \E reply \in {"conflict", "blocked"} : Refuse(r, reply)
        <4>1. req'[r].reply \in {"conflict", "blocked"}
          BY <2>1, <3>2, Replied DEF Refuse
        <4> QED BY <4>1
      <3>3. CASE \E w : Commit(r, w) /\ (Unanchored(r) => Satisfied(w))
        BY <2>1, <3>1, <3>3, Replied DEF Unanchored
      <3> QED BY <1>1, <2>4, <3>2, <3>3, DissolveFits
    <2>5. CASE Copy(r)
      <3>1. req'[r].reply = "ok"
        BY <1>1, <2>1, <2>5, CopyFits, Replied
      <3> QED BY <3>1
    <2>6. CASE Save(r)
      <3>1. req[r].op = "save"
        BY <2>6 DEF Save, Committing
      <3> QED BY <1>1, <2>1, <2>6, <3>1, SaveFits, Replied
    <2>7. CASE Delete(r)
      <3>1. req'[r].reply = "ok"
        BY <1>1, <2>1, <2>7, DeleteFits, Replied
      <3> QED BY <3>1
    <2>8. CASE Victim(r)
      <3>1. req'[r].reply = "deadlock"
        BY <2>1, <2>8, Replied DEF Victim, Refuse
      <3> QED BY <3>1
    <2>9. ~(ReadDissolved(r) \/ ReadInbound(r) \/ LockDissolved(r) \/ Gate(r))
      BY <1>1 DEF ReadDissolved, ReadInbound, LockDissolved, Gate, AtGate
    <2> QED BY <2>2, <2>3, <2>4, <2>5, <2>6, <2>7, <2>8, <2>9 DEF Handle
  <1>2. SInv /\ [Next]_vars => [\A r \in Request : req[r].pc = "locked" /\ req'[r].pc = "idle" =>
          /\ req'[r].reply = "failed" =>
                \/ /\ req[r].op = "rehome"
                   /\ Tree!Subtree(req[r].host, req[r].root) \cap DOMAIN db.braced # {}
                \/ /\ req[r].op = "dissolve"
                   /\ \/ DOMAIN req[r].folded \cap DOMAIN db.braced # {}
                      \/ EmbedsOf(req[r].host, req[r].other) \cap Anchors # {}
          /\ req'[r].reply = "refused" => req[r].op = "save" /\ StaleMention(req[r])
      ]_vars
    BY <1>1
  <1> QED BY <1>2, InitSound, StepSound, PTL DEF Spec, OnlyAnchorsFail

--------------------------------------------------------------------------------
(* A dissolve takes back what a re-homing did.                                  *)

(* Who comes before whom, after the re-homing and before it.                    *)
LEMMA FoldUndoes ==
    ASSUME NEW c, NEW h, Tidy(c, h), NEW u \in DOMAIN c, NEW n, NEW e, e \notin DOMAIN c
    PROVE  Folded(HostWithout(c, u, n, e), e, Moved(c, u, n))
                = Tree!Numbered(c, Tree!Kids(c, c[u].parent))
  <1> PICK H, M, S, p, F, G :
            /\ H = HostWithout(c, u, n, e) /\ M = Moved(c, u, n)
            /\ S = Tree!Subtree(c, u) /\ p = c[u].parent
            /\ F = Folded(H, e, M) /\ G = Tree!Numbered(c, Tree!Kids(c, p))
    OBVIOUS
  <1>1. /\ u \in S /\ S \subseteq DOMAIN c
        /\ \A w \in DOMAIN c : c[w].parent \in S => w \in S
        /\ \A w \in S : w # u => c[w].parent \in S
    BY SubtreeShape
  <1>2. p \notin S /\ None \notin S
    <2>1. p \notin S
      BY RootLeaves DEF Tidy, Forested
    <2>2. None \notin DOMAIN c
      BY OwnershipAssumption DEF Tidy
    <2> QED BY <1>1, <2>1, <2>2
  <1>3. \A v \in DOMAIN c : IsRow(c[v]) /\ c[v].object = h /\ c[v].pos \in Nat
    BY DEF Tidy, Rows, Forested
  <1>4. HostPlaces(c, u, e, H, S) /\ MovedPlaces(c, u, M, S)
    BY HostStands, MovedStand
  <1>5. /\ DOMAIN H = (DOMAIN c \ S) \cup {e} /\ DOMAIN M = S
        /\ H[e].object = h /\ H[e].parent = p
        /\ \A v \in DOMAIN c \ S :
              /\ IsRow(H[v]) /\ H[v].object = h /\ H[v].parent = c[v].parent
              /\ H[v].shows = c[v].shows /\ H[v].cites = c[v].cites
              /\ c[v].parent # p => H[v] = c[v]
        /\ \A v \in S : /\ IsRow(M[v]) /\ M[v].shows = c[v].shows /\ M[v].cites = c[v].cites
                        /\ M[v].parent = IF v = u THEN None ELSE c[v].parent
                        /\ v # u => M[v].pos = c[v].pos
    <2>1. Rows(c)
      BY DEF Tidy
    <2>2. HostShape(c, u, n, e)
      BY <2>1, HostRows
    <2>3. /\ DOMAIN H = (DOMAIN c \ S) \cup {e}
          /\ H[e].object = h
          /\ \A v \in DOMAIN c \ S : /\ IsRow(H[v]) /\ H[v].object = h
                                     /\ H[v].shows = c[v].shows /\ H[v].cites = c[v].cites
      BY <1>1, <1>3, <2>2 DEF HostShape
    <2>4. DOMAIN M = S
      BY <1>4 DEF MovedPlaces
    <2>5. \A v \in S : IsRow(M[v]) /\ M[v].shows = c[v].shows /\ M[v].cites = c[v].cites
      BY <2>1, <2>4, MovedRows
    <2>6. /\ H[e].parent = p
          /\ \A v \in DOMAIN c \ S : /\ H[v].parent = c[v].parent
                                     /\ c[v].parent # p => H[v] = c[v]
      BY <1>4 DEF HostPlaces
    <2>7. \A v \in S : /\ M[v].parent = IF v = u THEN None ELSE c[v].parent
                       /\ v # u => M[v].pos = c[v].pos
      BY <1>4 DEF MovedPlaces
    <2> QED BY <2>3, <2>4, <2>5, <2>6, <2>7
  <1> DEFINE K == Tree!Kids(c, p)
             family == Tree!Kids(H, H[e].parent) \ {e}
             roots == Tree!Kids(M, None)
             before(v) ==
                IF v \in roots
                THEN {w \in family : H[w].pos < H[e].pos} \cup {w \in roots : M[w].pos < M[v].pos}
                ELSE {w \in family : H[w].pos < H[v].pos}
                        \cup (IF H[v].pos > H[e].pos THEN roots ELSE {})
             ahead(v) == {w \in K : c[w].pos < c[v].pos}
  <1>6. K \cap S = {u} /\ K \subseteq DOMAIN c /\ \A v \in DOMAIN c : v \in K <=> c[v].parent = p
    BY <1>1, <1>2 DEF Tree!Kids
  <1>7. family = K \ {u}
    <2>1. family = {w \in DOMAIN c \ S : c[w].parent = p}
      BY <1>5 DEF Tree!Kids
    <2> QED BY <1>1, <1>6, <2>1
  <1>8. roots = {u}
    BY <1>1, <1>2, <1>5 DEF Tree!Kids
  <1>9. \A v \in family : v \in DOMAIN c \ S /\ c[v].parent = p /\ v # e /\ v # u
    BY <1>1, <1>6, <1>7
  <1> DEFINE row(v) ==
                CASE v \in roots -> [M[v] EXCEPT !.object = H[e].object, !.parent = H[e].parent,
                                                 !.pos = Cardinality(before(v))]
                  [] v \in DOMAIN M \ roots -> [M[v] EXCEPT !.object = H[e].object]
                  [] v \in family -> [H[v] EXCEPT !.pos = Cardinality(before(v))]
                  [] OTHER -> H[v]
  <1>10. F = [v \in DOMAIN c |-> row(v)]
    <2>1. DOMAIN H = (DOMAIN c \ S) \cup {e} /\ DOMAIN M = S
      BY <1>5
    <2>2. (DOMAIN H \ {e}) \cup DOMAIN M = DOMAIN c
      BY <1>1, <2>1
    <2>3. F = [v \in (DOMAIN H \ {e}) \cup DOMAIN M |-> row(v)]
      BY DEF Folded
    <2> HIDE DEF row
    <2> QED BY <2>2, <2>3
  <1>11. /\ F = [v \in DOMAIN c |-> F[v]] /\ G = [v \in DOMAIN c |-> G[v]]
         /\ \A v \in DOMAIN c : F[v] = row(v)
    <2> HIDE DEF row
    <2>1. F = [v \in DOMAIN c |-> F[v]] /\ \A v \in DOMAIN c : F[v] = row(v)
      BY <1>10
    <2>2. G = [v \in DOMAIN c |-> G[v]]
      BY DEF Tree!Numbered
    <2> QED BY <2>1, <2>2
  <1>12. \A v \in DOMAIN c :
            G[v] = IF v \in K THEN [c[v] EXCEPT !.pos = Cardinality(ahead(v))] ELSE c[v]
    BY DEF Tree!Numbered, Cardinality, Tree!Cardinality
  <1>13. ASSUME NEW v \in K
         PROVE  before(v) = ahead(v)
    <2>1. \A w \in family : /\ H[w].pos < H[e].pos <=> c[w].pos < c[u].pos
                            /\ H[w].pos > H[e].pos <=> c[w].pos > c[u].pos
      <3>1. \A w \in DOMAIN c \ S : c[w].parent = c[u].parent =>
                /\ H[w].pos < H[e].pos <=> c[w].pos < c[u].pos
                /\ H[e].pos < H[w].pos <=> c[u].pos < c[w].pos
        BY <1>4 DEF HostPlaces
      <3> HIDE DEF family
      <3>2. ASSUME NEW w \in family
            PROVE  /\ H[w].pos < H[e].pos <=> c[w].pos < c[u].pos
                   /\ H[w].pos > H[e].pos <=> c[w].pos > c[u].pos
        <4>1. /\ H[w].pos < H[e].pos <=> c[w].pos < c[u].pos
              /\ H[e].pos < H[w].pos <=> c[u].pos < c[w].pos
          BY <1>9, <3>1
        <4>2. /\ H[w].pos > H[e].pos <=> H[e].pos < H[w].pos
              /\ c[w].pos > c[u].pos <=> c[u].pos < c[w].pos
          OBVIOUS
        <4> QED BY <4>1, <4>2
      <3> QED BY <3>2
    <2>2. \A w, x \in family : H[w].pos < H[x].pos <=> c[w].pos < c[x].pos
      <3>1. \A w, x \in DOMAIN c \ S : c[w].parent = c[u].parent /\ c[x].parent = c[u].parent =>
                (H[w].pos < H[x].pos <=> c[w].pos < c[x].pos)
        BY <1>4 DEF HostPlaces
      <3> HIDE DEF family
      <3> QED BY <1>9, <3>1
    <2>3. c[u].pos \in Nat /\ c[v].pos \in Nat
      BY <1>3, <1>6
    <2>4. K = family \cup {u} /\ u \notin family
      BY <1>6, <1>7
    <2>5. CASE v = u
      <3>1. {w \in roots : M[w].pos < M[v].pos} = {}
        <4>1. M[u].pos \in Nat
          BY <1>1, <1>4 DEF MovedPlaces
        <4>2. ~(M[u].pos < M[u].pos)
          BY <4>1
        <4> HIDE DEF roots
        <4> QED BY <1>8, <2>5, <4>2
      <3>2. before(v) = {w \in family : H[w].pos < H[e].pos} \cup {w \in roots : M[w].pos < M[v].pos}
        BY <1>8, <2>5
      <3>3. ~(c[u].pos < c[u].pos)
        BY <2>3
      <3> HIDE DEF before, family, roots, K
      <3> QED BY <2>1, <2>4, <2>5, <3>1, <3>2, <3>3
    <2>6. CASE v \in family
      <3>1. before(v) = {w \in family : H[w].pos < H[v].pos}
                            \cup (IF H[v].pos > H[e].pos THEN {u} ELSE {})
        BY <1>8, <2>4, <2>6
      <3>2. H[v].pos > H[e].pos <=> c[u].pos < c[v].pos
        <4>1. c[v].pos > c[u].pos <=> c[u].pos < c[v].pos
          OBVIOUS
        <4> HIDE DEF family
        <4> QED BY <2>1, <2>6, <4>1
      <3> HIDE DEF before, family, roots, K
      <3> QED BY <2>2, <2>4, <2>6, <3>1, <3>2
    <2> HIDE DEF before, family, roots, K
    <2> QED BY <2>4, <2>5, <2>6
  <1> HIDE DEF before, ahead, family, roots, K
  <1>14. ASSUME NEW v \in DOMAIN c
         PROVE  F[v] = G[v]
    <2> PICK i, unit, moved, left : /\ i = Cardinality(ahead(v)) /\ unit = c[v]
                                   /\ moved = M[v] /\ left = H[v]
      OBVIOUS
    <2>1. /\ unit = [object |-> h, parent |-> unit.parent, pos |-> unit.pos,
                    shows |-> unit.shows, cites |-> unit.cites]
      BY <1>3 DEF IsRow
    <2>2. G[v] = IF v \in K THEN [unit EXCEPT !.pos = i] ELSE unit
      BY <1>12
    <2>3. CASE v = u
      <3>1. v \in K /\ v \in roots /\ v \in S /\ before(v) = ahead(v) /\ unit.parent = p
            /\ v \notin family
        BY <1>1, <1>6, <1>8, <1>9, <1>13, <2>3
      <3>2. F[v] = [moved EXCEPT !.object = h, !.parent = p, !.pos = i]
        <4>1. H[e].object = h /\ H[e].parent = p /\ Cardinality(before(v)) = i
          BY <1>5, <3>1
        <4>2. row(v) = [M[v] EXCEPT !.object = H[e].object, !.parent = H[e].parent,
                                   !.pos = Cardinality(before(v))]
          BY <3>1
        <4> HIDE DEF row
        <4> QED BY <1>11, <4>1, <4>2
      <3>3. IsRow(moved) /\ moved.shows = unit.shows /\ moved.cites = unit.cites
        BY <1>5, <3>1
      <3>4. F[v] = [object |-> h, parent |-> p, pos |-> i, shows |-> unit.shows, cites |-> unit.cites]
        BY <3>2, <3>3 DEF IsRow
      <3>5. G[v] = [object |-> h, parent |-> p, pos |-> i, shows |-> unit.shows, cites |-> unit.cites]
        BY <2>1, <2>2, <3>1
      <3> QED BY <3>4, <3>5
    <2>4. CASE v \in S /\ v # u
      <3>1. v \notin K /\ v \notin roots /\ v \in DOMAIN M /\ v \notin family
        BY <1>5, <1>6, <1>8, <1>9, <2>4
      <3>2. F[v] = [moved EXCEPT !.object = h]
        BY <1>5, <1>11, <3>1
      <3>3. /\ IsRow(moved) /\ moved.shows = unit.shows /\ moved.cites = unit.cites
            /\ moved.parent = unit.parent /\ moved.pos = unit.pos
        BY <1>5, <2>4
      <3>4. F[v] = [object |-> h, parent |-> unit.parent, pos |-> unit.pos, shows |-> unit.shows,
                    cites |-> unit.cites]
        BY <3>2, <3>3 DEF IsRow
      <3> QED BY <2>1, <2>2, <3>1, <3>4
    <2>5. CASE v \in family
      <3>1. v \in K /\ v \notin roots /\ v \notin DOMAIN M /\ before(v) = ahead(v)
            /\ v \in DOMAIN c \ S
        BY <1>5, <1>7, <1>8, <1>9, <1>13, <2>5
      <3>2. F[v] = [left EXCEPT !.pos = i]
        BY <1>11, <2>5, <3>1
      <3>3. /\ IsRow(left) /\ left.object = h /\ left.parent = unit.parent
            /\ left.shows = unit.shows /\ left.cites = unit.cites
        BY <1>5, <3>1
      <3>4. F[v] = [object |-> h, parent |-> unit.parent, pos |-> i, shows |-> unit.shows,
                    cites |-> unit.cites]
        BY <3>2, <3>3 DEF IsRow
      <3>5. G[v] = [object |-> h, parent |-> unit.parent, pos |-> i, shows |-> unit.shows,
                    cites |-> unit.cites]
        BY <2>1, <2>2, <3>1
      <3> QED BY <3>4, <3>5
    <2>6. CASE v \notin S /\ v \notin family
      <3>1. v \notin K /\ v \notin roots /\ v \notin DOMAIN M
        BY <1>1, <1>5, <1>7, <1>8, <2>6
      <3>2. F[v] = left
        BY <1>11, <2>6, <3>1
      <3>3. left = unit
        BY <1>5, <1>6, <2>6, <3>1
      <3> QED BY <2>2, <3>1, <3>2, <3>3
    <2> QED BY <2>3, <2>4, <2>5, <2>6
  <1>15. F = G
    BY <1>11, <1>14
  <1> QED BY <1>15

(* Whatever was re-homed, from wherever in whatever tree, dissolving it puts    *)
(* every unit back under its parent, with what it shows and cites, and its      *)
(* family in the order it had: renumbered, as the only difference.              *)
THEOREM OwnershipRestoredByDissolve == Spec => []RestoredByDissolve
  <1>1. SInv => RestoredByDissolve
    <2> SUFFICES ASSUME SInv, NEW u \in DOMAIN db.unit, NEW host, host = Content(db.unit[u].object)
                 PROVE  Folded(HostWithout(host, u, MaxObject + 1, MaxUnit + 1), MaxUnit + 1,
                               Moved(host, u, MaxObject + 1))
                            = Tree!Numbered(host, Tree!Kids(host, host[u].parent))
      BY DEF RestoredByDissolve
    <2>1. Tidy(host, db.unit[u].object) /\ u \in DOMAIN host
          /\ \A v \in DOMAIN host : v \in DOMAIN db.unit
      BY ContentTidy DEF SInv, MInv, Constraints, Sound
    <2>2. MaxUnit + 1 \notin DOMAIN host
      BY <2>1, InBounds, OwnershipAssumption DEF SInv, Unit
    <2> QED BY <2>1, <2>2, FoldUndoes
  <1> QED BY <1>1, InitSound, StepSound, PTL DEF Spec

--------------------------------------------------------------------------------
(* OneHome.                                                                     *)

(* The conjunction of what OneHome states is inductive.                         *)
Housed == Home!TypeOK /\ Home!CitationsResolve /\ Home!NeverOrphaned

LEMMA WriteHouses ==
    ASSUME Housed, Home!Write
    PROVE  Housed'
  <1>1. PICK o \in Live :
            /\ DOMAIN Page' \subseteq Unit
            /\ Page' \in [DOMAIN Page' -> Home!Entry]
            /\ \A u \in DOMAIN Page :
                  Page[u].home # o \/ Page[u].shows \in Object =>
                      u \in DOMAIN Page' /\ Page'[u] = Page[u]
            /\ \A u \in DOMAIN Page' : u \notin DOMAIN Page \/ Page'[u] # Page[u] =>
                  Page'[u].home = o /\ Page'[u].shows = None
            /\ \A edge \in Cited' : edge[1] \in DOMAIN Page' /\ edge[2] \in DOMAIN Page'
            /\ UNCHANGED <<Live, db.captured>>
    BY DEF Home!Write
  <1>2. Home!TypeOK'
    BY <1>1 DEF Housed, Home!TypeOK
  <1>3. Home!CitationsResolve'
    BY <1>1 DEF Home!CitationsResolve
  <1>4. Home!NeverOrphaned'
    BY <1>1 DEF Housed, Home!TypeOK, Home!NeverOrphaned
  <1> QED BY <1>2, <1>3, <1>4 DEF Housed

LEMMA CaptureHouses ==
    ASSUME Housed, Home!Capture
    PROVE  Housed'
  <1> DEFINE Taken(h, n, e, something, S) ==
                /\ S # {}
                /\ Page' = [u \in DOMAIN Page \cup {e} |->
                                IF u = e THEN [home |-> h, says |-> something, shows |-> n]
                                ELSE IF u \in S THEN [Page[u] EXCEPT !.home = n]
                                ELSE Page[u]]
                /\ Live' = Live \cup {n}
                /\ db.captured' = db.captured \cup {n}
                /\ UNCHANGED Cited
  <1>0. \E h \in Live, n \in Object \ Live, e \in Unit \ DOMAIN Page, something \in (Atom \cup {None}) :
            \E S \in SUBSET Home!Of(h) : Taken(h, n, e, something, S)
    BY Zenon DEF Home!Capture
  <1> HIDE DEF Taken
  <1>1. PICK h \in Live, n \in Object \ Live, e \in Unit \ DOMAIN Page, something \in (Atom \cup {None}) :
            \E S \in SUBSET Home!Of(h) : Taken(h, n, e, something, S)
    BY <1>0
  <1>2. PICK S \in SUBSET Home!Of(h) : Taken(h, n, e, something, S)
    BY <1>1
  <1> USE <1>2 DEF Taken
  <1>3. \A u \in DOMAIN Page : Page[u] \in Home!Entry /\ Page[u].home \in Live
    BY DEF Housed, Home!TypeOK
  <1>4. \A u \in DOMAIN Page : /\ Page'[u] \in Home!Entry
                               /\ Page'[u].home \in Live \cup {n}
                               /\ Page'[u].shows = Page[u].shows
    BY <1>1, <1>3 DEF Housed, Home!TypeOK, Home!Entry
  <1>5. Page'[e] \in Home!Entry /\ Page'[e].home \in Live /\ Page'[e].shows = n
    BY <1>1 DEF Housed, Home!TypeOK, Home!Entry
  <1>6. DOMAIN Page' = DOMAIN Page \cup {e}
    BY <1>1
  <1>7. Page' \in [DOMAIN Page' -> Home!Entry]
    BY <1>1, <1>4, <1>5
  <1>8. Home!TypeOK'
    BY <1>1, <1>4, <1>5, <1>6, <1>7 DEF Housed, Home!TypeOK
  <1>9. Home!CitationsResolve'
    BY <1>1, <1>6 DEF Housed, Home!CitationsResolve
  <1>10. Home!NeverOrphaned'
    BY <1>1, <1>4, <1>5, <1>6 DEF Housed, Home!NeverOrphaned
  <1> QED BY <1>8, <1>9, <1>10 DEF Housed

LEMMA FoldBackHouses ==
    ASSUME Housed, Home!FoldBack
    PROVE  Housed'
  <1>1. PICK e \in DOMAIN Page :
            /\ Page[e].shows \in Live \ {Page[e].home}
            /\ \A edge \in Cited : e \notin {edge[1], edge[2]}
            /\ Page' = [u \in DOMAIN Page \ {e} |->
                            IF u \in Home!Of(Page[e].shows) THEN [Page[u] EXCEPT !.home = Page[e].home]
                            ELSE Page[u]]
            /\ Live' = Live \ {Page[e].shows}
            /\ db.captured' = db.captured \ {Page[e].shows}
            /\ UNCHANGED Cited
    BY DEF Home!FoldBack
  <1>2. \A u \in DOMAIN Page : Page[u] \in Home!Entry /\ Page[u].home \in Live
    BY DEF Housed, Home!TypeOK
  <1>3. \A u \in DOMAIN Page \ {e} : /\ Page'[u] \in Home!Entry
                                     /\ Page'[u].home \in Live \ {Page[e].shows}
                                     /\ Page'[u].shows = Page[u].shows
    BY <1>1, <1>2 DEF Home!Entry, Home!Of
  <1>4. DOMAIN Page' = DOMAIN Page \ {e} /\ Page' \in [DOMAIN Page' -> Home!Entry]
    BY <1>1, <1>3
  <1>5. Home!TypeOK'
    BY <1>1, <1>3, <1>4 DEF Housed, Home!TypeOK
  <1>6. Home!CitationsResolve'
    BY <1>1, <1>4 DEF Housed, Home!CitationsResolve
  <1>7. Home!NeverOrphaned'
    BY <1>1, <1>3, <1>4 DEF Housed, Home!NeverOrphaned
  <1> QED BY <1>5, <1>6, <1>7 DEF Housed

LEMMA CopyHouses ==
    ASSUME Housed, Home!Copy
    PROVE  Housed'
  <1>1. PICK n \in Object \ Live, F \in SUBSET (Unit \ DOMAIN Page) :
            /\ DOMAIN Page' = DOMAIN Page \cup F
            /\ \A u \in F : Page'[u].home = n
            /\ \A u \in DOMAIN Page : Page'[u] = Page[u]
            /\ Page' \in [DOMAIN Page' -> Home!Entry]
            /\ Live' = Live \cup {n}
            /\ UNCHANGED <<db.captured, Cited>>
    BY DEF Home!Copy
  <1>2. Home!TypeOK'
    BY <1>1 DEF Housed, Home!TypeOK
  <1>3. Home!CitationsResolve'
    BY <1>1 DEF Housed, Home!CitationsResolve
  <1>4. Home!NeverOrphaned'
    BY <1>1 DEF Housed, Home!NeverOrphaned
  <1> QED BY <1>2, <1>3, <1>4 DEF Housed

(* Citations survive captures, copies and foldings back, and what was captured *)
(* stays shown (docs/adr/0002; rehome_subtree and dissolve_object).            *)
THEOREM HomesResolve == Home!Spec => [](Home!TypeOK /\ Home!CitationsResolve /\ Home!NeverOrphaned)
  <1>1. Home!Init => Housed
    BY DEF Home!Init, Housed, Home!TypeOK, Home!CitationsResolve, Home!NeverOrphaned
  <1>2. Housed /\ [Home!Next]_Home!vars => Housed'
    <2>1. ASSUME Housed, UNCHANGED Home!vars
          PROVE  Housed'
      BY <2>1 DEF Housed, Home!vars, Home!TypeOK, Home!CitationsResolve, Home!NeverOrphaned, Home!Entry
    <2> QED BY <2>1, WriteHouses, CaptureHouses, FoldBackHouses, CopyHouses DEF Home!Next
  <1>3. Housed => Home!TypeOK /\ Home!CitationsResolve /\ Home!NeverOrphaned
    BY DEF Housed
  <1> QED BY <1>1, <1>2, <1>3, PTL DEF Home!Spec
================================================================================
