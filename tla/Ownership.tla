-------------------------------- MODULE Ownership ------------------------------
(* Content that changes its owner (http/routes/graph.ts, db/graph.ts): a       *)
(* subtree is re-homed in an object of its own, the host shows it through an   *)
(* embed, and dissolve folds it back.  Units keep their ids, but every row     *)
(* that names a unit names its object too, so that links, handles and targets  *)
(* of braces must follow, under deferred constraints that are checked at       *)
(* COMMIT.  A handler reads what it needs first, in several queries; then its  *)
(* transaction locks object rows one after the other.                          *)
EXTENDS Integers, FiniteSets

CONSTANTS
    MaxUnit,        \* bound: units ever made
    MaxObject,      \* bound: objects ever made
    MaxSent,        \* bound: requests ever sent
    Request,        \* requests the server may be handling at the same time
    Days,           \* objects that are surfaces: never captured, copied, dissolved
    Start,          \* the units at the start
    Mentions,       \* pairs of units: in which a mention of which is typed
    Anchored,       \* units that are given a name or a brace
    Deleted,        \* units that are deleted
    None

Unit == 1..MaxUnit
Object == 1..MaxObject

Tree == INSTANCE TreeOps WITH
    Line <- {}, Type <- {}, NoType <- None, Top <- None, Place <- {}

(* A row of content_units: where it is, what an embed shows, a mention in it.  *)
IsRow(u) ==
    u = [object |-> u.object, parent |-> u.parent, pos |-> u.pos,
         shows |-> u.shows, cites |-> u.cites]

(* Parents are units of the same object, siblings have different positions.    *)
Placed(unit) ==
    /\ \A u \in DOMAIN unit : unit[u].parent # None =>
            /\ unit[u].parent \in DOMAIN unit
            /\ unit[unit[u].parent].object = unit[u].object
    /\ \A u, v \in DOMAIN unit :
            unit[u].object = unit[v].object /\ unit[u].parent = unit[v].parent
                /\ unit[u].pos = unit[v].pos => u = v

ASSUME OwnershipAssumption ==
    /\ None \notin Request \cup Int
    /\ MaxUnit \in Nat /\ MaxObject \in Nat
    /\ IsFiniteSet(Request)
    /\ IsFiniteSet(Days) /\ Days = 1..Cardinality(Days) /\ Cardinality(Days) <= MaxObject
    /\ IsFiniteSet(DOMAIN Start) /\ DOMAIN Start = 1..Cardinality(DOMAIN Start)
    /\ Cardinality(DOMAIN Start) <= MaxUnit
    /\ \A u \in DOMAIN Start :
            /\ IsRow(Start[u]) /\ Start[u].object \in Days /\ Start[u].pos \in Nat
            /\ Start[u].shows = None /\ Start[u].cites = None
    /\ Placed(Start) /\ Tree!Acyclic(Start)
    /\ Deleted \subseteq DOMAIN Start
    /\ \A pair \in Mentions : pair[1] \in DOMAIN Start

(* A reference atom carries the id of its link and what it pointed at when it  *)
(* was typed.                                                                  *)
Atom == [link : Unit, object : Object, unit : Unit]

VARIABLES
    db,         \* what is committed
    lock,       \* who holds which row of an object, and how
    req,        \* where the handlers are
    sent        \* how many requests were sent

vars == <<db, lock, req, sent>>

(* db is a record: rev, the revision of every object there is; unit, the rows  *)
(* of content_units by id; link, the links with from_content by id; derived,   *)
(* the links DerivedFrom as pairs <<copy, original>>; named and braced, the    *)
(* object the name, or the brace, of a unit is filed under; units and objects, *)
(* how many ids were given out; captured, what a re-homing made (for the       *)
(* properties).                                                                *)

Idle == [pc |-> "idle", op |-> "none", object |-> None, other |-> None, root |-> None,
         cite |-> None, host |-> << >>, folded |-> << >>, expected |-> 0,
         expectedOther |-> 0, reply |-> "none"]

(* A table with the rows of `f` written into `g`.                              *)
Over(f, g) ==
    [i \in DOMAIN f \cup DOMAIN g |-> IF i \in DOMAIN f THEN f[i] ELSE g[i]]

Live == DOMAIN db.rev
Content(o) == [u \in {v \in DOMAIN db.unit : db.unit[v].object = o} |-> db.unit[u]]

Init ==
    /\ \E S \in SUBSET (DOMAIN Start \cap Anchored) :
        /\ db = [rev |-> [o \in Days |-> 1], unit |-> Start, link |-> << >>, derived |-> {},
                 named |-> [u \in S |-> Start[u].object], braced |-> << >>,
                 units |-> Cardinality(DOMAIN Start), objects |-> Cardinality(Days),
                 captured |-> {}]
    /\ lock = {}
    /\ req = [r \in Request |-> Idle]
    /\ sent = 0

--------------------------------------------------------------------------------
(* The core: pure functions of contents.                                       *)

(* rehome_subtree: what moves, and the host with the embed `e` of `n` in its   *)
(* place.                                                                      *)
Moved(c, root, n) ==
    LET S == Tree!Subtree(c, root)
        out == [u \in S |-> [c[u] EXCEPT !.object = n,
                                         !.parent = IF u = root THEN None ELSE @]]
    IN  Tree!Numbered(out, {root})

HostWithout(c, root, n, e) ==
    LET S   == Tree!Subtree(c, root)
        out == [u \in (DOMAIN c \ S) \cup {e} |->
                    IF u = e THEN [c[root] EXCEPT !.shows = n, !.cites = None] ELSE c[u]]
    IN  Tree!Numbered(out, Tree!Kids(out, c[root].parent))

(* Mutant: the units of the dissolved object keep the positions they had in it. *)
FoldedUnplaced(c, e, d) ==
    [u \in (DOMAIN c \ {e}) \cup DOMAIN d |->
        IF u \in DOMAIN d
        THEN [d[u] EXCEPT !.object = c[e].object,
                          !.parent = IF @ = None THEN c[e].parent ELSE @]
        ELSE c[u]]

(* Mutant: embeds of the dissolved object are not folded back. *)
FoldedWords(c, e, d) ==
    LET words == {u \in DOMAIN d : d[u].shows = None}
        family == Tree!Kids(c, c[e].parent) \ {e}
        roots == Tree!Kids(d, None) \cap words
        before(v) ==
            IF v \in roots
            THEN {w \in family : c[w].pos < c[e].pos} \cup {w \in roots : d[w].pos < d[v].pos}
            ELSE {w \in family : c[w].pos < c[v].pos}
                    \cup (IF c[v].pos > c[e].pos THEN roots ELSE {})
    IN  [u \in (DOMAIN c \ {e}) \cup words |->
            CASE u \in roots -> [d[u] EXCEPT !.object = c[e].object, !.parent = c[e].parent,
                                             !.pos = Cardinality(before(u))]
              [] u \in family -> [c[u] EXCEPT !.pos = Cardinality(before(u))]
              [] u \in words \ roots -> [d[u] EXCEPT !.object = c[e].object]
              [] OTHER -> c[u]]

(* dissolve_object: the units of `d` take the place of the embed.              *)
Folded(c, e, d) ==
    LET family == Tree!Kids(c, c[e].parent) \ {e}
        roots  == Tree!Kids(d, None)
        before(v) ==
            IF v \in roots
            THEN {w \in family : c[w].pos < c[e].pos} \cup {w \in roots : d[w].pos < d[v].pos}
            ELSE {w \in family : c[w].pos < c[v].pos}
                    \cup (IF c[v].pos > c[e].pos THEN roots ELSE {})
    IN  [u \in (DOMAIN c \ {e}) \cup DOMAIN d |->
            CASE u \in roots -> [d[u] EXCEPT !.object = c[e].object, !.parent = c[e].parent,
                                             !.pos = Cardinality(before(u))]
              [] u \in DOMAIN d \ roots -> [d[u] EXCEPT !.object = c[e].object]
              [] u \in family -> [c[u] EXCEPT !.pos = Cardinality(before(u))]
              [] OTHER -> c[u]]

EmbedsOf(c, d) == {u \in DOMAIN c : c[u].shows = d}

(* Inbound edges, a citation or the origin of a copy.                          *)
Inbound(d) ==
    {<<db.link[l].from, d>> :
            l \in {k \in DOMAIN db.link : db.link[k].to = d /\ db.link[k].from # d}}
        \cup {edge \in db.derived : edge[2] = d}

--------------------------------------------------------------------------------
(* A request arrives, and the handler reads the content of its object.  One    *)
(* that expects another revision than it reads is answered 409, as             *)
(* ContentStore shows.                                                         *)
Due(q) ==
    CASE q.pc # "idle" /\ q.op = "rehome" -> {q.root}
      [] q.pc # "idle" /\ q.op = "copy" -> DOMAIN q.host
      [] OTHER -> {}

Making(q) == q.pc # "idle" /\ q.op \in {"rehome", "copy"}

Owed == {p \in Request \X Unit : p[2] \in Due(req[p[1]])}

Makers == {q \in Request : Making(req[q])}

(* The bounds: there are ids left for what the requests under way will make.   *)
Room ==
    /\ db.units + Cardinality(Owed) <= MaxUnit
    /\ db.objects + Cardinality(Makers) <= MaxObject

Receive(r, o, request) ==
    /\ req[r].pc = "idle"
    /\ sent < MaxSent
    /\ req' = [req EXCEPT ![r] = [request EXCEPT !.object = o, !.expected = db.rev[o],
                                                 !.host = Content(o)]]
    /\ sent' = sent + 1
    /\ UNCHANGED <<db, lock>>
    /\ Room'

ReceiveRehome(r) ==
    \E u \in DOMAIN db.unit :
        Receive(r, db.unit[u].object, [Idle EXCEPT !.pc = "ready", !.op = "rehome", !.root = u])

ReceiveDissolve(r) ==
    \E o \in Live, d \in Live \ Days :
        Receive(r, o, [Idle EXCEPT !.pc = "reading", !.op = "dissolve", !.other = d,
                                   !.expectedOther = db.rev[d]])

ReceiveCopy(r) ==
    \E o \in Live \ Days :
        Receive(r, o, [Idle EXCEPT !.pc = "ready", !.op = "copy"])

(* save_content of a paragraph as it stands in its object, and of one in which *)
(* a mention was typed.                                                        *)
ReceiveSave(r) ==
    \E u \in DOMAIN db.unit :
        /\ db.unit[u].cites # None
        /\ Receive(r, db.unit[u].object, [Idle EXCEPT !.pc = "ready", !.op = "save", !.root = u,
                                                      !.cite = db.unit[u].cites])

ReceiveCite(r) ==
    \E pair \in Mentions :
        LET u == pair[1]
            v == pair[2]
        IN  /\ {u, v} \subseteq DOMAIN db.unit
            /\ db.unit[u].cites = None
            /\ Receive(r, db.unit[u].object,
                    [Idle EXCEPT !.pc = "ready", !.op = "save", !.root = u,
                        !.cite = [link |-> u, object |-> db.unit[v].object, unit |-> v]])

ReceiveDelete(r) ==
    \E u \in DOMAIN db.unit \cap Deleted :
        /\ Tree!Kids(db.unit, u) = {}
        /\ Receive(r, db.unit[u].object,
                   [Idle EXCEPT !.pc = "ready", !.op = "delete", !.root = u])

(* reconcile_annotations: no revision is compared or raised.                   *)
Brace ==
    /\ db.braced = << >>
    /\ \E u \in DOMAIN db.unit \cap Anchored :
            db' = [db EXCEPT !.braced = [v \in {u} |-> db.unit[v].object]]
    /\ UNCHANGED <<lock, req, sent>>

--------------------------------------------------------------------------------
(* The reply, and the locks are given back, also after ROLLBACK.               *)
Answer(r, reply) ==
    /\ req' = [req EXCEPT ![r] = [Idle EXCEPT !.reply = reply]]
    /\ lock' = {l \in lock : l.by # r}
    /\ UNCHANGED sent

Refuse(r, reply) == Answer(r, reply) /\ UNCHANGED db

(* The content of the dissolved object, the embed of it in the host, and the   *)
(* links to it.                                                                *)
ReadDissolved(r) ==
    /\ req[r].pc = "reading"
    /\ IF req[r].other \in Live /\ EmbedsOf(req[r].host, req[r].other) # {}
       THEN /\ req' = [req EXCEPT ![r].pc = "read", ![r].folded = Content(req[r].other)]
            /\ UNCHANGED <<db, lock, sent>>
       ELSE Refuse(r, "notFound")

ReadInbound(r) ==
    /\ req[r].pc = "read"
    /\ IF Inbound(req[r].other) = {}
       THEN req' = [req EXCEPT ![r].pc = "ready"] /\ UNCHANGED <<db, lock, sent>>
       ELSE Refuse(r, "blocked")

(* Row locks: UPDATE and FOR UPDATE exclude one another, the lock a foreign    *)
(* key takes only FOR UPDATE.                                                  *)
Unlocked(r, o) == \A l \in lock : l.object = o => l.by = r

Locking(r) ==
    lock' = lock \cup {[object |-> req[r].object, by |-> r,
                        mode |-> IF req[r].op = "copy" THEN "forUpdate" ELSE "update"]}

LockDissolved(r) ==
    /\ req[r].pc = "ready"
    /\ req[r].op = "dissolve"
    /\ Unlocked(r, req[r].other)
    /\ lock' = IF req[r].other \in Live
               THEN lock \cup {[object |-> req[r].other, by |-> r, mode |-> "forUpdate"]}
               ELSE lock
    /\ req' = [req EXCEPT ![r].pc = "lockedOther"]
    /\ UNCHANGED <<db, sent>>

AtGate(r) ==
    IF req[r].op = "dissolve" THEN req[r].pc = "lockedOther" ELSE req[r].pc = "ready"

Current(o, expected) == o \in Live /\ db.rev[o] = expected

(* Mutant: on a revision that is not the expected one it tries again. *)
GateAgain(r) ==
    /\ AtGate(r)
    /\ Unlocked(r, req[r].object)
    /\ Current(req[r].object, req[r].expected)
    /\ Locking(r)
    /\ req' = [req EXCEPT ![r].pc = "locked"]
    /\ UNCHANGED <<db, sent>>

Gate(r) ==
    /\ AtGate(r)
    /\ Unlocked(r, req[r].object)
    /\ IF Current(req[r].object, req[r].expected)
       THEN /\ Locking(r)
            /\ req' = [req EXCEPT ![r].pc = "locked"]
            /\ UNCHANGED <<db, sent>>
       ELSE Refuse(r, "conflict")

--------------------------------------------------------------------------------
(* What the constraints ask of what a transaction wrote.                       *)
Satisfied(new) ==
    LET at(u, o) == u \in DOMAIN new.unit /\ new.unit[u].object = o IN
    /\ \A u \in DOMAIN new.unit : new.unit[u].object \in DOMAIN new.rev
    /\ Placed(new.unit)
    /\ \A l \in DOMAIN new.link :
          /\ at(new.link[l].fromUnit, new.link[l].from)
          /\ new.link[l].to # None => at(new.link[l].toUnit, new.link[l].to)
    /\ \A edge \in new.derived : {edge[1], edge[2]} \subseteq DOMAIN new.rev
    /\ \A u \in DOMAIN new.named : at(u, new.named[u])
    /\ \A u \in DOMAIN new.braced : at(u, new.braced[u])

(* A save answers 422 when a constraint fails, the other operations 500.       *)
Commit(r, written) ==
    \E new \in {written} :
        IF Satisfied(new)
        THEN db' = new /\ Answer(r, "ok")
        ELSE Refuse(r, IF req[r].op \in {"save", "delete"} THEN "refused" ELSE "failed")

Committing(r, op) == req[r].pc = "locked" /\ req[r].op = op

(* replaceContentUnits: all units of these objects are deleted, the layers     *)
(* inserted.  An id that is still in another object violates the primary key.  *)
Replaced(layers, objects) ==
    [u \in DOMAIN layers \cup {v \in DOMAIN db.unit : db.unit[v].object \notin objects} |->
        IF u \in DOMAIN layers THEN layers[u] ELSE db.unit[u]]

Collides(layers, objects) ==
    \E u \in DOMAIN layers \cap DOMAIN db.unit : db.unit[u].object \notin objects

(* Mutant: links into the moved units keep the host as their object. *)
FollowedFrom(S, from, n) ==
    [l \in DOMAIN db.link |->
        [db.link[l] EXCEPT !.from = IF db.link[l].fromUnit \in S /\ @ = from THEN n ELSE @]]

(* Both ends of the links follow the units that move.                          *)
Followed(S, from, n) ==
    [l \in DOMAIN db.link |->
        [db.link[l] EXCEPT !.from = IF db.link[l].fromUnit \in S /\ @ = from THEN n ELSE @,
                           !.to   = IF db.link[l].toUnit \in S /\ @ = from THEN n ELSE @]]

(* persistRehome                                                               *)
Rehome(r) ==
    /\ Committing(r, "rehome")
    /\ LET h == req[r].object
           n == db.objects + 1
           e == db.units + 1
       IN  \E S \in {Tree!Subtree(req[r].host, req[r].root)},
              layers \in {Over(HostWithout(req[r].host, req[r].root, n, e),
                               Moved(req[r].host, req[r].root, n))} :
           IF Collides(layers, {h}) THEN Refuse(r, "failed")
           ELSE Commit(r,
                [db EXCEPT !.rev = Over([@ EXCEPT ![h] = req[r].expected + 1], [o \in {n} |-> 1]),
                           !.unit = Replaced(layers, {h}),
                           !.link = Followed(S, h, n),
                           !.named = [u \in DOMAIN @ |-> IF u \in S /\ @[u] = h THEN n ELSE @[u]],
                           !.units = e, !.objects = n, !.captured = @ \cup {n}])

(* Mutant: only asks whether the object is still there. *)
DissolvedThere(r) == req[r].other \in Live

(* persistDissolve: the second gate; the inbound edges once more; the units    *)
(* and the object's own edges go to the host; the object is destroyed.         *)
DissolvedCurrent(r) == Current(req[r].other, req[r].expectedOther)

Inherited(h, d) ==
    [l \in DOMAIN db.link |->
        IF db.link[l].from = d
        THEN [db.link[l] EXCEPT !.from = h, !.to = IF @ = d THEN h ELSE @]
        ELSE db.link[l]]

Dissolved(h, d, revision, layers) ==
    [db EXCEPT !.rev = [o \in DOMAIN @ \ {d} |-> IF o = h THEN revision ELSE @[o]],
               !.unit = Replaced(layers, {h, d}),
               !.link = Inherited(h, d),
               !.named = [u \in DOMAIN @ |-> IF @[u] = d THEN h ELSE @[u]],
               !.captured = @ \ {d}]

Dissolve(r) ==
    /\ Committing(r, "dissolve")
    /\ LET h == req[r].object
           d == req[r].other
       IN  \E e \in EmbedsOf(req[r].host, d) : \E layers \in {Folded(req[r].host, e, req[r].folded)} :
           IF ~DissolvedCurrent(r) THEN Refuse(r, "conflict")
           ELSE IF Inbound(d) # {} THEN Refuse(r, "blocked")
           ELSE IF Collides(layers, {h, d}) THEN Refuse(r, "failed")
           ELSE Commit(r, Dissolved(h, d, req[r].expected + 1, layers))

(* materialize_object: new ids for the units, the reference atoms as they are. *)
Copied(c, n, last) ==
    LET new(u) == last + Cardinality({v \in DOMAIN c : v <= u})
        original(i) == CHOOSE u \in DOMAIN c : new(u) = i
    IN  [i \in {new(u) : u \in DOMAIN c} |->
            [c[original(i)] EXCEPT !.object = n, !.parent = IF @ = None THEN None ELSE new(@)]]

Copy(r) ==
    /\ Committing(r, "copy")
    /\ LET n == db.objects + 1
       IN  Commit(r, [db EXCEPT !.rev = Over(@, [k \in {n} |-> 1]),
                                !.unit = Over(@, Copied(req[r].host, n, db.units)),
                                !.derived = @ \cup {<<n, req[r].object>>},
                                !.units = @ + Cardinality(DOMAIN req[r].host), !.objects = n])

(* A foreign key waits for who has the row FOR UPDATE.                         *)
Held(r, o) == \E l \in lock : l.object = o /\ l.by # r /\ l.mode = "forUpdate"

(* The core leaves a mention unresolved only if what it names was deleted from *)
(* the object itself; links_upserted does not touch source_object_id.          *)
Save(r) ==
    /\ Committing(r, "save")
    /\ ~Held(r, req[r].cite.object)
    /\ LET o == req[r].object
           cite == req[r].cite
           gone == cite.object = o /\ cite.unit \notin DOMAIN req[r].host
           row == [from |-> IF cite.link \in DOMAIN db.link THEN db.link[cite.link].from ELSE o,
                   fromUnit |-> req[r].root,
                   to |-> IF gone THEN None ELSE cite.object,
                   toUnit |-> IF gone THEN None ELSE cite.unit]
       IN  Commit(r, [db EXCEPT !.rev[o] = req[r].expected + 1,
                                !.unit[req[r].root].cites = cite,
                                !.link = Over([l \in {cite.link} |-> row], @)])

(* A deleted paragraph takes its name, its braces and its links along.         *)
Delete(r) ==
    /\ Committing(r, "delete")
    /\ LET u == req[r].root
           o == req[r].object
       IN  Commit(r, [db EXCEPT !.rev[o] = req[r].expected + 1,
                                !.unit = [v \in DOMAIN @ \ {u} |-> @[v]],
                                !.link = [l \in {k \in DOMAIN @ : u \notin {@[k].fromUnit, @[k].toUnit}}
                                            |-> @[l]],
                                !.named = [v \in DOMAIN @ \ {u} |-> @[v]],
                                !.braced = [v \in DOMAIN @ \ {u} |-> @[v]]])

--------------------------------------------------------------------------------
(* Postgres aborts one of those who wait for one another.                      *)
WaitsFor(r, s) ==
    \E l \in lock :
        /\ l.by = s
        /\ \/ AtGate(r) /\ l.object = req[r].object
           \/ req[r].pc = "ready" /\ req[r].op = "dissolve" /\ l.object = req[r].other
           \/ Committing(r, "save") /\ l.object = req[r].cite.object /\ l.mode = "forUpdate"

Deadlocked(r) ==
    \E S \in SUBSET Request :
        /\ r \in S
        /\ \A q \in S : \E s \in S \ {q} : WaitsFor(q, s)

Victim(r) == Deadlocked(r) /\ Refuse(r, "deadlock")

Handle(r) ==
    \/ ReadDissolved(r) \/ ReadInbound(r) \/ LockDissolved(r) \/ Gate(r)
    \/ Rehome(r) \/ Dissolve(r) \/ Copy(r) \/ Save(r) \/ Delete(r)
    \/ Victim(r)

Arrive(r) ==
    \/ ReceiveRehome(r) \/ ReceiveDissolve(r) \/ ReceiveCopy(r)
    \/ ReceiveSave(r) \/ ReceiveCite(r) \/ ReceiveDelete(r)

Next == Brace \/ \E r \in Request : Arrive(r) \/ Handle(r)

Spec == Init /\ [][Next]_vars

(* Handlers go on, and Postgres looks for deadlocks.                           *)
FairSpec == Spec /\ \A r \in Request : WF_vars(Handle(r))

--------------------------------------------------------------------------------
(* PROPERTIES                                                                  *)

(* What OneHome sees of the tables.                                            *)
Page ==
    [u \in DOMAIN db.unit |->
        [home |-> db.unit[u].object, says |-> db.unit[u].cites, shows |-> db.unit[u].shows]]

Cited ==
    {<<db.link[l].fromUnit, db.link[l].toUnit>> : l \in {k \in DOMAIN db.link : db.link[k].to # None}}

Home == INSTANCE OneHome WITH
    Saying <- Atom \cup {None}, Nothing <- None,
    page <- Page, live <- Live, captured <- db.captured, cited <- Cited

(* Units, what they say and who cites them: every step of the tables is a      *)
(* capture, a folding back, a copy or a save of one object, and nothing of     *)
(* what another request saved in between is overwritten by a move that was     *)
(* computed before it.                                                         *)
ImplementsOneHome == Home!Spec

(* What was captured is shown by some embed until it is folded back: no theorem *)
(* can be there that no page leads to (rehome_subtree and dissolve_object).    *)
NeverOrphaned == Home!NeverOrphaned

(* A move fails, with a 500, only where something hangs on a unit that moves   *)
(* and does not follow it: a brace, or what was hung on the embed itself.  A   *)
(* citation that arrives late is a refusal (persistDissolve's second look),    *)
(* and a save meets a constraint only if its mention names a paragraph that is *)
(* no longer where the mention says, or carries the link of an original.       *)
Anchors == DOMAIN db.named \cup DOMAIN db.braced \cup {db.link[l].toUnit : l \in DOMAIN db.link}

StaleMention(q) ==
    \/ q.cite.unit \notin DOMAIN db.unit
    \/ db.unit[q.cite.unit].object # q.cite.object
    \/ q.cite.link \in DOMAIN db.link /\ db.link[q.cite.link].from # q.object

OnlyAnchorsFail ==
    [][\A r \in Request : req[r].pc = "locked" /\ req'[r].pc = "idle" =>
          /\ req'[r].reply = "failed" =>
                \/ /\ req[r].op = "rehome"
                   /\ Tree!Subtree(req[r].host, req[r].root) \cap DOMAIN db.braced # {}
                \/ /\ req[r].op = "dissolve"
                   /\ \/ DOMAIN req[r].folded \cap DOMAIN db.braced # {}
                      \/ EmbedsOf(req[r].host, req[r].other) \cap Anchors # {}
          /\ req'[r].reply = "refused" => req[r].op = "save" /\ StaleMention(req[r])
      ]_vars

(* Dissolving what was just re-homed gives the host back as it was, wherever   *)
(* the subtree stood and whatever it held (docs/adr/0002): only the gaps that  *)
(* deletions left among the positions of its family have gone.                 *)
RestoredByDissolve ==
    \A u \in DOMAIN db.unit :
        LET host == Content(db.unit[u].object)
            n == MaxObject + 1
            e == MaxUnit + 1
        IN  Folded(HostWithout(host, u, n, e), e, Moved(host, u, n))
                = Tree!Numbered(host, Tree!Kids(host, host[u].parent))

(* Two who wait for each other's rows do not wait for ever: every request is   *)
(* answered.                                                                   *)
EveryOpAnswered == \A r \in Request : req[r].pc # "idle" ~> req[r].pc = "idle"
================================================================================
