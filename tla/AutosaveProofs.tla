----------------------------- MODULE AutosaveProofs ------------------------------
(* The autosave of any number of mounts on any number of devices, with every     *)
(* event of Event, any number of edits and of merge retries.                    *)
EXTENDS Autosave, MergeProofs

(* A list of units the users have written so far, n being the last id minted.   *)
UpTo(s, n) == IsList(s) /\ \A id \in Ids(s) : id <= n

RowsUpTo(rows, n) == AreRows(rows) /\ \A u \in rows : u.id <= n

(* Content c is what server s holds, or an earlier revision of it.              *)
Known(c, s, n) ==
    /\ c.revision \in Nat
    /\ c.revision <= s.revision
    /\ c.revision = s.revision => c.units = s.units
    /\ UpTo(c.units, n)

PutOf(p, n) == p.kind = "put" /\ RowsUpTo(p.delta.upserts, n)

Fields ==
    {"stage", "doc", "prior", "pc", "force", "conflict", "latch", "retries", "dirty",
     "drafter", "timer", "request", "reply", "touched", "loaded"}

Shaped(t) == t = [x \in Fields |-> t[x]]

Calls == {"saving", "fetching", "resaving"}

Unopened == {"unborn", "fetched", "loading"}

(* The status of an open mount: what is not marked dirty is the baseline, a      *)
(* conflict and a call of the controller are about something dirty, and no call  *)
(* but the one of "take theirs" is made in a conflict.                          *)
Marked(t) ==
    /\ ~t.dirty => t.doc = t.prior.units
    /\ t.conflict => t.dirty
    /\ t.pc \in Calls => t.dirty /\ ~t.conflict

Holds(t, s, n) ==
    /\ Shaped(t)
    /\ UpTo(t.doc, n)
    /\ Known(t.prior, s, n)
    /\ t.request # None => t.request.kind = "get" \/ PutOf(t.request, n)
    /\ t.reply # None /\ t.reply.status = "ok" => Known(t.reply.content, s, n)
    /\ t.loaded # None => UpTo(t.loaded.doc, n)
    /\ t.stage = "open" => Marked(t)
    /\ t.stage \in Unopened => t.pc = "idle" /\ ~t.conflict

ServerOk(s, n) == s.revision \in Nat \ {0} /\ UpTo(s.units, n)

DraftsOk(dr, n) ==
    /\ dr = [d \in Device |-> dr[d]]
    /\ \A d \in Device : dr[d] # None => UpTo(dr[d].doc, n)

BeaconsOk(ps, n) == \A p \in ps : PutOf(p, n)

MountsOk(mt, s, n) ==
    /\ mt = [m \in Mount |-> mt[m]]
    /\ \A m \in Mount : Holds(mt[m], s, n)

Inv ==
    /\ edits \in Nat
    /\ ServerOk(server, edits)
    /\ DraftsOk(draft, edits)
    /\ BeaconsOk(beacons, edits)
    /\ MountsOk(mount, server, edits)

--------------------------------------------------------------------------------
(* What was known stays known.                                                  *)

Grown(s, r) == r = s \/ (r.revision = s.revision + 1)

LEMMA UpToLater ==
    ASSUME NEW n \in Nat, NEW k \in Nat, n <= k
    PROVE  /\ \A s : UpTo(s, n) => UpTo(s, k)
           /\ \A R : RowsUpTo(R, n) => RowsUpTo(R, k)
           /\ \A p : PutOf(p, n) => PutOf(p, k)
  <1>1. ASSUME NEW s, UpTo(s, n)
        PROVE  UpTo(s, k)
    <2>1. IsList(s) /\ \A id \in Ids(s) : id <= n
      BY <1>1 DEF UpTo
    <2>2. \A id \in Ids(s) : id \in Int
      BY <2>1, Blocks
    <2> QED BY <2>1, <2>2 DEF UpTo
  <1>2. ASSUME NEW R, RowsUpTo(R, n)
        PROVE  RowsUpTo(R, k)
    BY <1>2 DEF RowsUpTo, AreRows, Row
  <1> QED BY <1>1, <1>2 DEF PutOf

LEMMA HoldsLater ==
    ASSUME NEW n \in Nat, NEW k \in Nat, n <= k, NEW s, NEW r,
           s.revision \in Nat, Grown(s, r), NEW t, Holds(t, s, n)
    PROVE  Holds(t, r, k)
  <1>1. \A c : Known(c, s, n) => Known(c, r, k)
    BY UpToLater DEF Known, Grown
  <1> QED BY <1>1, UpToLater DEF Holds

LEMMA MountsLater ==
    ASSUME NEW n \in Nat, NEW k \in Nat, n <= k, NEW s, NEW r,
           s.revision \in Nat, Grown(s, r), NEW mt, MountsOk(mt, s, n)
    PROVE  MountsOk(mt, r, k)
  BY HoldsLater DEF MountsOk

LEMMA OneMount ==
    ASSUME NEW mt, NEW s, NEW n, MountsOk(mt, s, n), NEW m \in Mount, NEW t, Holds(t, s, n)
    PROVE  MountsOk([mt EXCEPT ![m] = t], s, n)
  BY DEF MountsOk

LEMMA OneDraft ==
    ASSUME NEW dr, NEW n, DraftsOk(dr, n), NEW m \in Mount, NEW v,
           v # None => UpTo(v.doc, n)
    PROVE  DraftsOk([dr EXCEPT ![DeviceOf[m]] = v], n)
  BY AutosaveAssumption DEF DraftsOk

LEMMA DraftsLater ==
    ASSUME NEW n \in Nat, NEW k \in Nat, n <= k, NEW dr, DraftsOk(dr, n)
    PROVE  DraftsOk(dr, k)
  BY UpToLater DEF DraftsOk

(* A step of one mount that leaves the server and the count of edits alone.      *)
LEMMA MountStep ==
    ASSUME Inv, NEW m \in Mount, NEW t, Become(m, t), Holds(t, server, edits),
           DraftsOk(draft', edits), BeaconsOk(beacons', edits), UNCHANGED <<server, edits>>
    PROVE  Inv'
  <1>1. MountsOk(mount', server, edits)
    BY OneMount DEF Inv, Become
  <1> QED BY <1>1 DEF Inv, ServerOk, DraftsOk, BeaconsOk, MountsOk, Holds, Known

LEMMA Drafted ==
    ASSUME Inv, NEW m \in Mount, NEW t, UpTo(t.doc, edits), PersistDraft(m, t)
    PROVE  DraftsOk(draft', edits)
  <1>1. Draft(t).doc = t.doc
    BY DEF Draft
  <1> QED BY <1>1, OneDraft DEF Inv, PersistDraft

LEMMA Cleared ==
    ASSUME Inv, NEW m \in Mount, ClearDraft(m)
    PROVE  DraftsOk(draft', edits)
  BY OneDraft DEF Inv, ClearDraft

--------------------------------------------------------------------------------
(* The pieces the controller's steps are made of.                               *)

LEMMA Differs ==
    ASSUME NEW t, NEW s, NEW n, Holds(t, s, n)
    PROVE  /\ MyDelta(t) = NoDelta => t.doc = t.prior.units
           /\ t.doc = t.prior.units => MyDelta(t) = NoDelta
           /\ RowsUpTo(MyDelta(t).upserts, n)
  <1>1. IsList(t.doc) /\ IsList(t.prior.units) /\ \A id \in Ids(t.doc) : id <= n
    BY DEF Holds, Known, UpTo
  <1>2. MyDelta(t) = NoDelta => t.doc = t.prior.units
    BY <1>1, NoDeltaSame DEF MyDelta
  <1>3. ASSUME t.doc = t.prior.units
        PROVE  MyDelta(t) = NoDelta
    <2>1. MyDelta(t).upserts = {} /\ MyDelta(t).deletes = {}
      BY <1>3 DEF MyDelta, DeltaBetween, SameIn
    <2> QED BY <2>1 DEF MyDelta, DeltaBetween, NoDelta
  <1>4. RowsUpTo(MyDelta(t).upserts, n)
    <2>1. /\ AreRows(MyDelta(t).upserts)
          /\ IdsOf(MyDelta(t).upserts) \subseteq Ids(t.doc)
      BY <1>1, DeltaFacts DEF MyDelta
    <2>2. \A u \in MyDelta(t).upserts : u.id \in Ids(t.doc)
      BY <2>1 DEF IdsOf
    <2> QED BY <1>1, <2>1, <2>2 DEF RowsUpTo
  <1> QED BY <1>2, <1>3, <1>4

LEMMA IdleHolds ==
    ASSUME NEW t, NEW s, NEW n, Holds(t, s, n)
    PROVE  /\ Holds(Idle(t), s, n)
           /\ Holds([Idle(t) EXCEPT !.dirty = TRUE], s, n)
           /\ MyDelta(t) = NoDelta /\ (t.stage = "open" => ~t.conflict) =>
                Holds([Idle(t) EXCEPT !.latch = None, !.dirty = FALSE], s, n)
           /\ MyDelta(t) = NoDelta /\ t.pc = "idle" /\ ~t.conflict =>
                Holds([t EXCEPT !.latch = None, !.dirty = FALSE], s, n)
           /\ t.stage \notin Unopened /\ (t.stage = "open" => t.dirty) =>
                Holds([Idle(t) EXCEPT !.conflict = TRUE, !.timer = FALSE], s, n)
           /\ Holds([Idle(t) EXCEPT !.retries = 0, !.latch = t.doc], s, n)
  <1>1. Shaped(t)
    BY DEF Holds
  <1>2. ASSUME NEW u, u = Idle(t)
        PROVE  /\ Shaped(u) /\ u.stage = t.stage /\ u.doc = t.doc /\ u.prior = t.prior
               /\ u.request = None /\ u.reply = None /\ u.loaded = t.loaded
               /\ u.pc = "idle" /\ u.dirty = t.dirty /\ u.conflict = t.conflict
    BY <1>1, <1>2 DEF Shaped, Fields, Idle, Taken
  <1>3. Holds(Idle(t), s, n)
    <2>1. PICK u : u = Idle(t)
      OBVIOUS
    <2>2. Holds(u, s, n)
      BY <1>2, <2>1 DEF Holds, Marked, Calls, Unopened
    <2> QED BY <2>1, <2>2
  <1>4. Holds([Idle(t) EXCEPT !.dirty = TRUE], s, n)
    <2>1. PICK u : u = [Idle(t) EXCEPT !.dirty = TRUE]
      OBVIOUS
    <2>2. /\ Shaped(u) /\ u.stage = t.stage /\ u.doc = t.doc /\ u.prior = t.prior
          /\ u.request = None /\ u.reply = None /\ u.loaded = t.loaded
          /\ u.pc = "idle" /\ u.dirty = TRUE /\ u.conflict = t.conflict
      BY <1>1, <2>1 DEF Shaped, Fields, Idle, Taken
    <2>3. Holds(u, s, n)
      BY <2>2 DEF Holds, Marked, Calls, Unopened
    <2> QED BY <2>1, <2>3
  <1>5. ASSUME MyDelta(t) = NoDelta, t.stage = "open" => ~t.conflict
        PROVE  Holds([Idle(t) EXCEPT !.latch = None, !.dirty = FALSE], s, n)
    <2>1. PICK u : u = [Idle(t) EXCEPT !.latch = None, !.dirty = FALSE]
      OBVIOUS
    <2>2. /\ Shaped(u) /\ u.stage = t.stage /\ u.doc = t.doc /\ u.prior = t.prior
          /\ u.request = None /\ u.reply = None /\ u.loaded = t.loaded
          /\ u.pc = "idle" /\ u.dirty = FALSE /\ u.conflict = t.conflict
      BY <1>1, <2>1 DEF Shaped, Fields, Idle, Taken
    <2>3. t.doc = t.prior.units
      BY <1>5, Differs
    <2>4. Holds(u, s, n)
      BY <1>5, <2>2, <2>3 DEF Holds, Marked, Calls, Unopened
    <2> QED BY <2>1, <2>4
  <1>6. ASSUME MyDelta(t) = NoDelta, t.pc = "idle", ~t.conflict
        PROVE  Holds([t EXCEPT !.latch = None, !.dirty = FALSE], s, n)
    <2>1. PICK u : u = [t EXCEPT !.latch = None, !.dirty = FALSE]
      OBVIOUS
    <2>2. /\ Shaped(u) /\ u.stage = t.stage /\ u.doc = t.doc /\ u.prior = t.prior
          /\ u.request = t.request /\ u.reply = t.reply /\ u.loaded = t.loaded
          /\ u.pc = t.pc /\ u.dirty = FALSE /\ u.conflict = t.conflict
      BY <1>1, <2>1 DEF Shaped, Fields
    <2>3. t.doc = t.prior.units
      BY <1>6, Differs
    <2>4. Holds(u, s, n)
      BY <1>6, <2>2, <2>3 DEF Holds, Marked, Calls, Unopened
    <2> QED BY <2>1, <2>4
  <1>7. ASSUME t.stage \notin Unopened, t.stage = "open" => t.dirty
        PROVE  Holds([Idle(t) EXCEPT !.conflict = TRUE, !.timer = FALSE], s, n)
    <2>1. PICK u : u = [Idle(t) EXCEPT !.conflict = TRUE, !.timer = FALSE]
      OBVIOUS
    <2>2. /\ Shaped(u) /\ u.stage = t.stage /\ u.doc = t.doc /\ u.prior = t.prior
          /\ u.request = None /\ u.reply = None /\ u.loaded = t.loaded
          /\ u.pc = "idle" /\ u.dirty = t.dirty
      BY <1>1, <2>1 DEF Shaped, Fields, Idle, Taken
    <2>3. Holds(u, s, n)
      BY <1>7, <2>2 DEF Holds, Marked, Calls, Unopened
    <2> QED BY <2>1, <2>3
  <1>8. Holds([Idle(t) EXCEPT !.retries = 0, !.latch = t.doc], s, n)
    <2>1. PICK u : u = [Idle(t) EXCEPT !.retries = 0, !.latch = t.doc]
      OBVIOUS
    <2>2. /\ Shaped(u) /\ u.stage = t.stage /\ u.doc = t.doc /\ u.prior = t.prior
          /\ u.request = None /\ u.reply = None /\ u.loaded = t.loaded
          /\ u.pc = "idle" /\ u.dirty = t.dirty /\ u.conflict = t.conflict
      BY <1>1, <2>1 DEF Shaped, Fields, Idle, Taken
    <2>3. Holds(u, s, n)
      BY <2>2 DEF Holds, Marked, Calls, Unopened
    <2> QED BY <2>1, <2>3
  <1> QED BY <1>3, <1>4, <1>5, <1>6, <1>7, <1>8

LEMMA CallHolds ==
    ASSUME NEW t, NEW s, NEW n, Holds(t, s, n), t.stage \notin Unopened
    PROVE  /\ (t.stage = "open" => t.dirty /\ ~t.conflict) =>
                /\ Holds(Put([t EXCEPT !.latch = None, !.pc = "saving"], MyDelta(t)), s, n)
                /\ Holds(Put([t EXCEPT !.pc = "resaving"], MyDelta(t)), s, n)
                /\ Holds(Get([t EXCEPT !.pc = "fetching"]), s, n)
           /\ Holds(Get([t EXCEPT !.pc = "taking"]), s, n)
  <1>1. Shaped(t)
    BY DEF Holds
  <1> PICK delta : delta = MyDelta(t)
    OBVIOUS
  <1>2. RowsUpTo(delta.upserts, n)
    BY Differs
  <1>3. ASSUME NEW put, put = [kind |-> "put", expected |-> t.prior.revision, delta |-> delta]
        PROVE  PutOf(put, n)
    BY <1>2, <1>3 DEF PutOf
  <1>4. ASSUME t.stage = "open" => t.dirty /\ ~t.conflict
        PROVE  Holds(Put([t EXCEPT !.latch = None, !.pc = "saving"], delta), s, n)
    <2>1. PICK u : u = Put([t EXCEPT !.latch = None, !.pc = "saving"], delta)
      OBVIOUS
    <2>2. /\ Shaped(u) /\ u.stage = t.stage /\ u.doc = t.doc /\ u.prior = t.prior
          /\ u.request = [kind |-> "put", expected |-> t.prior.revision, delta |-> delta]
          /\ u.reply = None /\ u.loaded = t.loaded
          /\ u.pc = "saving" /\ u.dirty = t.dirty /\ u.conflict = t.conflict
      BY <1>1, <2>1 DEF Shaped, Fields, Put
    <2>3. Holds(u, s, n)
      BY <1>3, <1>4, <2>2 DEF Holds, Marked, Calls, Unopened
    <2> QED BY <2>1, <2>3
  <1>5. ASSUME t.stage = "open" => t.dirty /\ ~t.conflict
        PROVE  Holds(Put([t EXCEPT !.pc = "resaving"], delta), s, n)
    <2>1. PICK u : u = Put([t EXCEPT !.pc = "resaving"], delta)
      OBVIOUS
    <2>2. /\ Shaped(u) /\ u.stage = t.stage /\ u.doc = t.doc /\ u.prior = t.prior
          /\ u.request = [kind |-> "put", expected |-> t.prior.revision, delta |-> delta]
          /\ u.reply = None /\ u.loaded = t.loaded
          /\ u.pc = "resaving" /\ u.dirty = t.dirty /\ u.conflict = t.conflict
      BY <1>1, <2>1 DEF Shaped, Fields, Put
    <2>3. Holds(u, s, n)
      BY <1>3, <1>5, <2>2 DEF Holds, Marked, Calls, Unopened
    <2> QED BY <2>1, <2>3
  <1>6. ASSUME t.stage = "open" => t.dirty /\ ~t.conflict
        PROVE  Holds(Get([t EXCEPT !.pc = "fetching"]), s, n)
    <2>1. PICK u : u = Get([t EXCEPT !.pc = "fetching"])
      OBVIOUS
    <2>2. /\ Shaped(u) /\ u.stage = t.stage /\ u.doc = t.doc /\ u.prior = t.prior
          /\ u.request = [kind |-> "get"] /\ u.reply = None /\ u.loaded = t.loaded
          /\ u.pc = "fetching" /\ u.dirty = t.dirty /\ u.conflict = t.conflict
      BY <1>1, <2>1 DEF Shaped, Fields, Get
    <2>3. Holds(u, s, n)
      BY <1>6, <2>2 DEF Holds, Marked, Calls, Unopened
    <2> QED BY <2>1, <2>3
  <1>7. Holds(Get([t EXCEPT !.pc = "taking"]), s, n)
    <2>1. PICK u : u = Get([t EXCEPT !.pc = "taking"])
      OBVIOUS
    <2>2. /\ Shaped(u) /\ u.stage = t.stage /\ u.doc = t.doc /\ u.prior = t.prior
          /\ u.request = [kind |-> "get"] /\ u.reply = None /\ u.loaded = t.loaded
          /\ u.pc = "taking" /\ u.dirty = t.dirty /\ u.conflict = t.conflict
      BY <1>1, <2>1 DEF Shaped, Fields, Get
    <2>3. Holds(u, s, n)
      BY <2>2 DEF Holds, Marked, Calls, Unopened
    <2> QED BY <2>1, <2>3
  <1> QED BY <1>4, <1>5, <1>6, <1>7

(* A new baseline, of a mount that waits for a reply.                           *)
Waits(u, t) ==
    /\ u.stage = t.stage /\ u.pc = t.pc /\ u.dirty = t.dirty /\ u.conflict = t.conflict
    /\ u.force = t.force

LEMMA BaselineHolds ==
    ASSUME NEW t, NEW s, NEW n, Holds(t, s, n), t.pc \in Calls,
           NEW c, Known(c, s, n), NEW p, UpTo(p, n)
    PROVE  /\ Holds([t EXCEPT !.prior = c], s, n)
           /\ Waits([t EXCEPT !.prior = c], t)
           /\ Holds([t EXCEPT !.prior = c, !.retries = 0], s, n)
           /\ Waits([t EXCEPT !.prior = c, !.retries = 0], t)
           /\ Holds([t EXCEPT !.prior = c, !.doc = p], s, n)
           /\ Waits([t EXCEPT !.prior = c, !.doc = p], t)
           /\ [t EXCEPT !.prior = c, !.doc = p].doc = p
  <1>1. Shaped(t)
    BY DEF Holds
  <1>2. ASSUME NEW u, u \in {[t EXCEPT !.prior = c], [t EXCEPT !.prior = c, !.retries = 0]}
        PROVE  Holds(u, s, n) /\ Waits(u, t)
    <2>1. /\ Shaped(u) /\ u.stage = t.stage /\ u.doc = t.doc /\ u.prior = c
          /\ u.request = t.request /\ u.reply = t.reply /\ u.loaded = t.loaded
          /\ u.pc = t.pc /\ u.dirty = t.dirty /\ u.conflict = t.conflict /\ u.force = t.force
      <3>1. CASE u = [t EXCEPT !.prior = c]
        BY <1>1, <3>1 DEF Shaped, Fields
      <3>2. CASE u = [t EXCEPT !.prior = c, !.retries = 0]
        BY <1>1, <3>2 DEF Shaped, Fields
      <3> QED BY <1>2, <3>1, <3>2
    <2> QED BY <2>1 DEF Holds, Marked, Waits
  <1>3. ASSUME NEW u, u = [t EXCEPT !.prior = c, !.doc = p]
        PROVE  Holds(u, s, n) /\ Waits(u, t) /\ u.doc = p
    <2>1. /\ Shaped(u) /\ u.stage = t.stage /\ u.doc = p /\ u.prior = c
          /\ u.request = t.request /\ u.reply = t.reply /\ u.loaded = t.loaded
          /\ u.pc = t.pc /\ u.dirty = t.dirty /\ u.conflict = t.conflict /\ u.force = t.force
      BY <1>1, <1>3 DEF Shaped, Fields
    <2> QED BY <2>1 DEF Holds, Marked, Waits
  <1> QED BY <1>2, <1>3

(* A field the invariant does not speak of.                                     *)
LEMMA AsideHolds ==
    ASSUME NEW t, NEW s, NEW n, Holds(t, s, n), NEW x
    PROVE  /\ Holds([t EXCEPT !.timer = x], s, n) /\ Waits([t EXCEPT !.timer = x], t)
           /\ Holds([t EXCEPT !.drafter = x], s, n)
           /\ Holds([t EXCEPT !.retries = x], s, n) /\ Waits([t EXCEPT !.retries = x], t)
  <1>1. Shaped(t)
    BY DEF Holds
  <1>2. ASSUME NEW u, u \in {[t EXCEPT !.timer = x], [t EXCEPT !.drafter = x],
                             [t EXCEPT !.retries = x]}
        PROVE  Holds(u, s, n) /\ Waits(u, t)
    <2>1. /\ Shaped(u) /\ u.stage = t.stage /\ u.doc = t.doc /\ u.prior = t.prior
          /\ u.request = t.request /\ u.reply = t.reply /\ u.loaded = t.loaded
          /\ u.pc = t.pc /\ u.dirty = t.dirty /\ u.conflict = t.conflict /\ u.force = t.force
      <3>1. CASE u = [t EXCEPT !.timer = x]
        BY <1>1, <3>1 DEF Shaped, Fields
      <3>2. CASE u = [t EXCEPT !.drafter = x]
        BY <1>1, <3>2 DEF Shaped, Fields
      <3>3. CASE u = [t EXCEPT !.retries = x]
        BY <1>1, <3>3 DEF Shaped, Fields
      <3> QED BY <1>2, <3>1, <3>2, <3>3
    <2> QED BY <2>1 DEF Holds, Marked, Waits
  <1> QED BY <1>2

--------------------------------------------------------------------------------
(* Settle, EnterConflict, Defer and FetchFresh keep the invariant.              *)

Quiet == UNCHANGED <<server, edits>> /\ BeaconsOk(beacons', edits)

LEMMA SettleKeeps ==
    ASSUME Inv, Quiet, NEW m \in Mount, NEW t, Holds(t, server, edits),
           t.stage = "open" => ~t.conflict, Settle(m, t)
    PROVE  Inv'
  <1>1. UpTo(t.doc, edits)
    BY DEF Holds
  <1>2. CASE MyDelta(t) = NoDelta
    <2>1. PICK u : u = [Idle(t) EXCEPT !.latch = None, !.dirty = FALSE]
      OBVIOUS
    <2>2. Become(m, u) /\ ClearDraft(m)
      BY <1>2, <2>1 DEF Settle
    <2>3. Holds(u, server, edits)
      BY <1>2, <2>1, IdleHolds
    <2> QED BY <2>2, <2>3, Cleared, MountStep DEF Quiet
  <1>3. CASE MyDelta(t) # NoDelta
    <2>1. PICK u : u = [Idle(t) EXCEPT !.dirty = TRUE]
      OBVIOUS
    <2>2. Become(m, u) /\ PersistDraft(m, t)
      BY <1>3, <2>1 DEF Settle
    <2>3. Holds(u, server, edits)
      BY <2>1, IdleHolds
    <2> QED BY <1>1, <2>2, <2>3, Drafted, MountStep DEF Quiet
  <1> QED BY <1>2, <1>3

LEMMA EnterConflictKeeps ==
    ASSUME Inv, Quiet, NEW m \in Mount, NEW t, Holds(t, server, edits),
           t.stage \notin Unopened, t.stage = "open" => t.dirty, EnterConflict(m, t)
    PROVE  Inv'
  <1>1. PICK u : u = [Idle(t) EXCEPT !.conflict = TRUE, !.timer = FALSE]
    OBVIOUS
  <1>2. Become(m, u) /\ PersistDraft(m, t)
    BY <1>1 DEF EnterConflict
  <1>3. Holds(u, server, edits) /\ UpTo(t.doc, edits)
    BY <1>1, IdleHolds DEF Holds
  <1> QED BY <1>2, <1>3, Drafted, MountStep DEF Quiet

LEMMA DeferKeeps ==
    ASSUME Inv, Quiet, NEW m \in Mount, NEW t, Holds(t, server, edits), Defer(m, t)
    PROVE  Inv'
  <1>1. Holds(Idle(t), server, edits) /\ UpTo(t.doc, edits)
    BY IdleHolds DEF Holds
  <1>2. Become(m, Idle(t)) /\ PersistDraft(m, t)
    BY DEF Defer
  <1> QED BY <1>1, <1>2, Drafted, MountStep DEF Quiet

LEMMA FetchFreshKeeps ==
    ASSUME Inv, Quiet, NEW m \in Mount, NEW t, Holds(t, server, edits),
           t.stage \notin Unopened, t.stage = "open" => t.dirty /\ ~t.conflict,
           FetchFresh(m, t)
    PROVE  Inv'
  <1>1. PICK u : u = Get([t EXCEPT !.pc = "fetching"])
    OBVIOUS
  <1>2. Holds(u, server, edits)
    BY <1>1, CallHolds
  <1>3. Become(m, u) /\ draft' = draft
    BY <1>1 DEF FetchFresh
  <1> QED BY <1>2, <1>3, MountStep DEF Quiet, Inv

--------------------------------------------------------------------------------
(* The actions, one by one.  First how a mount comes to life.                    *)

LEMMA UnbornHolds ==
    ASSUME Inv, NEW c, Known(c, server, edits)
    PROVE  /\ Holds([Unborn EXCEPT !.stage = "gone"], server, edits)
           /\ Holds([Unborn EXCEPT !.stage = "fetched", !.prior = c], server, edits)
           /\ Holds([Unborn EXCEPT !.prior = c], server, edits)
           /\ [Unborn EXCEPT !.prior = c].stage \in Unopened
           /\ Holds(Unborn, server, edits)
  <1>1. UpTo(<< >>, edits)
    <2>1. << >> \in Seq(Block) /\ Len(<< >>) = 0
      OBVIOUS
    <2>2. IsList(<< >>)
      BY <2>1 DEF IsList
    <2>3. \A id \in Ids(<< >>) : \E i \in 1..Len(<< >>) : TRUE
      BY <2>2, Members
    <2> QED BY <2>1, <2>2, <2>3 DEF UpTo
  <1>2. PICK e : e = << >>
    OBVIOUS
  <1>3. Unborn = [stage |-> "unborn", doc |-> e, prior |-> [revision |-> 0, units |-> e],
                  pc |-> "idle", force |-> FALSE, conflict |-> FALSE, latch |-> None,
                  retries |-> 0, dirty |-> FALSE, drafter |-> FALSE, timer |-> FALSE,
                  request |-> None, reply |-> None, touched |-> {}, loaded |-> None]
    BY <1>2 DEF Unborn
  <1>4. PICK o : o = [revision |-> 0, units |-> e]
    OBVIOUS
  <1>5. Known(o, server, edits)
    BY <1>1, <1>2, <1>4 DEF Known, Inv, ServerOk
  <1>6. ASSUME NEW u, u = [Unborn EXCEPT !.stage = "gone"]
        PROVE  Holds(u, server, edits)
    <2>1. /\ Shaped(u) /\ u.stage = "gone" /\ u.doc = e /\ u.prior = o
          /\ u.request = None /\ u.reply = None /\ u.loaded = None
          /\ u.pc = "idle" /\ u.conflict = FALSE
      BY <1>3, <1>4, <1>6 DEF Shaped, Fields
    <2> QED BY <1>1, <1>2, <1>5, <2>1 DEF Holds
  <1>7. ASSUME NEW u, u = [Unborn EXCEPT !.stage = "fetched", !.prior = c]
        PROVE  Holds(u, server, edits)
    <2>1. /\ Shaped(u) /\ u.stage = "fetched" /\ u.doc = e /\ u.prior = c
          /\ u.request = None /\ u.reply = None /\ u.loaded = None
          /\ u.pc = "idle" /\ u.conflict = FALSE
      BY <1>3, <1>7 DEF Shaped, Fields
    <2> QED BY <1>1, <1>2, <2>1 DEF Holds
  <1>8. ASSUME NEW u, u = [Unborn EXCEPT !.prior = c]
        PROVE  Holds(u, server, edits) /\ u.stage \in Unopened
    <2>1. /\ Shaped(u) /\ u.stage = "unborn" /\ u.doc = e /\ u.prior = c
          /\ u.request = None /\ u.reply = None /\ u.loaded = None
          /\ u.pc = "idle" /\ u.conflict = FALSE
      BY <1>3, <1>8 DEF Shaped, Fields
    <2> QED BY <1>1, <1>2, <2>1 DEF Holds, Unopened
  <1>9. ASSUME NEW u, u = Unborn
        PROVE  Holds(u, server, edits)
    <2>1. /\ Shaped(u) /\ u.stage = "unborn" /\ u.doc = e /\ u.prior = o
          /\ u.request = None /\ u.reply = None /\ u.loaded = None
          /\ u.pc = "idle" /\ u.conflict = FALSE
      BY <1>3, <1>4, <1>9 DEF Shaped, Fields
    <2> QED BY <1>1, <1>2, <1>5, <2>1 DEF Holds, Unopened
  <1> QED BY <1>6, <1>7, <1>8, <1>9

LEMMA ServerIsKnown ==
    ASSUME Inv
    PROVE  Known(server, server, edits)
  BY DEF Inv, ServerOk, Known

LEMMA FetchKeeps ==
    ASSUME Inv, NEW m \in Mount, Fetch(m)
    PROVE  Inv'
  <1>1. PICK u : u = [Unborn EXCEPT !.stage = "fetched", !.prior = server]
    OBVIOUS
  <1>2. Holds(u, server, edits)
    BY <1>1, UnbornHolds, ServerIsKnown
  <1> QED BY <1>1, <1>2, MountStep DEF Fetch, Inv

LEMMA LoadingHolds ==
    ASSUME NEW t, NEW s, NEW n, Holds(t, s, n), t.stage \in Unopened, NEW d, d # None => UpTo(d.doc, n)
    PROVE  Holds(Loading(t, d), s, n)
  <1>1. Shaped(t)
    BY DEF Holds
  <1>2. PICK u : u = Loading(t, d)
    OBVIOUS
  <1>3. /\ Shaped(u) /\ u.stage = "loading" /\ u.doc = t.doc /\ u.prior = t.prior
        /\ u.request = t.request /\ u.reply = t.reply /\ u.loaded = d
        /\ u.pc = t.pc /\ u.conflict = t.conflict
    BY <1>1, <1>2 DEF Shaped, Fields, Loading
  <1> QED BY <1>2, <1>3 DEF Holds, Unopened

LEMMA ReadDraftKeeps ==
    ASSUME Inv, NEW m \in Mount, ReadDraft(m)
    PROVE  Inv'
  <1>1. PICK d : d = draft[DeviceOf[m]]
    OBVIOUS
  <1>2. d # None => UpTo(d.doc, edits)
    BY <1>1, AutosaveAssumption DEF Inv, DraftsOk
  <1>3. Holds(mount[m], server, edits) /\ mount[m].stage \in Unopened
    BY DEF Inv, MountsOk, ReadDraft, Unopened
  <1>4. Holds(Loading(mount[m], d), server, edits)
    BY <1>2, <1>3, LoadingHolds
  <1> QED BY <1>1, <1>4, MountStep DEF ReadDraft, Inv

LEMMA ReturnKeeps ==
    ASSUME Inv, NEW m \in Mount, Return(m)
    PROVE  Inv'
  <1>1. PICK n \in Mount :
            Become(m, Loading([Unborn EXCEPT !.prior = mount[n].prior], draft[DeviceOf[m]]))
    BY DEF Return, Neighbours
  <1>2. PICK d, c : d = draft[DeviceOf[m]] /\ c = mount[n].prior
    OBVIOUS
  <1>3. (d # None => UpTo(d.doc, edits)) /\ Known(c, server, edits)
    BY <1>2, AutosaveAssumption DEF Inv, DraftsOk, MountsOk, Holds
  <1>4. PICK u : u = [Unborn EXCEPT !.prior = c]
    OBVIOUS
  <1>5. Holds(u, server, edits) /\ u.stage \in Unopened
    BY <1>3, <1>4, UnbornHolds
  <1>6. Holds(Loading(u, d), server, edits)
    BY <1>3, <1>5, LoadingHolds
  <1> QED BY <1>1, <1>2, <1>4, <1>6, MountStep DEF Return, Inv

LEMMA BuildKeeps ==
    ASSUME Inv, NEW m \in Mount, Build(m)
    PROVE  Inv'
  <1>1. PICK t : t = mount[m]
    OBVIOUS
  <1>2. PICK d : d = t.loaded
    OBVIOUS
  <1>3. /\ Holds(t, server, edits) /\ Shaped(t) /\ t.stage = "loading"
        /\ d # None => UpTo(d.doc, edits)
    BY <1>1, <1>2 DEF Inv, MountsOk, Holds, Build
  <1>4. CASE d # None /\ DeltaBetween(d.doc, t.prior.units) # NoDelta /\ d.base <= t.prior.revision
    <2>1. PICK u : u = [Opened(t) EXCEPT !.doc = d.doc, !.touched = d.touched,
                                        !.dirty = TRUE,
                                        !.timer = (d.base = t.prior.revision),
                                        !.conflict = (d.base < t.prior.revision)]
      OBVIOUS
    <2>2. Become(m, u) /\ draft' = draft
      BY <1>1, <1>2, <1>4, <2>1 DEF Build
    <2>3. /\ Shaped(u) /\ u.stage = "open" /\ u.doc = d.doc /\ u.prior = t.prior
          /\ u.request = t.request /\ u.reply = t.reply /\ u.loaded = None
          /\ u.pc = t.pc /\ u.dirty = TRUE
      BY <1>3, <2>1 DEF Shaped, Fields, Opened
    <2>4. t.pc = "idle"
      BY <1>3 DEF Holds, Unopened
    <2>5. Holds(u, server, edits)
      BY <1>3, <1>4, <2>3, <2>4 DEF Holds, Marked, Calls, Unopened
    <2> QED BY <2>2, <2>5, MountStep DEF Build, Inv
  <1>5. CASE ~(d # None /\ DeltaBetween(d.doc, t.prior.units) # NoDelta /\ d.base <= t.prior.revision)
    <2>1. PICK u : u = [Opened(t) EXCEPT !.doc = t.prior.units]
      OBVIOUS
    <2>2. Become(m, u) /\ (draft' = draft \/ ClearDraft(m))
      BY <1>1, <1>2, <1>5, <2>1 DEF Build
    <2>3. /\ Shaped(u) /\ u.stage = "open" /\ u.doc = t.prior.units /\ u.prior = t.prior
          /\ u.request = t.request /\ u.reply = t.reply /\ u.loaded = None
          /\ u.pc = t.pc /\ u.conflict = t.conflict
      BY <1>3, <2>1 DEF Shaped, Fields, Opened
    <2>4. t.pc = "idle" /\ ~t.conflict
      BY <1>3 DEF Holds, Unopened
    <2>5. Holds(u, server, edits)
      BY <1>3, <2>3, <2>4 DEF Holds, Known, Marked, Calls, Unopened
    <2>6. DraftsOk(draft', edits)
      BY <2>2, Cleared DEF Inv
    <2> QED BY <2>2, <2>5, <2>6, MountStep DEF Build, Inv
  <1> QED BY <1>4, <1>5

--------------------------------------------------------------------------------
(* What the user and the timers of an open mount do.                            *)

LEMMA EditedHolds ==
    ASSUME NEW t, NEW s, NEW n, Holds(t, s, n), t.stage = "open", t.pc \notin Calls \/ t.dirty,
           NEW doc, UpTo(doc, n), NEW id
    PROVE  Holds(Edited(t, doc, id), s, n)
  <1>1. Shaped(t)
    BY DEF Holds
  <1>2. PICK u : u = Edited(t, doc, id)
    OBVIOUS
  <1>3. /\ Shaped(u) /\ u.stage = "open" /\ u.doc = doc /\ u.prior = t.prior
        /\ u.request = t.request /\ u.reply = t.reply /\ u.loaded = t.loaded
        /\ u.pc = t.pc /\ u.dirty = TRUE /\ u.conflict = t.conflict
    BY <1>1, <1>2 DEF Shaped, Fields, Edited
  <1> QED BY <1>2, <1>3 DEF Holds, Marked, Unopened

LEMMA UserEditKeeps ==
    ASSUME Inv, NEW m \in Mount, NEW doc, NEW id, NEW overwritten,
           UpTo(doc, edits + 1), UserEdit(m, doc, id, overwritten)
    PROVE  Inv'
  <1>1. PICK t, u, n : t = mount[m] /\ u = Edited(t, doc, id) /\ n = edits + 1
    OBVIOUS
  <1>2. /\ n \in Nat /\ edits <= n /\ edits' = n /\ edits \in Nat
        /\ server' = server /\ draft' = draft /\ beacons' = beacons
        /\ mount' = [mount EXCEPT ![m] = u] /\ t.stage = "open"
    BY <1>1 DEF Inv, UserEdit, Become, Open
  <1>3. MountsOk(mount, server, n)
    BY <1>2, MountsLater DEF Inv, ServerOk, Grown
  <1>4. Holds(t, server, n)
    BY <1>1, <1>3 DEF MountsOk
  <1>5. Holds(u, server, n)
    BY <1>1, <1>2, <1>4, EditedHolds DEF Holds, Marked
  <1>6. MountsOk(mount', server, n)
    BY <1>2, <1>3, <1>5, OneMount
  <1>7. ServerOk(server, n) /\ DraftsOk(draft, n) /\ BeaconsOk(beacons, n)
    BY <1>2, UpToLater, DraftsLater DEF Inv, ServerOk, BeaconsOk
  <1>8. ServerOk(server', n) /\ DraftsOk(draft', n) /\ BeaconsOk(beacons', n)
    BY <1>2, <1>7
  <1>9. MountsOk(mount', server', n)
    BY <1>2, <1>6
  <1> HIDE DEF ServerOk, DraftsOk, BeaconsOk, MountsOk
  <1> QED BY <1>2, <1>8, <1>9 DEF Inv

LEMMA EditTextKeeps ==
    ASSUME Inv, NEW m \in Mount, EditText(m)
    PROVE  Inv'
  <1>1. PICK d, x : d = mount[m].doc /\ x = edits + 1
    OBVIOUS
  <1>2. UpTo(d, edits) /\ edits \in Nat /\ x \in Nat /\ x \in Int /\ edits <= x
    BY <1>1 DEF Inv, MountsOk, Holds
  <1>3. IsList(d) /\ Len(d) \in Nat /\ DOMAIN d = 1..Len(d)
    BY <1>2, Blocks DEF UpTo
  <1>4. PICK i \in 1..Len(d) : UserEdit(m, [d EXCEPT ![i].text = x], d[i].id, {d[i].text})
    BY <1>1, <1>3 DEF EditText
  <1>5. UpTo(d, x)
    BY <1>2, UpToLater
  <1>6. UpTo([d EXCEPT ![i].text = x], x)
    BY <1>2, <1>3, <1>5, Retexted DEF UpTo
  <1> QED BY <1>1, <1>4, <1>6, UserEditKeeps

LEMMA InsertBlockKeeps ==
    ASSUME Inv, NEW m \in Mount, InsertBlock(m)
    PROVE  Inv'
  <1>1. PICK d, x, b : d = mount[m].doc /\ x = edits + 1 /\ b = [id |-> x, text |-> x]
    OBVIOUS
  <1>2. UpTo(d, edits) /\ edits \in Nat /\ x \in Nat /\ x \in Int /\ edits <= x
    BY <1>1 DEF Inv, MountsOk, Holds
  <1>3. IsList(d) /\ b \in Block /\ b.id = x /\ \A id \in Ids(d) : id \in Int /\ id <= edits
    BY <1>1, <1>2, Blocks DEF UpTo, Block
  <1>4. b.id \notin Ids(d)
    BY <1>1, <1>2, <1>3
  <1>5. PICK i \in 1..(Len(d) + 1) : UserEdit(m, InsertAt(d, i, b), b.id, {})
    BY <1>1 DEF InsertBlock
  <1>6. IsList(InsertAt(d, i, b)) /\ Ids(InsertAt(d, i, b)) = Ids(d) \cup {b.id}
    BY <1>3, <1>4, Inserted
  <1>7. UpTo(InsertAt(d, i, b), x)
    BY <1>2, <1>3, <1>6 DEF UpTo
  <1> QED BY <1>1, <1>5, <1>7, UserEditKeeps

LEMMA DeleteBlockKeeps ==
    ASSUME Inv, NEW m \in Mount, DeleteBlock(m)
    PROVE  Inv'
  <1>1. PICK d, x : d = mount[m].doc /\ x = edits + 1
    OBVIOUS
  <1>2. UpTo(d, edits) /\ edits \in Nat /\ x \in Nat /\ edits <= x
    BY <1>1 DEF Inv, MountsOk, Holds
  <1>3. UpTo(d, x)
    BY <1>2, UpToLater
  <1>4. IsList(d) /\ DOMAIN d = 1..Len(d)
    BY <1>2, Blocks DEF UpTo
  <1>5. PICK i \in 1..Len(d) : UserEdit(m, RemoveAt(d, i), d[i].id, {d[i].text})
    BY <1>1, <1>4 DEF DeleteBlock
  <1>6. IsList(RemoveAt(d, i)) /\ Ids(RemoveAt(d, i)) = Ids(d) \ {d[i].id}
    BY <1>4, Removed
  <1>7. UpTo(RemoveAt(d, i), x)
    BY <1>3, <1>6 DEF UpTo
  <1> QED BY <1>1, <1>5, <1>7, UserEditKeeps

LEMMA WriteDraftKeeps ==
    ASSUME Inv, NEW m \in Mount, WriteDraft(m)
    PROVE  Inv'
  <1>1. Holds(mount[m], server, edits) /\ UpTo(mount[m].doc, edits)
    BY DEF Inv, MountsOk, Holds
  <1>2. PICK u : u = [mount[m] EXCEPT !.drafter = FALSE]
    OBVIOUS
  <1>3. Holds(u, server, edits)
    BY <1>1, <1>2, AsideHolds
  <1>4. Become(m, u) /\ PersistDraft(m, mount[m]) /\ UNCHANGED <<server, beacons, edits>>
    BY <1>2 DEF WriteDraft
  <1> QED BY <1>1, <1>3, <1>4, Drafted, MountStep DEF Inv

LEMMA FlushKeeps ==
    ASSUME Inv, UNCHANGED <<server, beacons, edits>>, NEW m \in Mount,
           NEW t, Holds(t, server, edits), t.stage = "open",
           NEW present, DraftsOk(present, edits), Flush(m, t, present)
    PROVE  Inv'
  <1>1. BeaconsOk(beacons', edits)
    BY DEF Inv
  <1>2. CASE t.conflict \/ t.pc # "idle"
    BY <1>1, <1>2, MountStep DEF Flush
  <1>3. CASE ~t.conflict /\ t.pc = "idle" /\ MyDelta(t) = NoDelta
    <2>1. PICK u : u = [t EXCEPT !.latch = None, !.dirty = FALSE]
      OBVIOUS
    <2>2. Become(m, u) /\ draft' = [present EXCEPT ![DeviceOf[m]] = None]
      BY <1>3, <2>1 DEF Flush
    <2>3. Holds(u, server, edits)
      BY <1>3, <2>1, IdleHolds
    <2>4. DraftsOk(draft', edits)
      BY <2>2, OneDraft
    <2> QED BY <1>1, <2>2, <2>3, <2>4, MountStep
  <1>4. CASE ~t.conflict /\ t.pc = "idle" /\ MyDelta(t) # NoDelta
    <2>1. t.dirty
      BY <1>4, Differs DEF Holds, Marked
    <2>2. PICK u : u = Put([t EXCEPT !.latch = None, !.pc = "saving"], MyDelta(t))
      OBVIOUS
    <2>3. Holds(u, server, edits)
      BY <1>4, <2>1, <2>2, CallHolds DEF Unopened
    <2>4. (Become(m, t) \/ Become(m, u)) /\ draft' = present
      BY <1>4, <2>2 DEF Flush
    <2> QED BY <1>1, <2>3, <2>4, MountStep
  <1> QED BY <1>2, <1>3, <1>4

LEMMA FlushTimerKeeps ==
    ASSUME Inv, NEW m \in Mount, FlushTimer(m)
    PROVE  Inv'
  <1>1. PICK t : t = [mount[m] EXCEPT !.timer = FALSE]
    OBVIOUS
  <1>2. Holds(t, server, edits) /\ t.stage = "open"
    <2>1. Holds(mount[m], server, edits) /\ mount[m].stage = "open"
      BY DEF Inv, MountsOk, FlushTimer, Open
    <2>2. Holds(t, server, edits) /\ Waits(t, mount[m])
      BY <1>1, <2>1, AsideHolds
    <2> QED BY <2>1, <2>2 DEF Waits
  <1>3. Flush(m, t, draft)
    BY <1>1 DEF FlushTimer
  <1> QED BY <1>2, <1>3, FlushKeeps DEF Inv, FlushTimer

LEMMA BlurKeeps ==
    ASSUME Inv, NEW m \in Mount, Blur(m)
    PROVE  Inv'
  <1>1. PICK t, present : /\ t = [mount[m] EXCEPT !.timer = FALSE]
                          /\ present = [draft EXCEPT ![DeviceOf[m]] = Draft(mount[m])]
    OBVIOUS
  <1>2. Holds(mount[m], server, edits) /\ mount[m].stage = "open"
    BY DEF Inv, MountsOk, Blur, Open
  <1>3. Holds(t, server, edits) /\ t.stage = "open"
    <2>1. Holds(t, server, edits) /\ Waits(t, mount[m])
      BY <1>1, <1>2, AsideHolds
    <2> QED BY <1>2, <2>1 DEF Waits
  <1>4. DraftsOk(present, edits)
    <2>1. Draft(mount[m]).doc = mount[m].doc
      BY DEF Draft
    <2>2. UpTo(mount[m].doc, edits)
      BY <1>2 DEF Holds
    <2> QED BY <1>1, <2>1, <2>2, OneDraft DEF Inv
  <1>5. Flush(m, t, present)
    BY <1>1 DEF Blur
  <1> QED BY <1>3, <1>4, <1>5, FlushKeeps DEF Blur

LEMMA OnlineKeeps ==
    ASSUME Inv, NEW m \in Mount, Online(m)
    PROVE  Inv'
  <1>1. PICK u : u = [mount[m] EXCEPT !.timer = TRUE]
    OBVIOUS
  <1>2. Holds(u, server, edits)
    BY <1>1, AsideHolds DEF Inv, MountsOk
  <1> QED BY <1>1, <1>2, MountStep DEF Online, Inv

--------------------------------------------------------------------------------
(* What the server does.                                                        *)

LEMMA CommitKeeps ==
    ASSUME Inv, NEW put, PutOf(put, edits), Accepts(put)
    PROVE  /\ ServerOk(Committed(put), edits)
           /\ Grown(server, Committed(put))
           /\ Known(Committed(put), Committed(put), edits)
  <1>1. PICK units : units = Saved(server.units, put.delta)
    OBVIOUS
  <1>2. Committed(put) = [revision |-> server.revision + 1, units |-> units]
    BY <1>1 DEF Committed
  <1>3. /\ IsList(units)
        /\ Ids(units) \subseteq Ids(server.units) \cup IdsOf(put.delta.upserts)
    BY <1>1, SavedIsList DEF Inv, ServerOk, UpTo, PutOf, RowsUpTo, Accepts
  <1>4. \A id \in IdsOf(put.delta.upserts) : id <= edits
    BY DEF PutOf, RowsUpTo, IdsOf
  <1>5. UpTo(units, edits)
    BY <1>3, <1>4 DEF UpTo, Inv, ServerOk
  <1>6. server.revision \in Nat
    BY DEF Inv, ServerOk
  <1> QED BY <1>2, <1>5, <1>6 DEF ServerOk, Grown, Known

LEMMA ReplyHolds ==
    ASSUME NEW t, NEW s, NEW n, Holds(t, s, n), NEW r,
           r.status = "ok" => Known(r.content, s, n)
    PROVE  Holds([t EXCEPT !.reply = r], s, n)
  <1>1. Shaped(t)
    BY DEF Holds
  <1>2. PICK u : u = [t EXCEPT !.reply = r]
    OBVIOUS
  <1>3. /\ Shaped(u) /\ u.stage = t.stage /\ u.doc = t.doc /\ u.prior = t.prior
        /\ u.request = t.request /\ u.reply = r /\ u.loaded = t.loaded
        /\ u.pc = t.pc /\ u.dirty = t.dirty /\ u.conflict = t.conflict
    BY <1>1, <1>2 DEF Shaped, Fields
  <1> QED BY <1>2, <1>3 DEF Holds, Marked, Unopened

LEMMA ServerStep ==
    ASSUME Inv, NEW s, ServerOk(s, edits), Grown(server, s), server' = s,
           UNCHANGED <<draft, edits>>, BeaconsOk(beacons', edits),
           MountsOk(mount', s, edits)
    PROVE  Inv'
  BY DEF Inv, ServerOk, DraftsOk, BeaconsOk, MountsOk, Holds, Known

LEMMA ServeKeeps ==
    ASSUME Inv, NEW m \in Mount, Serve(m)
    PROVE  Inv'
  <1>1. PICK t : t = mount[m]
    OBVIOUS
  <1>2. /\ Holds(t, server, edits) /\ t.request # None
        /\ edits \in Nat /\ server.revision \in Nat
    BY <1>1 DEF Inv, MountsOk, Serve, ServerOk
  <1>3. CASE t.request.kind = "get"
    <2>1. PICK r, u : r = [status |-> "ok", content |-> server] /\ u = [t EXCEPT !.reply = r]
      OBVIOUS
    <2>2. Holds(u, server, edits)
      <3>1. r.status = "ok" => Known(r.content, server, edits)
        BY <2>1, ServerIsKnown
      <3> QED BY <1>2, <2>1, <3>1, ReplyHolds
    <2>3. Become(m, u) /\ UNCHANGED <<server, draft, beacons, edits>>
      BY <1>1, <1>3, <2>1 DEF Serve
    <2> QED BY <2>2, <2>3, MountStep DEF Inv
  <1>4. CASE t.request.kind # "get"
    <2>1. PICK put : put = t.request
      OBVIOUS
    <2>2. PutOf(put, edits)
      BY <1>2, <1>4, <2>1 DEF Holds
    <2>3. PICK r, u, s : /\ r = PutReply(put) /\ u = [t EXCEPT !.reply = r]
                         /\ s = IF Accepts(put) THEN Committed(put) ELSE server
      OBVIOUS
    <2>4. /\ mount' = [mount EXCEPT ![m] = u] /\ server' = s
          /\ UNCHANGED <<draft, beacons, edits>>
      BY <1>1, <1>4, <2>1, <2>3 DEF Serve, Become
    <2>5. ServerOk(s, edits) /\ Grown(server, s) /\ (Accepts(put) => Known(s, s, edits))
      BY <2>2, <2>3, CommitKeeps DEF Grown, Inv
    <2>6. MountsOk(mount, s, edits) /\ Holds(t, s, edits)
      BY <1>1, <1>2, <2>5, MountsLater DEF Inv, MountsOk
    <2>7. r.status = "ok" => Known(r.content, s, edits)
      <3>1. Accepts(put) => r = [status |-> "ok", content |-> s]
        BY <2>3 DEF PutReply
      <3>2. ~Accepts(put) => r.status # "ok"
        BY <2>3 DEF PutReply
      <3> QED BY <2>5, <3>1, <3>2
    <2>8. MountsOk(mount', s, edits)
      BY <2>3, <2>4, <2>6, <2>7, ReplyHolds, OneMount
    <2> QED BY <2>4, <2>5, <2>8, ServerStep DEF Inv
  <1> QED BY <1>3, <1>4

LEMMA ServeBeaconKeeps ==
    ASSUME Inv, NEW put, ServeBeacon(put)
    PROVE  Inv'
  <1>1. PutOf(put, edits) /\ edits \in Nat /\ server.revision \in Nat
    BY DEF Inv, BeaconsOk, ServeBeacon, ServerOk
  <1>2. PICK s : s = IF Accepts(put) THEN Committed(put) ELSE server
    OBVIOUS
  <1>3. server' = s /\ UNCHANGED <<draft, mount, edits>> /\ beacons' \subseteq beacons
    BY <1>2 DEF ServeBeacon
  <1>4. ServerOk(s, edits) /\ Grown(server, s)
    BY <1>1, <1>2, CommitKeeps DEF Grown, Inv
  <1>5. MountsOk(mount, s, edits)
    BY <1>1, <1>4, MountsLater DEF Inv
  <1>6. BeaconsOk(beacons', edits) /\ MountsOk(mount', s, edits)
    BY <1>3, <1>5 DEF Inv, BeaconsOk
  <1> QED BY <1>3, <1>4, <1>6, ServerStep

LEMMA BeaconLostKeeps ==
    ASSUME Inv, NEW put, BeaconLost(put)
    PROVE  Inv'
  BY DEF Inv, BeaconLost, ServerOk, DraftsOk, BeaconsOk, MountsOk, Holds, Known

--------------------------------------------------------------------------------
(* What the controller does with its replies.                                   *)

LEMMA FlushSavedKeeps ==
    ASSUME Inv, NEW m \in Mount, FlushSaved(m)
    PROVE  Inv'
  <1>1. PICK t : t = mount[m]
    OBVIOUS
  <1>2. Holds(t, server, edits) /\ t.pc = "saving" /\ t.pc \in Calls /\ Quiet
    BY <1>1 DEF Inv, MountsOk, FlushSaved, Calls, Quiet
  <1>3. t.stage \notin Unopened /\ (t.stage = "open" => t.dirty /\ ~t.conflict)
    BY <1>2 DEF Holds, Marked, Calls
  <1>4. CASE Answered(m, "ok") /\ Settle(m, [t EXCEPT !.prior = t.reply.content])
    <2>1. PICK c, u : c = t.reply.content /\ u = [t EXCEPT !.prior = c]
      OBVIOUS
    <2>2. Known(c, server, edits) /\ UpTo(t.doc, edits)
      BY <1>1, <1>2, <1>4, <2>1 DEF Holds, Answered
    <2>3. Holds(u, server, edits) /\ Waits(u, t)
      BY <1>2, <2>1, <2>2, BaselineHolds
    <2> QED BY <1>2, <1>3, <1>4, <2>1, <2>3, SettleKeeps DEF Waits
  <1>5. CASE FetchFresh(m, t)
    BY <1>2, <1>3, <1>5, FetchFreshKeeps
  <1> QED BY <1>1, <1>4, <1>5 DEF FlushSaved

LEMMA MergeSavedKeeps ==
    ASSUME Inv, NEW m \in Mount, MergeSaved(m)
    PROVE  Inv'
  <1>1. PICK t : t = mount[m]
    OBVIOUS
  <1>2. Holds(t, server, edits) /\ t.pc = "resaving" /\ t.pc \in Calls /\ Quiet
    BY <1>1 DEF Inv, MountsOk, MergeSaved, Calls, Quiet
  <1>3. t.stage \notin Unopened /\ (t.stage = "open" => t.dirty /\ ~t.conflict)
    BY <1>2 DEF Holds, Marked, Calls
  <1>4. CASE Become(m, Idle(t)) /\ UNCHANGED draft
    BY <1>2, <1>4, IdleHolds, MountStep DEF Quiet, Inv
  <1>5. CASE Answered(m, "ok") /\ Settle(m, [t EXCEPT !.prior = t.reply.content, !.retries = 0])
    <2>1. PICK c, u : c = t.reply.content /\ u = [t EXCEPT !.prior = c, !.retries = 0]
      OBVIOUS
    <2>2. Known(c, server, edits) /\ UpTo(t.doc, edits)
      BY <1>1, <1>2, <1>5, <2>1 DEF Holds, Answered
    <2>3. Holds(u, server, edits) /\ Waits(u, t)
      BY <1>2, <2>1, <2>2, BaselineHolds
    <2> QED BY <1>2, <1>3, <1>5, <2>1, <2>3, SettleKeeps DEF Waits
  <1>6. CASE EnterConflict(m, t)
    BY <1>2, <1>3, <1>6, EnterConflictKeeps
  <1>7. CASE FetchFresh(m, [t EXCEPT !.retries = @ + 1])
    <2>1. PICK x, u : x = t.retries + 1 /\ u = [t EXCEPT !.retries = x]
      OBVIOUS
    <2>2. Holds(u, server, edits) /\ Waits(u, t)
      BY <1>2, <2>1, AsideHolds
    <2>3. FetchFresh(m, u)
      BY <1>7, <2>1
    <2> QED BY <1>2, <1>3, <2>2, <2>3, FetchFreshKeeps DEF Waits
  <1>8. CASE Defer(m, t)
    BY <1>2, <1>8, DeferKeeps
  <1> QED BY <1>1, <1>4, <1>5, <1>6, <1>7, <1>8 DEF MergeSaved

(* The plan of a merge that has no reason to refuse is a list.                  *)
LEMMA PlanIsList ==
    ASSUME NEW t, NEW s, NEW n, Holds(t, s, n), NEW c, Known(c, s, n),
           ConflictReasons(t.prior.units, c.units, MyDelta(t), t.force) = {}
    PROVE  UpTo(MergedUnits(t.prior.units, c.units, MyDelta(t)), n)
  <1>1. PICK base, units, delta, merged :
            /\ base = t.prior.units /\ units = c.units /\ delta = MyDelta(t)
            /\ merged = MergedUnits(base, units, delta)
    OBVIOUS
  <1>2. /\ IsList(base) /\ IsList(units) /\ IsList(t.doc)
        /\ \A id \in Ids(units) : id <= n
        /\ \A id \in Ids(t.doc) : id <= n
    BY <1>1 DEF Holds, Known, UpTo
  <1>3. /\ AreRows(delta.upserts) /\ Apart(delta.upserts)
        /\ IdsOf(delta.upserts) \subseteq Ids(t.doc)
        /\ delta.deletes = Ids(base) \ Ids(t.doc)
    BY <1>1, <1>2, DeltaFacts DEF MyDelta
  <1>4. (IdsOf(delta.upserts) \ Ids(base)) \cap Ids(units) = {}
    BY <1>1 DEF ConflictReasons
  <1>5. delta.deletes \cap IdsOf(delta.upserts) = {}
    BY <1>3
  <1>6. IsMergeOf(merged, base, units, delta)
    BY <1>1, <1>2, <1>3, <1>4, <1>5, MergeShape
  <1>7. IsList(merged) /\ Ids(merged) \subseteq Ids(units) \cup Ids(t.doc)
    BY <1>3, <1>6 DEF IsMergeOf
  <1> QED BY <1>1, <1>2, <1>7 DEF UpTo

LEMMA RebaseKeeps ==
    ASSUME Inv, Quiet, NEW m \in Mount, mount[m].pc = "fetching", Answered(m, "ok"),
           Reasons(m) = {}, Rebase(m)
    PROVE  Inv'
  <1>1. PICK t, c, p : t = mount[m] /\ c = mount[m].reply.content /\ p = Plan(m)
    OBVIOUS
  <1>2. Holds(t, server, edits) /\ t.pc \in Calls /\ Known(c, server, edits)
    BY <1>1 DEF Inv, MountsOk, Calls, Holds, Answered
  <1>3. UpTo(p, edits)
    BY <1>1, <1>2, PlanIsList DEF Reasons, Plan, Fresh
  <1>4. PICK u : u = [t EXCEPT !.prior = c, !.doc = p]
    OBVIOUS
  <1>5. Holds(u, server, edits) /\ Waits(u, t)
    BY <1>2, <1>3, <1>4, BaselineHolds
  <1>6. u.stage \notin Unopened /\ (u.stage = "open" => u.dirty /\ ~u.conflict)
    BY <1>2, <1>5 DEF Holds, Marked, Calls, Waits
  <1>7. CASE Settle(m, [u EXCEPT !.retries = 0])
    <2>1. PICK v : v = [u EXCEPT !.retries = 0]
      OBVIOUS
    <2>2. Holds(v, server, edits) /\ Waits(v, u)
      BY <1>5, <2>1, AsideHolds
    <2> QED BY <1>6, <1>7, <2>1, <2>2, SettleKeeps DEF Waits
  <1>8. CASE Become(m, Put([u EXCEPT !.pc = "resaving"], MyDelta(u))) /\ UNCHANGED draft
    <2>1. PICK v : v = Put([u EXCEPT !.pc = "resaving"], MyDelta(u))
      OBVIOUS
    <2>2. Holds(v, server, edits)
      BY <1>5, <1>6, <2>1, CallHolds
    <2> QED BY <1>8, <2>1, <2>2, MountStep DEF Quiet, Inv
  <1> QED BY <1>1, <1>4, <1>7, <1>8 DEF Rebase, Fresh

LEMMA MergedKeeps ==
    ASSUME Inv, NEW m \in Mount, Merged(m)
    PROVE  Inv'
  <1>1. PICK t : t = mount[m]
    OBVIOUS
  <1>2. Holds(t, server, edits) /\ t.pc = "fetching" /\ Quiet /\ Answered(m, "ok")
    BY <1>1 DEF Inv, MountsOk, Merged, Quiet
  <1>3. t.stage \notin Unopened /\ (t.stage = "open" => t.dirty /\ ~t.conflict)
    BY <1>2 DEF Holds, Marked, Calls
  <1>4. CASE Become(m, Idle(t)) /\ UNCHANGED draft
    BY <1>2, <1>4, IdleHolds, MountStep DEF Quiet, Inv
  <1>5. CASE Become(m, [Idle(t) EXCEPT !.retries = 0, !.latch = t.doc]) /\ PersistDraft(m, t)
    <2>1. PICK u : u = [Idle(t) EXCEPT !.retries = 0, !.latch = t.doc]
      OBVIOUS
    <2>2. Holds(u, server, edits) /\ UpTo(t.doc, edits)
      BY <1>2, <2>1, IdleHolds DEF Holds
    <2>3. DraftsOk(draft', edits)
      BY <1>5, <2>2, Drafted
    <2> QED BY <1>2, <1>5, <2>1, <2>2, <2>3, MountStep DEF Quiet
  <1>6. CASE EnterConflict(m, t)
    BY <1>2, <1>3, <1>6, EnterConflictKeeps
  <1>7. CASE Reasons(m) = {} /\ Rebase(m)
    BY <1>1, <1>2, <1>7, RebaseKeeps
  <1> QED BY <1>1, <1>4, <1>5, <1>6, <1>7 DEF Merged

LEMMA TakeTheirsKeeps ==
    ASSUME Inv, NEW m \in Mount, TakeTheirs(m)
    PROVE  Inv'
  <1>1. PICK t, u : t = mount[m] /\ u = Get([t EXCEPT !.pc = "taking"])
    OBVIOUS
  <1>2. Holds(t, server, edits) /\ t.stage \notin Unopened
    BY <1>1 DEF Inv, MountsOk, TakeTheirs, Open, Unopened
  <1>3. Holds(u, server, edits)
    BY <1>1, <1>2, CallHolds
  <1> QED BY <1>1, <1>3, MountStep DEF TakeTheirs, Inv

LEMMA KeepMineKeeps ==
    ASSUME Inv, NEW m \in Mount, KeepMine(m)
    PROVE  Inv'
  <1>1. PICK t, u : t = mount[m] /\ u = [t EXCEPT !.conflict = FALSE, !.force = TRUE]
    OBVIOUS
  <1>2. /\ Holds(t, server, edits) /\ t.stage = "open" /\ t.conflict /\ t.pc = "idle"
        /\ Quiet /\ FetchFresh(m, u)
    BY <1>1 DEF Inv, MountsOk, KeepMine, Open, Busy, Quiet
  <1>3. Shaped(t) /\ t.dirty
    BY <1>2 DEF Holds, Marked
  <1>4. /\ Shaped(u) /\ u.stage = t.stage /\ u.doc = t.doc /\ u.prior = t.prior
        /\ u.request = t.request /\ u.reply = t.reply /\ u.loaded = t.loaded
        /\ u.pc = t.pc /\ u.dirty = t.dirty /\ u.conflict = FALSE
    BY <1>1, <1>3 DEF Shaped, Fields
  <1>5. Holds(u, server, edits)
    BY <1>2, <1>3, <1>4 DEF Holds, Marked, Calls, Unopened
  <1> QED BY <1>2, <1>3, <1>4, <1>5, FetchFreshKeeps DEF Unopened

LEMMA TookTheirsKeeps ==
    ASSUME Inv, NEW m \in Mount, TookTheirs(m)
    PROVE  Inv'
  <1>1. PICK t, c : t = mount[m] /\ c = mount[m].reply.content
    OBVIOUS
  <1>2. /\ Holds(t, server, edits) /\ t.pc = "taking" /\ Quiet
        /\ Known(c, server, edits)
    BY <1>1 DEF Inv, MountsOk, TookTheirs, Quiet, Holds, Answered
  <1>3. CASE Become(m, Idle(t)) /\ UNCHANGED draft
    BY <1>2, <1>3, IdleHolds, MountStep DEF Quiet, Inv
  <1>4. CASE ~Disposed(m)
    <2>1. PICK u : u = [Idle(t) EXCEPT !.prior = c, !.doc = c.units,
                                       !.conflict = FALSE, !.retries = 0, !.latch = None,
                                       !.dirty = FALSE, !.touched = {}]
      OBVIOUS
    <2>2. Shaped(t) /\ UpTo(c.units, edits)
      BY <1>2 DEF Holds, Known
    <2>3. /\ Shaped(u) /\ u.stage = t.stage /\ u.doc = c.units /\ u.prior = c
          /\ u.request = None /\ u.reply = None /\ u.loaded = t.loaded
          /\ u.pc = "idle" /\ u.conflict = FALSE
      BY <2>1, <2>2 DEF Shaped, Fields, Idle, Taken
    <2>4. Holds(u, server, edits)
      BY <1>2, <2>2, <2>3 DEF Holds, Marked, Calls, Unopened
    <2>5. Become(m, u) /\ ClearDraft(m)
      BY <1>1, <1>4, <2>1 DEF TookTheirs, Fresh
    <2> QED BY <1>2, <2>4, <2>5, Cleared, MountStep DEF Quiet
  <1> QED BY <1>1, <1>3, <1>4 DEF TookTheirs

LEMMA UnawaitedOk ==
    ASSUME NEW t, NEW s, NEW n, Holds(t, s, n)
    PROVE  BeaconsOk(Unawaited(t), n) /\ BeaconsOk(Beacon(t), n)
  <1>1. BeaconsOk(Unawaited(t), n)
    BY DEF BeaconsOk, Unawaited, Holds
  <1>2. PICK delta : delta = MyDelta(t)
    OBVIOUS
  <1>3. RowsUpTo(delta.upserts, n)
    BY <1>2, Differs
  <1>4. PutOf([kind |-> "put", expected |-> t.prior.revision, delta |-> delta], n)
    BY <1>3 DEF PutOf
  <1>5. BeaconsOk(Beacon(t), n)
    BY <1>2, <1>4 DEF BeaconsOk, Beacon
  <1> QED BY <1>1, <1>5

LEMMA CallFailsKeeps ==
    ASSUME Inv, NEW m \in Mount, CallFails(m)
    PROVE  Inv'
  <1>1. PICK t : t = mount[m]
    OBVIOUS
  <1>2. Holds(t, server, edits)
    BY <1>1 DEF Inv, MountsOk
  <1>3. Quiet
    BY <1>1, <1>2, UnawaitedOk DEF Quiet, CallFails, Inv, BeaconsOk
  <1>4. CASE Become(m, Idle(t)) /\ UNCHANGED draft
    BY <1>2, <1>3, <1>4, IdleHolds, MountStep DEF Quiet, Inv
  <1>5. CASE Defer(m, t)
    BY <1>2, <1>3, <1>5, DeferKeeps
  <1> QED BY <1>1, <1>4, <1>5 DEF CallFails

--------------------------------------------------------------------------------
(* How a page goes away.                                                        *)

LEMMA AwayOk ==
    ASSUME Inv, NEW m \in Mount
    PROVE  /\ Holds(mount[m], server, edits) /\ UpTo(mount[m].doc, edits)
           /\ BeaconsOk(beacons \cup Beacon(mount[m]), edits)
           /\ BeaconsOk(beacons \cup Unawaited(mount[m]), edits)
           /\ BeaconsOk(beacons \cup Beacon(mount[m]) \cup Unawaited(mount[m]), edits)
           /\ Holds(Gone, server, edits)
  <1>1. Holds(mount[m], server, edits) /\ UpTo(mount[m].doc, edits)
    BY DEF Inv, MountsOk, Holds
  <1>2. BeaconsOk(Unawaited(mount[m]), edits) /\ BeaconsOk(Beacon(mount[m]), edits)
    BY <1>1, UnawaitedOk
  <1>3. Holds(Gone, server, edits)
    BY UnbornHolds, ServerIsKnown DEF Gone
  <1> QED BY <1>1, <1>2, <1>3 DEF BeaconsOk, Inv

LEMMA HideKeeps ==
    ASSUME Inv, NEW m \in Mount, Hide(m)
    PROVE  Inv'
  <1>1. DraftsOk(draft', edits)
    BY AwayOk, Drafted DEF Hide
  <1>2. BeaconsOk(beacons', edits) /\ UNCHANGED <<server, mount, edits>>
    BY AwayOk DEF Hide
  <1>3. MountsOk(mount', server', edits') /\ ServerOk(server', edits')
    BY <1>2 DEF Inv
  <1> HIDE DEF ServerOk, DraftsOk, BeaconsOk, MountsOk
  <1> QED BY <1>1, <1>2, <1>3 DEF Inv

LEMMA CloseKeeps ==
    ASSUME Inv, NEW m \in Mount, Close(m)
    PROVE  Inv'
  <1>1. DraftsOk(draft', edits)
    BY AwayOk, Drafted DEF Close
  <1>2. BeaconsOk(beacons', edits) /\ Become(m, Gone) /\ UNCHANGED <<server, edits>>
    BY AwayOk DEF Close
  <1> QED BY <1>1, <1>2, AwayOk, MountStep

LEMMA LeaveKeeps ==
    ASSUME Inv, NEW m \in Mount, Leave(m)
    PROVE  Inv'
  <1>1. PICK t : t = mount[m]
    OBVIOUS
  <1>2. Holds(t, server, edits) /\ Shaped(t) /\ UpTo(t.doc, edits) /\ t.stage = "open"
    BY <1>1, AwayOk DEF Holds, Leave, Open
  <1>3. PICK d : d = IF Busy(m) THEN t.doc ELSE << >>
    OBVIOUS
  <1>4. UpTo(d, edits)
    <2>1. UpTo(<< >>, edits)
      <3>1. << >> \in Seq(Block) /\ Len(<< >>) = 0
        OBVIOUS
      <3>2. IsList(<< >>)
        BY <3>1 DEF IsList
      <3>3. \A id \in Ids(<< >>) : \E i \in 1..Len(<< >>) : TRUE
        BY <3>2, Members
      <3> QED BY <3>1, <3>2, <3>3 DEF UpTo
    <2> QED BY <1>2, <1>3, <2>1
  <1>5. PICK u : u = [t EXCEPT !.stage = "left", !.doc = d, !.timer = FALSE, !.drafter = FALSE]
    OBVIOUS
  <1>6. /\ Shaped(u) /\ u.stage = "left" /\ u.doc = d /\ u.prior = t.prior
        /\ u.request = t.request /\ u.reply = t.reply /\ u.loaded = t.loaded
    BY <1>2, <1>5 DEF Shaped, Fields
  <1>7. Holds(u, server, edits)
    BY <1>2, <1>4, <1>6 DEF Holds, Unopened
  <1>8. Become(m, u) /\ PersistDraft(m, t) /\ UNCHANGED <<server, edits>>
    BY <1>1, <1>3, <1>5 DEF Leave
  <1>9. BeaconsOk(beacons', edits)
    BY AwayOk DEF Leave
  <1>10. DraftsOk(draft', edits)
    BY <1>2, <1>8, Drafted
  <1> QED BY <1>7, <1>8, <1>9, <1>10, MountStep

LEMMA KillKeeps ==
    ASSUME Inv, NEW m \in Mount, Kill(m)
    PROVE  Inv'
  <1>1. BeaconsOk(beacons', edits) /\ Become(m, Gone) /\ UNCHANGED <<server, draft, edits>>
    BY AwayOk DEF Kill
  <1> QED BY <1>1, AwayOk, MountStep DEF Inv

--------------------------------------------------------------------------------
LEMMA InvHolds == Spec => []Inv
  <1>1. Init => Inv
    <2> SUFFICES ASSUME Init
                 PROVE  Inv
      OBVIOUS
    <2>1. PICK b, units : b = [id |-> 0, text |-> 0] /\ units = <<b>>
      OBVIOUS
    <2>2. UpTo(units, 0)
      <3>1. b \in Block /\ b.id = 0
        BY <2>1 DEF Block
      <3>2. units \in Seq(Block) /\ Len(units) = 1 /\ units[1] = b
        BY <2>1, <3>1
      <3>3. IsList(units)
        BY <3>2 DEF IsList
      <3>4. \A id \in Ids(units) : \E i \in 1..Len(units) : id = units[i].id
        BY <3>3, Members
      <3>5. \A id \in Ids(units) : id = 0
        BY <3>1, <3>2, <3>4
      <3> QED BY <3>3, <3>5 DEF UpTo
    <2>3. edits = 0 /\ server.revision = 1 /\ server.units = units
      BY <2>1 DEF Init
    <2>4. ServerOk(server, edits)
      BY <2>2, <2>3 DEF ServerOk
    <2>5. DraftsOk(draft, edits) /\ BeaconsOk(beacons, edits)
      BY DEF Init, DraftsOk, BeaconsOk
    <2>6. Holds(Unborn, server, edits)
      <3>1. PICK e : e = << >>
        OBVIOUS
      <3>2. UpTo(e, edits)
        <4>1. e \in Seq(Block) /\ Len(e) = 0
          BY <3>1
        <4>2. IsList(e)
          BY <4>1 DEF IsList
        <4>3. \A id \in Ids(e) : \E i \in 1..Len(e) : TRUE
          BY <4>2, Members
        <4> QED BY <4>1, <4>2, <4>3 DEF UpTo
      <3>3. PICK u, o : u = Unborn /\ o = [revision |-> 0, units |-> e]
        OBVIOUS
      <3>4. u = [stage |-> "unborn", doc |-> e, prior |-> o,
                  pc |-> "idle", force |-> FALSE, conflict |-> FALSE, latch |-> None,
                  retries |-> 0, dirty |-> FALSE, drafter |-> FALSE, timer |-> FALSE,
                  request |-> None, reply |-> None, touched |-> {}, loaded |-> None]
        BY <3>1, <3>3 DEF Unborn
      <3>5. Known(o, server, edits)
        BY <2>3, <3>2, <3>3 DEF Known
      <3>6. /\ Shaped(u) /\ u.stage = "unborn" /\ u.doc = e /\ u.prior = o
            /\ u.request = None /\ u.reply = None /\ u.loaded = None
            /\ u.pc = "idle" /\ u.conflict = FALSE
        BY <3>4 DEF Shaped, Fields
      <3> QED BY <3>2, <3>3, <3>5, <3>6 DEF Holds, Unopened
    <2>7. MountsOk(mount, server, edits)
      BY <2>6 DEF Init, MountsOk
    <2> QED BY <2>3, <2>4, <2>5, <2>7 DEF Inv
  <1>2. Inv /\ [Next]_vars => Inv'
    <2> SUFFICES ASSUME Inv, [Next]_vars
                 PROVE  Inv'
      OBVIOUS
    <2>1. CASE UNCHANGED vars
      BY <2>1 DEF vars, Inv, ServerOk, DraftsOk, BeaconsOk, MountsOk, Holds, Known
    <2>2. ASSUME NEW m \in Mount, User(m)
          PROVE  Inv'
      BY <2>2, EditTextKeeps, InsertBlockKeeps, DeleteBlockKeeps, TakeTheirsKeeps,
         KeepMineKeeps DEF User
    <2>3. ASSUME NEW m \in Mount, Environment(m)
          PROVE  Inv'
      BY <2>3, FetchKeeps, ReturnKeeps, BlurKeeps, OnlineKeeps, CallFailsKeeps, HideKeeps,
         CloseKeeps, LeaveKeeps, KillKeeps DEF Environment
    <2>4. ASSUME NEW m \in Mount, Controller(m)
          PROVE  Inv'
      BY <2>4, ReadDraftKeeps, BuildKeeps, WriteDraftKeeps, FlushTimerKeeps, ServeKeeps,
         FlushSavedKeeps, MergeSavedKeeps, MergedKeeps, TookTheirsKeeps DEF Controller
    <2>5. ASSUME NEW put \in beacons, ServeBeacon(put) \/ BeaconLost(put)
          PROVE  Inv'
      BY <2>5, ServeBeaconKeeps, BeaconLostKeeps
    <2> QED BY <2>1, <2>2, <2>3, <2>4, <2>5 DEF Next
  <1> QED BY <1>1, <1>2, PTL DEF Spec

(* BaselineIsCommitted always holds: whatever is lost, left, reopened, merged or  *)
(* forced, what a controller takes for the server's content (prior) is one the    *)
(* server committed, and the last one if it has the last revision: the revision    *)
(* of a PUT never vouches for units the writer did not see.                       *)
THEOREM AutosaveBaselineIsCommitted == Spec => []BaselineIsCommitted
  <1>1. Inv => BaselineIsCommitted
    BY DEF Inv, MountsOk, Holds, Known, BaselineIsCommitted
  <1> QED BY <1>1, InvHolds, PTL

(* SavedMeansStored always holds: an open editor that is not marked dirty shows    *)
(* exactly the units of its baseline, through merges, conflicts, "take theirs",     *)
(* "keep mine" and edits made while a PUT is under way.                           *)
THEOREM AutosaveSavedMeansStored == Spec => []SavedMeansStored
  <1>1. Inv => SavedMeansStored
    BY DEF Inv, MountsOk, Holds, Marked, SavedMeansStored, Open
  <1> QED BY <1>1, InvHolds, PTL

================================================================================
