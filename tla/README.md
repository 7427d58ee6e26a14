# mathmeander in TLA+

mathmeander is a journal for mathematics: an editor in the browser
(`packages/web`), a Fastify server over Postgres (`packages/server`) and a
stateless core in Rust (`crates/core`) that decides every change of the canonical
content and is called through an FFI. This directory models the parts whose
correctness depends on order, overlap and failure, checks them with TLC, and proves
the central ones with TLAPS.

## The system

| part | code | state | operations | who talks to it |
|---|---|---|---|---|
| content store | `server/src/db/graph.ts`, `http/routes/graph.ts`, `objects.ts`, `crates/core/src/ops.rs` | `objects` (revision, title), `content_units`, `object_versions` | `PUT content`, operations of the core, materialize, title patch, page reads | every editor, over HTTP |
| unit tree | `crates/core/src/ops.rs` | nested units with positions, kinds, types, texts | save, reparent, toggle heading, set type | content store |
| ownership | `db/graph.ts`, `http/routes/graph.ts`, `docs/adr/0002` | units, links, handles and targets of several objects, each row naming unit and object | re-home, dissolve, copy, saves with citations | the editor's commands |
| annotations | `db/annotation.ts`, `ops.rs`, `annoRecognize.ts` | annotation objects and the spans they bind | reconcile | autosave |
| editor planning | `editor/projection.ts`, `merge.ts`, `headingRecognize.ts`, `headingResection.ts`, `idStamper.ts` | none: functions of the ProseMirror document and of a baseline | `projectToDoc`, `flushToContent`, `planMerge`, structural needs | autosave |
| keys and recognizers | `cues.ts`, `headingDepth.ts`, `moveBlock.ts`, `mathRecognize.ts`, `markRecognize.ts`, `typeTitle.ts`, `annoKeys.ts` | none: functions of the document | split, join, `#`, move, cues, braces, `$...$`, `*...*` | user |
| autosave | `editor/autosaveController.ts`, `DayEditor.tsx`, `draftStore.ts`, `restore.ts` | document, baseline, busy / conflict / latch / retries, timers; one IndexedDB draft per object and browser | flush, drains of the other axes, merge, take theirs, keep mine, beacon, restore | user, page events, store |
| journal days and notebooks | `db/journal.ts`, `db/notebook.ts` and their routes | `journal_day_detail`, `notebook_detail`, each with a unique key | get-or-create, reads | pages |
| sessions | `routes/auth.ts`, `db/users.ts`, `db/sessions.ts`, `auth/policy.ts`, `web/src/auth/store.ts`, `router.tsx` | users, spaces, sessions, the token of a browser | sign-in, session check, sign-out | every request |
| numbering, math surface, schema, bindings, views | `numbering.rs`, `crates/surface`, live previews, ... | none | pure functions, rendering, generated code | all |

What is hard in it: a handler reads the content, lets the core compute a result, and
only then opens a transaction, so that anything may have happened in between; the
editor keeps typing while its own requests are under way, and one flush is a PUT
followed by a queue of single operations, each against the revision the last one
answered; replies are lost, pages hidden, closed, killed or left at any moment;
several writers edit one day; the meaning of what is typed is worked out again after
every change by plugins that must not fight; a move of units between objects must
take along every row that names them; requests that create the same thing race; a
sign-in is a handful of statements that commit one at a time. What must be true
then: no text is lost or overwritten by someone who did not mean to, "saved" means
that opening the day again shows the same, every stored revision is one the core
computed from its predecessor, nothing is orphaned, and nobody waits for ever.

## Modules

| module | models |
|---|---|
| `RevisionedContent` | the abstract promise of the store: one register of (revision, title, units, versions, copies) with atomic operations |
| `ContentStore` | the handlers statement by statement: read of the head, read of the units, gate with the row lock, writes, COMMIT or roll back; implements `RevisionedContent` |
| `ContentStoreProofs` | the theorems about it |
| `TreeOps` | the core's operations on nested units, as pure functions and their refusals |
| `UnitTree` | the abstract promise about them: a forest that changes by one accepted operation at a time |
| `Blocks` | the editor's flat document over that tree: projection, `#`s and sections, what a flush sends, merge |
| `Gestures` | what keys and input rules do to that document |
| `Outline` | one editor with its flush, drains and merges, the server's tree and another device; uses `Gestures`, implements `UnitTree` |
| `OutlineProofs` | the theorems about `UnitTree` and about `Outline`: that it implements `UnitTree`, what merges keep, what the screen shows, what is never refused |
| `OneHome` | the abstract promise about ownership: each unit in one object, captures shown until folded back |
| `Ownership` | re-home, dissolve, copy and save as handlers with row locks, deadlocks and deferred constraints; uses `TreeOps`, implements `OneHome` |
| `OwnershipProofs` | the theorems about `OneHome` and about it, among them that it implements `OneHome` |
| `Facets` | types, names and braces of blocks, and the differences a flush sends |
| `Axes` | one editor with these drains, the server and another device; uses `Facets` |
| `AxesProofs` | the theorems about it |
| `Inline` | the text of a block: recognizers of mathematics and emphasis, flush and projection of inline atoms |
| `Merge` | `flushToContent`, `planMerge` and the core check, as operators on sequences of blocks and sets of rows |
| `MergeProofs` | what these operators do to lists of any length |
| `MergeCases` | two sides editing a common baseline, over which the operators of `Merge` are compared with what they promise |
| `MergeCasesProofs` | the theorems about it |
| `Autosave` | mounts of the editor, their controllers, drafts, beacons and the server; uses `Merge` |
| `AutosaveProofs` | the theorems about it |
| `Surfaces` | get-or-create of days and notebooks: statements, unique keys, roll back, re-select |
| `Sessions` | sign-in, personal space, single-session policy, sign-out, tokens of the browsers |
| `Access` | `Sessions` and `Surfaces` composed by `requireSession` |
| `AccessProofs` | the theorems about `Surfaces`, `Sessions` and `Access` |
| `MC*` | small instances |

### How state and actions correspond to the code

**ContentStore.** A request of a client expects a revision. `ReadHead` and
`ReadUnits` are the two SELECTs of `loadContent`; they are separate steps, so a read may
be torn. `AtGate` is the point where the core has computed a result from what was read.
`PassGate` is the `UPDATE ... WHERE revision = $expected` (or `SELECT ... FOR UPDATE`
of a copy) that takes the row lock, `FailGate` its 409. `Install` and `CommitWrite`
are the writes behind it; they become visible at the commit. `Abort` is the death of a handler or of
its connection at any point; it releases the lock and rolls back. A delta is a set of
upserts and a set of deletes over units with a position and a text. The deferred
position constraint and the uniqueness of version numbers are `ConstraintsHold`: an
error branch of the model that the property `ConstraintsNeverFire` shows to be dead.

**TreeOps, Blocks, Gestures, Outline.** A content is a function from unit ids to
(parent, position, kind, type, text). A text is its lines. The document is the sequence of blocks the
editor shows, with the `#`s of a heading counted apart from its text. The walk of `projectToDoc` is not a
recursion here: what is above a unit is what every set has that holds the parents of the unit and of its members
(`Above`), one unit precedes another if it is above it or of two siblings on the ways up to
them the first is its own (`Precedes`), and `Walk` lists the units by how many precede them. A gesture is one
transaction and the plugins that follow it (`headingRecognize`, the identity stamper, the
resectioning), as one step. `sync.pc` is where `flush` is:
`FlushSave` is the PUT, `FlushStructure` the start of `drainStructure` with its queue of
toggles and moves, `OpAccepted` the reply that lets the next one go,
`Merge` and `OpMerge` the GET after a 409 or 422. A request and what the
server does with it are one step, the reply is another, and the user types in between.
`Fail` is a request that is not answered, carried out or not. `latch` is
`semanticLatch`: a document whose save was refused is not sent again.

**OneHome, Ownership.** The tables are one record `db` of units, links, handles
(`named`), targets of braces (`braced`), objects and their revisions. A handler first
reads in several queries (`pc` from `reading` to `ready`), then its transaction
locks object rows one after the other (`lockedOther`, `locked`); `lock` is the set of rows held, with
holder and strength. Postgres ends a cycle of waiting handlers by
failing one of them, with a 500. The deferred foreign keys that name a unit together
with its object are checked at COMMIT. A unit is created by a copy or a save, mentions
are cited with the object the editor believes the unit to be in.

**Facets, Axes.** After the text a flush clears the types of units about to be deleted,
saves, sends the types, the names and the braces, in this order. Each has a baseline of its own
(`prior`, `sentNames`, `sentBraces`). Types and names meet the revision gate and raise
the revision; reconciliation does neither. A brace in the document is the set of
words it marks; what is sent is the span from the first to the last.

**Inline.** A block is a sequence of cells, one per character or reference, each with the expression
it belongs to and its style. A gesture changes the cells, then the recognizers run
until they have nothing to add (`Settling`); `FlushedDoc` makes atoms without
width of them and `ProjectedDoc` makes cells again. `raw` is what the gesture made before
the recognizers ran: a history variable, used only to say what they may not change.

**Autosave.** `mount[m]` has the document, the baseline `prior`, the program counter of
the controller (`idle`, `saving`, `fetching`, `resaving`, `taking`), its flags, both
timers and the request under way with its reply. A `Device` is a browser profile: tabs
of one browser share its draft. Since a sign-in ends the other sessions of the user, two
devices in the model stand for any two writers with drafts of their own. A browser opens
the day again only after its last tab of that day is gone. The
200 ms debounce of the draft fires before the 800 ms debounce of the flush armed by the
same edit, hence the guard of `FlushTimer`. `kept` is a ghost: the texts somebody
wrote and nobody overwrote, deleted or gave up; an edit younger than the draft debounce
leaves it when its tab is killed. IndexedDB writes are taken to be immediate and to
succeed. The GET of the page is atomic here: `ContentStore` shows that a torn one
is of a superseded revision, so that the next PUT is refused.

**Surfaces, Sessions, Access.** A request is named like the object it mints, a session and a
space like the sign-in that made them. Statements outside a transaction commit one by one. An
insert into a unique index waits for the transaction that holds the key
(`Rivals`). `created_at` of a space is the `now` of its sign-in, taken at its
start: `PersonalSpace` is the oldest by that time, not by insertion. There is one
user; everything in these tables is per user.

The editor appears in four modules because its axes are independent by design: the text
of flat days with everything that can happen to a tab (`Autosave`), sections (`Outline`),
types, names and braces (`Axes`), the inside of a block (`Inline`). Each keeps the
control of the flush as far as its axis takes part in it.

## Runs

| run | expects | question and bounds |
|---|---|---|
| `ContentStoreSafety` | pass | Two requests, of every kind, in every interleaving with deaths, over two units and the one position they collide at; revisions are bounded. Two handlers suffice for a race on the gate and for a torn read, and each slot is used again, so that a third write meets the first two. |
| `ContentStoreLiveness` | pass | Every request is answered, under fairness of the handlers that are alive. |
| `Outline` | pass | One editor on a day with two empty sections, or with a notation home above an equation; paragraphs come from the first gesture. Two gestures anywhere during the flushes, one change of another device or one failed request, one retry; six ids. Two gestures are what it takes to change one's mind while the first change is under way. `KeepHeadings`: the user does not delete a stored heading's block, see below. |
| `Ownership` | pass | Two handlers at once, three requests in all, over two days: a section with a paragraph, a paragraph after it, and a paragraph on the other day that may cite into the section. Two captures nested in each other, a capture and its folding back with a citation, a deadlock of two moves all fit in. |
| `Axes` | pass | A named theorem with a brace; up to three gestures and up to two changes of another device or failed requests, four of both together; one retry. Three gestures are delete, undo and one more, or the second brace over the same words; two changes of the other device refuse a save and then what its merge sends. |
| `Inline` | pass | Two changes of a document with a fresh equation and a lone dollar, a cited equation before a digit, or a displayed equation; selections of up to three cells. |
| `MergeCases` | pass | All pairs (server, document) reachable from a common baseline by edits, insertions, deletions and moves. The others go first, which loses nothing: only the pair matters to the merge. `MaxSize` bounds blocks and changes. |
| `AutosaveTwoWriters` | pass | Two devices, one of which opens the day a second time after its tab has died over whatever that left; two edits in all, insertions, deletions, lost replies, killed tabs, both conflict buttons: nothing lost, nothing clobbered. |
| `AutosavePageEvents` | pass | Two writers whose pages are hidden, closed and left: beacons race flushes, and neither carries what its user did not do. |
| `AutosaveReturn` | pass | Navigation away and back with calls under way; with fairness, and with no lost call, every flush ends, and so does what the conflict buttons start. A merge whose save is refused again needs a second device: the repetition is in the other two runs of `Autosave`, and it is counted (`retries`). |
| `AutosaveConflictBeacon` | violation | The beacon of a hidden page commits a draft that is shown as a conflict. |
| `Access` | pass | Two sign-ins from two browsers, a sign-out, expiry, and two POSTs of one notebook. |

What they show, property by property, is stated above each property in its module. In short:

- the store is an atomic revisioned register whose every version is the content of its
  revision, constraints behind the gate never fire, and a torn page read cannot be saved over
  (`ContentStoreSafety`);
- what two devices' flushes do to the nested units is always one allowed operation at a
  time (`ImplementsUnitTree`), a lone editor is never refused, "clean" means the
  outline on the screen is the stored one, merges keep every line (`Outline`);
- moves between objects implement `OneHome`: nothing that was saved in between is
  overwritten by a move computed before it, nothing captured is without an embed, a 500 has one of
  the known causes, dissolve is the inverse of re-home (`Ownership`);
- "clean" means types, names and braces are stored too, with the exceptions listed
  below; types are cleared early enough for every deletion (`Axes`);
- the recognizers come to rest, loading sends nothing, ids of expressions stay unique, an
  equation keeps its id (`Inline`);
- flush, merge and the two conflict buttons do what they promise on every small pair of
  documents, and over whole lifetimes of tabs (`MergeCases`, `Autosave*`);
- one live session per user, one object per day or notebook, the same answer for all
  (`Access`).

`CHECK_DEADLOCK FALSE` stands where the system may stop: all tabs gone, edits, gestures, ids or
requests used up, a document that can no longer change within its bound.

Which events an instance of `Autosave` includes is its constant `Happens`; each is in a passing
run. They are not all in one run for two reasons: the number of states, and the divergences below,
which would hide what else could go wrong. For the same reason some properties name a condition
(`faults = 0`, `restored`, `KeepHeadings`, `ShownAsStored`); each stands for a behaviour listed
in the next section.

Fairness. `ContentStore`: each handler that has been received and has not died goes on
(an event loop and a database that answers); a handler may always die instead.
`Autosave!FairSpec`: timers fire, and a call that was sent is served and its promise
resolves; users, page events and the network failures are not fair. `Access!FairSpec`:
the steps of a POST; sign-ins are not fair, and nothing that is proved of a POST needs
them to end. `Ownership!FairSpec`: each handler goes on, and Postgres looks for deadlocks
among those that wait (`deadlock_timeout`), which is a step of the handler that is made the victim.
Each is weak fairness, as each of these steps stays enabled until it is taken.

## Where the code and its words part

`AutosaveConflictBeacon` has a finding in `PROJECT.json`: `DayEditor.tsx` sends a beacon also
while a conflict is shown. Met while modelling, without a run of their own; where a property
excludes one, it is named:

Autosave and merge
- Keep mine overwrites an edit of the other side to a unit the user never touched if it has moved
  (`merge.ts:121`, against 30-32); after a draft was restored as a conflict it deletes the additions of others.
- A draft written while the conflict of a restored draft is shown carries the revision of the content
  fetched since (`DayEditor.tsx:214`), so that the next mount restores it as current and saves it over the others'
  edits (against `restore.ts:19`). It takes four mounts, more than `AutosaveTwoWriters` has, and in
  `AutosavePageEvents` no draft is restored: `NoClobber` and `OnlyMyEdits` hold within their bounds and are not theorems.
- Two tabs of one browser share one draft (`DayEditor.tsx:214`, against 2-3).
- A beacon followed by the flush of the same new unit ends in a conflict that cannot be resolved
  in one's own favour (`merge.ts:96`, "unreachable with UUIDv7").
- A flush that settles after unmount writes the draft; an edit made during a PUT slower than the debounce
  is not scheduled again.

Sessions
- The sign-out request carries no token (`router.tsx:49`); a late 401 of an old token clears a newer one
  and all drafts; of overlapping first sign-ins, the older space may be stored last and then hides the days
  made in the other.

Outline
- A new heading without text is left out of the save, but its body's move names it as parent: a 422.
- A heading whose block is deleted while its promotion is under way comes back at the server, and the
  indicator says clean (`projection.ts:849`); `KeepHeadings` leaves this out.
- After a merge, the projection of the residual (`autosaveController.ts:434`) replaces text typed while
  a toggle or a move was under way.
- A new paragraph whose section another device has dissolved meanwhile is dropped by the merge (`merge.ts:107`,
  against `autosaveController.ts:5`); `MergeKeepsHomedWords` leaves it out.
- A block that becomes an equation and back needs two flushes; toggling a unit the race made an equation is refused once.

Ownership
- A brace on a unit that moves makes re-home and dissolve fail with a 500 for ever, and so does a
  citation, name or brace hung on the embed (`OnlyAnchorsFail`).
- The rows of links whose citation is gone still stop dissolve.
- A copy of a citing unit keeps its `link_id`; its next save is refused with 422, since the upsert of
  the link leaves `source_object_id` alone (`StaleMention`).
- Dissolving an object while a save of its host cites it can deadlock; one of both is a 500.

Axes
- A merge takes a new block that is still empty off the screen, with the type and the names the user has given
  it: the delta leaves it out (`projection.ts:808-823`) and the merge replaces the document (`DayEditor.tsx:241-283`),
  against "a prose merge never silently drops a type the user just declared" (`autosaveController.ts:494-498`). A block
  that another device has deleted goes likewise if only its type, names or braces were changed here. `MergeKeepsFacets`
  says that no other block goes.
- A changed name alone is not sent (`autosaveController.ts:541` does not ask `docNameNeeds`, against 349-350).
- Undo of a deleted theorem brings the block back without sending its names and braces again (`restored`);
  undo of a braced paragraph after a flush mints a target that exists: a 500 at every flush (396-401).
- After a lost reply and a change back, the baseline hides the difference (`faults = 0`).
- A merge that adopts another device's text leaves the brace at its old offsets; annotations without
  a target are not loaded again (`graph.ts:752`).

Inline
- A cited equation whose text is torn is shown whole again after a reload (`ShownAsStored`).
- A fresh equation put directly after a cited one becomes part of it and is lost by the flush.
- A reference directly followed by an equation changes places with it on reload.
- A brace over text that later becomes `$...$` splits the node: several atoms with one id, refused with 422 for ever.
- `$...$` typed around a block with several equations makes it one displayed equation and drops the others.

## Proofs

`ContentStoreProofs` proves, for every set of units, positions, texts, deltas and any number of
requests, and without a bound on revisions other than the guard that names it:
type correctness, the invariants and action properties of `ContentStoreSafety` and four more
(the gate means that what was read is current, copies are of the revision they name, the
winner of a race replaced what it expected, every change raises the revision), and that
`ContentStore` implements `RevisionedContent`. The invariant they follow from
(`StoreInvariant`) relates four things none of the properties mentions together: what a handler has read
so far to the revision it read it at (equal to the stored content
as long as the revision is), the handler that holds the lock to the gate it passed, the
computed result to what was read, and the history of versions to the content. `GateMeansFresh`
alone is not inductive: that the units read are those of the revision read is only known
because a change of the units raises the revision, and because nobody but the holder of
the lock changes either.

`OutlineProofs` proves first of `UnitTree` that the units of one object are a forest of sections whatever
operations the server accepts in whatever order (`TreeForest`). The inductive invariant is the type invariant and `Forest`: every parent is
a heading of the content, siblings have different positions, no unit is its own ancestor.
Acyclicity is stated without recursion: a set of units that contains the parent of each of its members
contains no unit. Each operation has a lemma. *Reparent* would close a cycle only through
the subtree that moves, and removing the subtree from a closed set leaves one
of the old tree (`SubtreeClosed`, `ReparentedForest`). *Dissolving a heading* lifts its
children: a closed set of the new tree with the heading added is one of the old tree
(`DissolvedForest`). Positions are numbered anew by counting the siblings that come before;
that this keeps siblings apart is a matter of cardinalities of strictly growing sets (`StrictlyMore`,
`NumberedApart`), for which ids must be finitely many. A *save* has no guard against cycles and
needs none: its new units hang below units that are there and it moves none (`SavedForest`).

Then it proves of `Outline`, for any day to start with and any number of units, gestures, requests and changes of
the other device, that every step is an allowed operation of `UnitTree` or leaves the tree alone
(`OutlineImplementsTree`), so that the forest survives the editor too (`OutlineForest`). The operations
of the other device and the toggles and moves of a drain are guarded by the core and are steps of `UnitTree`
whenever they are carried out. A save is guarded too; what must be known of it is that the body is a delta of
units, of the right type and with ids given out by then, when the flush or the merge makes it and still when it
arrives, after more gestures. Hence the invariant `Sound`: the tree is a forest of units (`Grown`); the
document is a sequence of blocks whose ids were given out, no two the same (`Editing`); tree and baseline have
ids that were given out (`Known`); what is under way is a delta of units and a queue of toggles and moves to
places there are (`Holding`). It rests on what the operators
make of documents and contents of any size, without induction:
- the walk lists each unit it reaches once (`WalkLists`): `Precedes` is total and transitive on a forest
  (`PrecedesTotal`, `PrecedesTransitive`), as two ways up that meet share a sibling pair, and numbering the
  members of a finite set by how many come before is one-to-one (`AscendingLists`, `RankedLists`);
- each gesture takes a document to a document (`TypingKeeps`, `SplittingKeeps`, `JoiningKeeps`, `MovingKeeps`, ...),
  and so do the plugins, which give every block an id of its own and a section (`StampedIs`, `RecognizedIs`,
  `ResectionedIs`, `SettledIs`);
- different blocks are sent as different units, edits under their own id and parent, the rest under new ones
  (`SentIds`, `FlushSends`), each after those of its section (`SlotIs`);
- a merge gives the members of a section different places (`MergedIs`, `CountedApart`) and what is sent after it
  changes text and position alone (`RebasedIs`).

`OutlineMergeKeepsWords` follows the lines of a block through a merge: in a forest the walk reaches every
unit (`AllReached`), so that every unit of the merged content is a block on the screen with its text (`OnScreen`), and a
block that is sent is in the merged content with its own text unless the server changed the unit too (`MineMerged`).
The one thing needed of the state is `Sound`: without the forest a unit could hang where the walk never comes.

`OutlineShownIsStored` says that if `KeepHeadings` (the user deletes no heading that is stored or about to be,
and makes no equation of one; without it the divergence named above is a counterexample), a clean indicator
means that the walk of the stored tree is what the screen shows. Its invariant is `Screen`:
- `Current`: the baseline is not ahead of the server, and is the stored tree if the revisions are equal. It is a
  forest too, so that a walk of it lists each unit once;
- `Laid`: the document is `Nested`, each block after the heading of its section with nothing in between that is
  outside of it. Only so is the order of the blocks the order of the walk (`MirrorWalks`), and only so
  does the place a block is sent to (`Slot`) say where it stands. Every gesture, the plugins and the projection of a merge are shown to
  keep it; the notation home is kept where it belongs on the way through queues and residuals (`Placed`, `Pending`);
- `Cleanly`: while no flush is due, the document has nothing to send and nothing structural to ask for against the baseline;
- `Headed`: every stored heading, and every heading a queued move needs or a queued toggle makes, has its block on the
  screen. Without it a settled editor can lack a heading that another request brought about.

From these, a clean document and its baseline have the same units, with the same sections and texts, and the slots give
the siblings the order they have on the screen (`CleanIsShown`). A lemma per part follows every action
(`CurrentSteps`, `LaidSteps`, `CleanSteps`, `HeadedSteps`).

`OutlineAloneNeverRefused`, under the same condition, says that with no other writer and no failure the two passes of a flush,
one save and then toggles and moves that were worked out together, are valid at the server one by one. The save is, because
with `Headed` every unit the server keeps is a block that is sent, so that no sibling is left at a position that a
slot gives to another (`FlushLeaves`, `FlushAllowed`); without the condition a stored heading with no block can collide. For the operations the invariant
(`Right`) keeps the document they were made from and says that the queue `Leads` there from the tree as it is: what differs from that
document is still asked for, toggles first, moves in its order. This holds of what `structuralNeeds` lists (`NeedsLead`) and
is kept by each operation (`TailLeads`): a heading that is dissolved lifts its children, and each of those is still asked to move, since in the
document it is in no section of a paragraph. A move is never below its own unit (`HeadMay`):
the new section comes before the unit in the document, those before have been moved already, and so the way up from the section stays before the unit.

`OutlineAssumption` says that a day is opened as a forest, its siblings numbered from 0 as the core does, the notation home
in no section, and no unit typed: types, and their clearing before a unit is deleted, are in `Axes`.

`OwnershipProofs` proves of the handlers themselves, for any requests, objects and units, that past
the revision gates nothing is stale (`OwnershipNothingStale`: what is written at COMMIT was computed
from the content the tables hold then, also of the object that is folded back) and that what was
captured is never without an embed (`OwnershipNeverOrphaned`). Their inductive invariant has four parts:
- ids of units and objects are given out once, so that an object that was dissolved does not come back
  under the feet of a handler that read it;
- as long as an object's revision is the one a handler expects, its content is what the handler has read;
- a handler past a gate holds the row, and a row has one holder; of the object to be dissolved it holds
  the row or the object is gone;
- every captured object is shown.

Each transaction is shown to write only rows of objects it holds, or of new ones, and to raise the revisions of
the former (`WritesOnly`); `WriteKeeps` derives from this that no other handler loses what it knows.
From the same invariant, with one more part, follows that `Ownership` implements `OneHome`
(`OwnershipImplementsOneHome`): each COMMIT is one atomic step of the abstract specification, everything else a
stutter. The part added (`MInv`) is that the committed tables meet the deferred constraints; that an embed
cites nothing, a save writes no embed and a deletion leaves nothing below what it deletes; and `Room`,
that a handler's ids are within the bound at its COMMIT because its request was counted when it was sent.

Two properties needed the shape of the tree, which no gate checks (`SInv`): the units of all objects together
are a forest with nothing below an embed, links start at paragraphs, an embed shows no copy, and
embedding is well-founded. `OwnershipOnlyAnchorsFail` then says which constraint a transaction
may break: for each of the five a lemma (`RehomeFits`, `DissolveFits`, ...) writes down the tables it would
leave and shows that they satisfy every constraint, unless an anchor does not move along or a mention
is out of date. `OwnershipRestoredByDissolve` says that dissolve is the inverse of re-home: the subtree
that left and comes back is the one that was there, and the positions, numbered anew twice, keep the order of the
siblings, since each counts the same ones before it (`FoldUndoes`).

`OwnershipProofs` proves of the abstract ownership specification, `OneHome`, that citations resolve and
that captured objects stay shown (`HomesResolve`). The invariant is the
conjunction of the type invariant and both: a fold back removes the embed and the object together, and may
only do so when nobody outside cites either.

`OwnershipAssumption` says that the ids of the start are the first ones given out, that its units are a
forest with places and without embeds or citations, and that what users delete is there at the start.

`MergeProofs` is about `flushToContent`, `planMerge` and `save_content` on lists of any length. A list is compared
with the set of rows (id, text, position) the server stores; that the list can be had back from the rows
(`ListedRows`) is a matter of counting the rows up to each position (`Enumerated`), without induction. `DeltaReaches`: the delta of a document against
a content is accepted by that content and leaves exactly the document. `MergeShape`: what `planMerge` shows is
the rows of the server with my delta on them, a unit edited by both decided for the server unless forced, a unit
deleted by one side gone unless edited by the other. `MergeCasesProofs` carries this to every pair of a
server and a document that drifted apart from a baseline (`Drifted`: all three are lists of ids minted before the
next), which gives the three properties of the run `MergeCases`.

`AutosaveProofs` proves for any number of mounts, devices, edits and retries and for every event, the killed
tabs and the lost replies included, that a baseline is a content the server committed, the last one if the
revision is the last (`BaselineIsCommitted`), and that what is not marked dirty is the baseline
(`SavedMeansStored`). The invariant says of every content anybody holds (baselines, replies, fetched pages) that
it is `Known`: of a revision the server has passed, and equal to what it stores if the revision is equal. What is under
way has to be in it: a PUT carries the revision of the baseline, its reply the content it made, and since a reply may
arrive after others have written, `Known` must survive every growth of the server (`MountsLater`). The three
properties of texts (`NothingLost`, `OnlyMyEdits`, `NoClobber`) are not theorems: they hold within the bounds of the runs
and fail beyond them, by the divergences above.

`AxesProofs` proves the five properties of the run `Axes` for every day it may start as, any number of
gestures, other devices' changes, failures and retries. The invariant (`Inv`) has six parts:
- `Stored`: ids are below `minted`, texts are without the words still to be typed, a brace marks a phrase;
- `Based`: the baseline is of a revision the server has had, and is its content if the revision is its own;
- `Ready`: what a flush is about to send is acceptable to the baseline. A body to be saved gives every unit the
  type it has in the baseline, and a unit it deletes is untyped there or about to be cleared;
- `Mine`: where document and baseline differ in type, or the document lacks a unit, the user did that;
- `Clean`: an indicator that says "saved" left nothing to send;
- `Unlost`, as long as there was no fault: the revision is the baseline's, each handle and target believed sent
  is stored unless its unit was deleted, and a handle belongs to one unit in the document, in what undo would bring back,
  on the server, in what was sent and in what is about to be.

`CurrentNeverRefused` is `Based` with `Ready`: at the server's revision the baseline is what it has. `CleanIsStored`
is `Clean` with `Unlost`, and a brace is in a stored unit because a phrase is not empty. `NamesReachServer` needs
that a name is of one unit (`Homed`): `upsertHandle` does not move a handle that is stored, so a name that two
units shared would stay with the wrong one. It also needs that only typed blocks have names, since a typed block is sent, or
is an intent that keeps the indicator from "saved". For `MergeKeepsFacets`, `IntentFacts` says that each type chosen since the
baseline, of a stored or of a new block, is laid over the merge, and `DroppedFacts` that a block the merge lacks is neither on the
server nor has text of the user's. The rest is about phrases: a brace goes through a merge as
a span, and over the same text the span gives back the words it was made from (`SpanOfPhrase`), which holds because
typing and erasing keep a phrase consecutive (`PhraseTyped`, `PhraseErased`). `OnlyMyTypes` follows from `Ready` and `Mine`.

`AxesAssumption` says how a day is opened: ids are given out one after the other, a name and a brace are of one block, only
typed blocks have names, a brace marks a phrase, words of a block differ and none is one that will be typed.

`AccessProofs` proves for every number of requests, sign-ins, keys and browsers the
safety properties of the run `Access`, type correctness, and that a session has a space; its sections are one per component. For
`Surfaces` the strengthening says that of the requests whose uncommitted row has one
key there is at most one, and only as long as no row of that key is committed; from this
follow the uniqueness of the winner and that a loser finds it. `Access` is shown to
implement `SurfacesSpec`, so that what is proved of `Surfaces` alone holds of the
composition.

Assumptions: those the modules name (`ContentAssumption`, `RequestAssumption`, `TreeAssumption`,
`OutlineAssumption`, `OwnershipAssumption`, `SurfacesAssumption`, `SessionsAssumption`, `AccessAssumption`, ...); the model checker
evaluates each.

Only model-checked:
- liveness (`EveryRequestAnswered`, `EveryCallEnds`, `EveryPostAnswered`, `EveryOpAnswered`), as fairness is out
  of the prover's reach;
- everything about `Inline`, whose recognizers are folds over the cells of a block: what a fold computes for
  every input takes an induction over data;
- `NothingLost`, `OnlyMyEdits` and `NoClobber` of `Autosave`, see above.

## Not modelled

Within the modelled parts:
- of the tree: split, merge, reorder, insert equations and rewrites of a surface, which no caller in
  the web client reaches; systems of equations and their rows; transclusion;
- of ownership: taggings, aliases, uncite; the versions of several objects;
- of the drains: closing pages and restoring drafts while one is under way (`Autosave` has both for
  text); a brace over mathematics or several units, its kind and label; foreign changes of names and braces; undo other than of the last deletion;
- of a block's text: backslash escapes, `~~`, code, hard breaks, the parser's verdict; paste, which is
  typing once marks are lost;
- of sessions: the deletion of drafts at sign-out and 401, the identity provider.

Parts without a module: the surface grammar, the canonical types and schema generation, the bindings, the server
shell, pages, rendering and numbering. They keep no state, and nothing they compute decides what is
stored. `PROJECT.json` gives the reason of each.

## Plan

1. Draft deletion at sign-out and 401: `Sessions` composed with the drafts of `Autosave`.
2. Closing a page in the middle of a drain: `Outline` with the tabs of `Autosave`.
