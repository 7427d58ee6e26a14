--------------------------- MODULE RevisionedContent ---------------------------
(* What the server promises of one canonical object (arch. section 6.4): a     *)
(* revisioned register.  A write applies one operation to the content as it is *)
(* NOW, raises the revision by one and, if it is a content write, appends the  *)
(* checkpoint of exactly that content; a copy is a copy of the content as it   *)
(* is now.  There are no requests, reads or transactions here: ContentStore    *)
(* has those, and implements this module.                                      *)
EXTENDS Integers

CONSTANTS
    Unit,       \* the unit ids an object's content may hold
    Position,   \* the positions a unit may stand at
    Absent,     \* the content value of a unit the object does not hold
    Untouched,  \* the delta value of a unit the operation leaves alone
    Delta,      \* the operations: functions from units to their new value
    Title       \* object titles

ASSUME ContentAssumption ==
    /\ Absent \notin Position
    /\ Untouched \notin Position \cup {Absent}
    /\ Untouched \notin Title
    /\ Delta \subseteq [Unit -> Position \cup {Absent, Untouched}]

TitlePatch == Title \cup {Untouched}

Content == [Unit -> Position \cup {Absent}]

(* validate_content_well_formed: no two units of the object share a position.  *)
WellFormed(content) ==
    \A u, v \in Unit : u # v /\ content[u] = content[v] => content[u] = Absent

(* The apply phase of a core operation: upserts substituted, deletes dropped.  *)
ApplyDelta(content, delta) ==
    [u \in Unit |-> IF delta[u] = Untouched THEN content[u] ELSE delta[u]]

(* Mutant: the core lets two units share a position.                           *)
CoreAcceptsCollisions(content, delta) ==
    \A u \in Unit : delta[u] = Absent => content[u] # Absent

(* The core's gate: a delete names a unit the content holds and the result is  *)
(* well formed.                                                                *)
CoreAccepts(content, delta) ==
    /\ \A u \in Unit : delta[u] = Absent => content[u] # Absent
    /\ WellFormed(ApplyDelta(content, delta))

--------------------------------------------------------------------------------
VARIABLES
    revision,   \* objects.revision
    title,      \* objects.title
    units,      \* the object's content_units rows
    versions,   \* object_versions: version_no -> snapshot
    copies      \* the objects materialized from this one, each with the source
                \* revision its request expected

objectVars == <<revision, title, units, versions, copies>>

EmptyContent == [u \in Unit |-> Absent]

ObjectInit ==
    /\ revision = 1
    /\ title \in Title
    /\ units = EmptyContent
    /\ versions = [v \in {} |-> EmptyContent]
    /\ copies = {}

Checkpoint(log, version_no, snapshot) ==
    [v \in DOMAIN log \cup {version_no} |->
        IF v = version_no THEN snapshot ELSE log[v]]

WriteContent(delta) ==
    /\ CoreAccepts(units, delta)
    /\ revision' = revision + 1
    /\ units' = ApplyDelta(units, delta)
    /\ versions' = Checkpoint(versions, revision', units')
    /\ UNCHANGED <<title, copies>>

(* apply_title_patch: an absent patch keeps the title (and raises the revision *)
(* all the same).                                                              *)
PatchedTitle(current, patch) == IF patch = Untouched THEN current ELSE patch

Retitle(patch) ==
    /\ revision' = revision + 1
    /\ title' = PatchedTitle(title, patch)
    /\ UNCHANGED <<units, versions, copies>>

Copy(sourceRevision, copiedTitle, copiedUnits) ==
    [source |-> sourceRevision, title |-> copiedTitle, units |-> copiedUnits]

Materialize ==
    /\ copies' = copies \cup {Copy(revision, title, units)}
    /\ UNCHANGED <<revision, title, units, versions>>

ObjectNext ==
    \/ \E delta \in Delta : WriteContent(delta)
    \/ \E patch \in TitlePatch : Retitle(patch)
    \/ Materialize

ObjectSpec == ObjectInit /\ [][ObjectNext]_objectVars
================================================================================
