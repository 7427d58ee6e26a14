--------------------------------- MODULE Surfaces ------------------------------
(* Get-or-create of a writing surface: POST /api/journal/days and POST          *)
(* /api/notebooks.  The request mints an object, and one transaction inserts it *)
(* with its detail row, UNIQUE on (space, date) or (space, slug), and with the  *)
(* notation home of a notebook.  The loser of a race rolls back and answers     *)
(* with the winner's object.                                                    *)
CONSTANTS
    Space,      \* the spaces requests resolve to
    Key,        \* the dates and slugs
    Slug,       \* those of Key that are slugs: their surface is a notebook
    Request,    \* the POSTs; a request is also the id of the object it mints
    None

ASSUME SurfacesAssumption ==
    /\ Slug \subseteq Key
    /\ None \notin Request
    /\ None \notin Space

VARIABLES
    objects,    \* the committed objects: the requests that minted them
    details,    \* details[s][k]: the object of the committed detail row, or None
    homes,      \* the objects with a committed notation home
    request     \* request[r]: where the handler of r is

surfaceVars == <<objects, details, homes, request>>

Pending == {"detail", "home", "commit", "raced"}    \* inside the transaction
Owned == {"home", "commit"}                         \* its detail row is inserted
Answering == {"reread", "done"}
Phase == {"idle", "reselect", "failed", "dead"} \cup Pending \cup Answering

Unsent == [phase |-> "idle", space |-> None, key |-> None, answer |-> None, created |-> FALSE]

SurfacesInit ==
    /\ objects = {}
    /\ details = [s \in Space |-> [k \in Key |-> None]]
    /\ homes = {}
    /\ request = [r \in Request |-> Unsent]

Become(r, q) == request' = [request EXCEPT ![r] = q]
At(r, phase) == request[r].phase = phase
Detail(r) == details[request[r].space][request[r].key]
Stored == UNCHANGED <<objects, details, homes>>

(* The object and its provenance are inserted; nobody else sees them yet.       *)
InsertObject(r, s, k) ==
    /\ At(r, "idle")
    /\ Become(r, [Unsent EXCEPT !.phase = "detail", !.space = s, !.key = k])
    /\ Stored

(* The requests in one of the phases that are about the key of r.               *)
RivalsIn(r, phases) ==
    {q \in Request \ {r} : request[q].phase \in phases
                           /\ request[q].space = request[r].space
                           /\ request[q].key = request[r].key}

(* Mutant: the key is claimed with the object, before the detail row.           *)
RivalsEarly(r) == RivalsIn(r, Pending)

(* The transactions whose uncommitted detail row has the key of r.              *)
Rivals(r) == RivalsIn(r, Owned)

AfterDetail(r) == IF request[r].key \in Slug THEN "home" ELSE "commit"

(* Mutant: the conflict is answered before the rival has committed.             *)
InsertDetailUnwaiting(r) ==
    /\ At(r, "detail")
    /\ Become(r, [request[r] EXCEPT !.phase =
                    IF Detail(r) = None /\ Rivals(r) = {} THEN AfterDetail(r) ELSE "raced"])
    /\ Stored

(* INSERT ... ON CONFLICT DO NOTHING: waits for a rival to commit or roll back. *)
InsertDetail(r) ==
    /\ At(r, "detail")
    /\ Rivals(r) = {}
    /\ Become(r, [request[r] EXCEPT !.phase = IF Detail(r) = None THEN AfterDetail(r) ELSE "raced"])
    /\ Stored

InsertHome(r) ==
    /\ At(r, "home")
    /\ Become(r, [request[r] EXCEPT !.phase = "commit"])
    /\ Stored

Commit(r) ==
    /\ At(r, "commit")
    /\ objects' = objects \cup {r}
    /\ details' = [details EXCEPT ![request[r].space][request[r].key] = r]
    /\ homes' = IF request[r].key \in Slug THEN homes \cup {r} ELSE homes
    /\ Become(r, [request[r] EXCEPT !.phase = "reread", !.answer = r, !.created = TRUE])

(* Mutant: the lost race is not thrown, so that the transaction commits.        *)
RollBackForgotten(r) ==
    /\ At(r, "raced")
    /\ objects' = objects \cup {r}
    /\ Become(r, [request[r] EXCEPT !.phase = "reselect"])
    /\ UNCHANGED <<details, homes>>

(* JournalDayRaced, NotebookRaced: the minted rows go.                          *)
RollBack(r) ==
    /\ At(r, "raced")
    /\ Become(r, [request[r] EXCEPT !.phase = "reselect"])
    /\ Stored

(* Mutant: the loser answers with the object it minted.                         *)
ReselectOwn(r) ==
    /\ At(r, "reselect")
    /\ Become(r, [request[r] EXCEPT !.phase = "done", !.answer = r])
    /\ Stored

(* The winner is read back outside the transaction; the throw of a missing one  *)
(* is the branch the code calls unreachable.                                    *)
Reselect(r) ==
    /\ At(r, "reselect")
    /\ Become(r, IF Detail(r) = None
                 THEN [request[r] EXCEPT !.phase = "failed"]
                 ELSE [request[r] EXCEPT !.phase = "reread", !.answer = Detail(r)])
    /\ Stored

(* findObjectInSpace, and the answer: 201, 200, or 404 "vanished".              *)
Reread(r) ==
    /\ At(r, "reread")
    /\ Become(r, [request[r] EXCEPT !.phase =
                    IF request[r].answer \in objects THEN "done" ELSE "failed"])
    /\ Stored

(* The server or its connection dies: an open transaction is rolled back.       *)
Die(r) ==
    /\ request[r].phase \in Pending \cup {"reselect", "reread"}
    /\ Become(r, [request[r] EXCEPT !.phase = "dead"])
    /\ Stored

Handle(r) ==
    \/ InsertDetail(r) \/ InsertHome(r) \/ Commit(r)
    \/ RollBack(r) \/ Reselect(r) \/ Reread(r)

SurfacesNext ==
    \E r \in Request :
        \/ \E s \in Space, k \in Key : InsertObject(r, s, k)
        \/ Handle(r)
        \/ Die(r)

SurfacesSpec == SurfacesInit /\ [][SurfacesNext]_surfaceVars

--------------------------------------------------------------------------------
(* PROPERTIES                                                                  *)

(* Type correctness, with the id a request answers with.                       *)
SurfacesTypeOK ==
    /\ objects \subseteq Request
    /\ details \in [Space -> [Key -> Request \cup {None}]]
    /\ homes \subseteq Request
    /\ request \in [Request -> [phase : Phase, space : Space \cup {None}, key : Key \cup {None},
                                answer : Request \cup {None}, created : BOOLEAN]]
    /\ \A r \in Request : request[r].phase \in Pending \cup Answering \cup {"reselect"} =>
            request[r].space \in Space /\ request[r].key \in Key

(* No orphan: an object is committed exactly with its detail row, for one space *)
(* and key, and a notebook never without its notation home.  "A lost race       *)
(* throws to roll the whole tx back (no orphan object/provenance)" (journal.ts).*)
NothingLeaks ==
    /\ objects = {o \in Request : \E s \in Space, k \in Key : details[s][k] = o}
    /\ homes = {o \in Request : \E s \in Space, k \in Slug : details[s][k] = o}
    /\ \A s, t \in Space, k, l \in Key :
            details[s][k] = details[t][l] /\ details[s][k] # None => s = t /\ k = l

(* Everyone who asked for one day or slug is answered with one object, which    *)
(* was created for at most one of them.                                        *)
AnswersAgree ==
    \A q, r \in Request :
        /\ request[q].phase \in Answering /\ request[r].phase \in Answering
        /\ request[q].space = request[r].space /\ request[q].key = request[r].key
        => /\ request[q].answer = request[r].answer
           /\ request[q].created /\ request[r].created => q = r

(* "The loser's DO NOTHING unblocks AFTER the winner commits, so the re-SELECT  *)
(* always finds it" (journal.ts): neither unreachable branch is reached.        *)
NeverVanishes == \A r \in Request : request[r].phase # "failed"

(* No transaction waits for ever: every POST is answered, or its handler died.  *)
EveryPostAnswered ==
    \A r \in Request : request[r].phase = "detail" ~> request[r].phase \in {"done", "dead"}
================================================================================
