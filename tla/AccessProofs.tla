------------------------------ MODULE AccessProofs -----------------------------
(* Proofs about Surfaces, Sessions and their composition Access, for every set *)
(* of requests, keys, sign-ins and browsers.                                   *)
(*                                                                             *)
(* Why the unique key is enough: of the transactions whose uncommitted detail  *)
(* row has one key there is at most one, and only while no committed row has   *)
(* it.  So a commit finds its key free, a loser is told of a row that is       *)
(* committed, and rows never change: everyone is answered with that row.       *)
EXTENDS Access, TLAPS

--------------------------------------------------------------------------------
(* Surfaces: the inductive invariant.                                          *)

(* The claim of an uncommitted row on its key.                                 *)
Claimed ==
    \A r \in Request : request[r].phase \in Owned =>
        /\ Detail(r) = None
        /\ Rivals(r) = {}

(* A committed row is that of a request which committed, for its space and key. *)
Minted ==
    \A s \in Space, k \in Key : details[s][k] # None =>
        LET o == details[s][k] IN
        /\ request[o].phase \notin Pending \cup {"idle", "reselect"}
        /\ request[o].space = s
        /\ request[o].key = k

Unmade ==
    \A r \in Request :
        request[r].phase \in Pending \cup {"idle", "reselect"} => ~request[r].created

Lost == \A r \in Request : request[r].phase \in {"raced", "reselect"} => Detail(r) # None

Told ==
    \A r \in Request : request[r].phase \in Answering =>
        /\ Detail(r) # None
        /\ request[r].answer = Detail(r)
        /\ request[r].created => request[r].answer = r

SurfacesInv ==
    /\ SurfacesTypeOK
    /\ Claimed
    /\ Minted
    /\ Unmade
    /\ Lost
    /\ Told
    /\ NothingLeaks
    /\ NeverVanishes

(* What the invariant is for: everyone is told the same.                       *)
LEMMA ToldTheSame == SurfacesInv => AnswersAgree
<1>. SUFFICES ASSUME SurfacesInv, NEW q \in Request, NEW r \in Request,
                     request[q].phase \in Answering, request[r].phase \in Answering,
                     request[q].space = request[r].space, request[q].key = request[r].key
              PROVE  /\ request[q].answer = request[r].answer
                     /\ request[q].created /\ request[r].created => q = r
    BY DEF AnswersAgree
<1>1. Detail(q) = Detail(r)
    BY DEF Detail
<1>. QED
    BY <1>1 DEF SurfacesInv, Told

LEMMA SurfacesInitially == SurfacesInit => SurfacesInv
<1>. SUFFICES ASSUME SurfacesInit PROVE SurfacesInv
    OBVIOUS
<1>1. \A r \in Request : request[r] = Unsent
    BY DEF SurfacesInit
<1>2. SurfacesTypeOK
    BY DEF SurfacesInit, SurfacesTypeOK, Unsent, Phase, Pending, Answering
<1>3. Claimed /\ Unmade /\ Lost /\ Told /\ NeverVanishes
    BY <1>1 DEF Claimed, Unmade, Lost, Told, NeverVanishes, Unsent, Owned, Answering
<1>4. Minted /\ NothingLeaks
    BY SurfacesAssumption DEF SurfacesInit, Minted, NothingLeaks
<1>. QED
    BY <1>2, <1>3, <1>4 DEF SurfacesInv

--------------------------------------------------------------------------------
(* A step of a handler that stores nothing.                                    *)

LEMMA StoresNothing ==
    ASSUME SurfacesInv, NEW r \in Request, Stored,
           NEW q \in [phase : Phase, space : Space \cup {None}, key : Key \cup {None},
                      answer : Request \cup {None}, created : BOOLEAN],
           Become(r, q),
           request[r].phase \in Pending \cup {"idle", "reselect"}
               => \A s \in Space, k \in Key : details[s][k] # r,
           request[r].phase \notin Pending \cup {"idle", "reselect"}
               => /\ q.phase \notin Pending \cup {"idle", "reselect"}
                  /\ q.space = request[r].space
                  /\ q.key = request[r].key,
           q.phase \in Pending \cup Answering \cup {"reselect"} => q.space \in Space /\ q.key \in Key,
           q.phase # "failed",
           q.phase \in Pending \cup {"idle", "reselect"} => ~q.created,
           q.phase \in Owned =>
               /\ details[q.space][q.key] = None
               /\ \A o \in Request \ {r} :
                    ~(request[o].phase \in Owned /\ request[o].space = q.space /\ request[o].key = q.key),
           q.phase \in {"raced", "reselect"} => details[q.space][q.key] # None,
           q.phase \in Answering =>
               /\ details[q.space][q.key] # None
               /\ q.answer = details[q.space][q.key]
               /\ q.created => q.answer = r
    PROVE  SurfacesInv'
<1>. USE DEF SurfacesInv
<1>1. /\ request' = [request EXCEPT ![r] = q]
      /\ request'[r] = q
      /\ \A o \in Request \ {r} : request'[o] = request[o]
      /\ UNCHANGED <<objects, details, homes>>
    BY DEF SurfacesTypeOK, Become, Stored
<1>2. SurfacesTypeOK'
    BY <1>1 DEF SurfacesTypeOK
<1>3. Claimed'
    <2>1. \A o \in Request : Rivals(o)' = {p \in Request \ {o} :
                                request'[p].phase \in Owned /\ request'[p].space = request'[o].space
                                /\ request'[p].key = request'[o].key}
        BY DEF Rivals, RivalsIn
    <2>. SUFFICES ASSUME NEW o \in Request, request'[o].phase \in Owned
                  PROVE  Detail(o)' = None /\ Rivals(o)' = {}
        BY DEF Claimed
    <2>2. CASE o = r
        BY <1>1, <2>1, <2>2 DEF Detail
    <2>3. CASE o # r
        <3>1. Detail(o)' = None
            BY <1>1, <2>3 DEF Claimed, Detail
        <3>2. \A p \in Request \ {o, r} : p \notin Rivals(o)'
            BY <1>1, <2>1, <2>3 DEF Claimed, Rivals, RivalsIn
        <3>3. r \notin Rivals(o)'
            BY <1>1, <2>1, <2>3
        <3>. QED
            BY <3>1, <3>2, <3>3, <2>1
    <2>. QED
        BY <2>2, <2>3
<1>4. Minted'
    BY <1>1 DEF Minted
<1>5. Unmade' /\ Lost' /\ Told'
    BY <1>1 DEF Unmade, Lost, Told, Detail
<1>6. NothingLeaks' /\ NeverVanishes'
    BY <1>1 DEF NothingLeaks, NeverVanishes
<1>. QED
    BY <1>2, <1>3, <1>4, <1>5, <1>6

RequestType ==
    [phase : Phase, space : Space \cup {None}, key : Key \cup {None},
     answer : Request \cup {None}, created : BOOLEAN]

(* What a request in a phase is known to be.                                   *)
LEMMA AboutRequest ==
    ASSUME SurfacesInv, NEW r \in Request
    PROVE  /\ request[r] \in RequestType
           /\ request[r].phase \in Pending \cup Answering \cup {"reselect"} =>
                request[r].space \in Space /\ request[r].key \in Key
           /\ request[r].phase \in Pending \cup {"idle", "reselect"} =>
                ~request[r].created /\ \A s \in Space, k \in Key : details[s][k] # r
BY SurfacesAssumption DEF SurfacesInv, SurfacesTypeOK, Minted, Unmade, RequestType

LEMMA InsertObjectKeeps ==
    ASSUME SurfacesInv, NEW r \in Request, NEW s \in Space, NEW k \in Key, InsertObject(r, s, k)
    PROVE  SurfacesInv'
<1>. DEFINE q == [Unsent EXCEPT !.phase = "detail", !.space = s, !.key = k]
<1>1. q \in RequestType /\ ~q.created /\ q.phase = "detail" /\ q.space = s /\ q.key = k
    BY DEF RequestType, Unsent, Phase, Pending
<1>2. Become(r, q) /\ Stored /\ request[r].phase = "idle"
    BY DEF InsertObject, At
<1>. HIDE DEF q
<1>. QED
    BY <1>1, <1>2, AboutRequest, StoresNothing DEF RequestType, Pending, Owned, Answering

(* A handler that only moves to another phase.                                 *)
LEMMA PhaseStep ==
    ASSUME SurfacesInv, NEW r \in Request, Stored, NEW p \in Phase,
           Become(r, [request[r] EXCEPT !.phase = p]),
           request[r].phase \notin Pending \cup {"idle", "reselect"}
               => p \notin Pending \cup {"idle", "reselect"},
           p \in Pending \cup {"reselect"} => request[r].phase \in Pending,
           p \in Answering => request[r].phase = "reread",
           p # "idle", p # "failed",
           p \in Owned /\ request[r].phase \notin Owned => Detail(r) = None /\ Rivals(r) = {},
           p \in {"raced", "reselect"} => Detail(r) # None
    PROVE  SurfacesInv'
<1>. DEFINE q == [request[r] EXCEPT !.phase = p]
<1>0. request[r] \in RequestType
    BY AboutRequest
<1>1. /\ q \in RequestType
      /\ q.phase = p /\ q.space = request[r].space /\ q.key = request[r].key
      /\ q.answer = request[r].answer /\ q.created = request[r].created
    BY <1>0 DEF RequestType
<1>2. Become(r, q)
    OBVIOUS
<1>. HIDE DEF q
<1>3. q.phase \in Owned =>
        /\ details[q.space][q.key] = None
        /\ \A o \in Request \ {r} :
             ~(request[o].phase \in Owned /\ request[o].space = q.space /\ request[o].key = q.key)
    BY <1>1 DEF SurfacesInv, Claimed, Detail, Rivals, RivalsIn
<1>4. q.phase \in Answering =>
        /\ details[q.space][q.key] # None
        /\ q.answer = details[q.space][q.key]
        /\ q.created => q.answer = r
    BY <1>1 DEF SurfacesInv, Told, Detail, Answering
<1>5. q.phase \in {"raced", "reselect"} => details[q.space][q.key] # None
    BY <1>1 DEF Detail
<1>6. q.phase \in Pending \cup Answering \cup {"reselect"} => q.space \in Space /\ q.key \in Key
    BY <1>1, AboutRequest DEF Pending, Answering
<1>. QED
    BY <1>1, <1>2, <1>3, <1>4, <1>5, <1>6, AboutRequest, StoresNothing DEF RequestType

LEMMA InsertDetailKeeps ==
    ASSUME SurfacesInv, NEW r \in Request, InsertDetail(r)
    PROVE  SurfacesInv'
<1>1. request[r].phase = "detail" /\ Rivals(r) = {} /\ Stored
    BY DEF InsertDetail, At
<1>2. CASE Detail(r) = None
    <2>1. AfterDetail(r) \in {"home", "commit"}
        BY DEF AfterDetail
    <2>2. Become(r, [request[r] EXCEPT !.phase = AfterDetail(r)])
        BY <1>2 DEF InsertDetail
    <2>. QED
        BY <1>1, <1>2, <2>1, <2>2, PhaseStep DEF Phase, Pending, Answering, Owned
<1>3. CASE Detail(r) # None
    <2>1. Become(r, [request[r] EXCEPT !.phase = "raced"])
        BY <1>3 DEF InsertDetail
    <2>. QED
        BY <1>1, <1>3, <2>1, PhaseStep DEF Phase, Pending, Answering, Owned
<1>. QED
    BY <1>2, <1>3

LEMMA InsertHomeKeeps ==
    ASSUME SurfacesInv, NEW r \in Request, InsertHome(r)
    PROVE  SurfacesInv'
<1>1. request[r].phase = "home" /\ Stored /\ Become(r, [request[r] EXCEPT !.phase = "commit"])
    BY DEF InsertHome, At
<1>. QED
    BY <1>1, PhaseStep DEF Phase, Pending, Answering, Owned

LEMMA RollBackKeeps ==
    ASSUME SurfacesInv, NEW r \in Request, RollBack(r)
    PROVE  SurfacesInv'
<1>1. request[r].phase = "raced" /\ Stored /\ Become(r, [request[r] EXCEPT !.phase = "reselect"])
    BY DEF RollBack, At
<1>2. Detail(r) # None
    BY <1>1 DEF SurfacesInv, Lost
<1>. QED
    BY <1>1, <1>2, PhaseStep DEF Phase, Pending, Answering, Owned

LEMMA ReselectKeeps ==
    ASSUME SurfacesInv, NEW r \in Request, Reselect(r)
    PROVE  SurfacesInv'
<1>. DEFINE q == [request[r] EXCEPT !.phase = "reread", !.answer = Detail(r)]
<1>1. request[r].phase = "reselect" /\ Stored
    BY DEF Reselect, At
<1>2. Detail(r) # None
    BY <1>1 DEF SurfacesInv, Lost
<1>3. Become(r, q)
    BY <1>2 DEF Reselect
<1>4. request[r] \in RequestType /\ request[r].space \in Space /\ request[r].key \in Key
    BY <1>1, AboutRequest
<1>5. Detail(r) \in Request
    BY <1>2, <1>4 DEF SurfacesInv, SurfacesTypeOK, Detail
<1>6. /\ q \in RequestType
      /\ q.phase = "reread" /\ q.space = request[r].space /\ q.key = request[r].key
      /\ q.answer = Detail(r) /\ q.created = request[r].created
    BY <1>4, <1>5 DEF RequestType, Phase, Answering
<1>7. ~request[r].created
    BY <1>1, AboutRequest
<1>. HIDE DEF q
<1>. QED
    BY <1>1, <1>2, <1>3, <1>4, <1>6, <1>7, AboutRequest, StoresNothing
    DEF RequestType, Pending, Owned, Answering, Detail

LEMMA RereadKeeps ==
    ASSUME SurfacesInv, NEW r \in Request, Reread(r)
    PROVE  SurfacesInv'
<1>1. request[r].phase = "reread" /\ Stored
    BY DEF Reread, At
<1>2. request[r].space \in Space /\ request[r].key \in Key
    BY <1>1, AboutRequest DEF Answering
<1>3. request[r].answer = Detail(r) /\ Detail(r) # None
    BY <1>1 DEF SurfacesInv, Told, Answering
<1>4. request[r].answer \in objects
    BY <1>2, <1>3 DEF SurfacesInv, NothingLeaks, SurfacesTypeOK, Detail
<1>5. Become(r, [request[r] EXCEPT !.phase = "done"])
    BY <1>4 DEF Reread
<1>. QED
    BY <1>1, <1>5, PhaseStep DEF Phase, Pending, Answering, Owned

LEMMA DieKeeps ==
    ASSUME SurfacesInv, NEW r \in Request, Die(r)
    PROVE  SurfacesInv'
<1>1. Stored /\ Become(r, [request[r] EXCEPT !.phase = "dead"])
    BY DEF Die
<1>. QED
    BY <1>1, PhaseStep DEF Phase, Pending, Answering, Owned

--------------------------------------------------------------------------------
(* The step that stores.                                                       *)

LEMMA CommitKeeps ==
    ASSUME SurfacesInv, NEW r \in Request, Commit(r)
    PROVE  SurfacesInv'
<1>. DEFINE s == request[r].space
            k == request[r].key
            q == [request[r] EXCEPT !.phase = "reread", !.answer = r, !.created = TRUE]
<1>1. request[r].phase = "commit"
    BY DEF Commit, At
<1>2. request[r] \in RequestType /\ s \in Space /\ k \in Key
    BY <1>1, AboutRequest DEF Pending
<1>3. details[s][k] = None /\ Rivals(r) = {}
    BY <1>1 DEF SurfacesInv, Claimed, Detail, Owned
<1>4. \A t \in Space, l \in Key : details[t][l] # r
    BY <1>1, AboutRequest DEF Pending
<1>5. /\ q \in RequestType
      /\ q.phase = "reread" /\ q.space = s /\ q.key = k /\ q.answer = r
    BY <1>2 DEF RequestType, Phase, Answering
<1>6. /\ request' = [request EXCEPT ![r] = q]
      /\ request'[r] = q
      /\ \A o \in Request \ {r} : request'[o] = request[o]
    BY DEF Commit, Become, SurfacesInv, SurfacesTypeOK
<1>7. /\ details' \in [Space -> [Key -> Request \cup {None}]]
      /\ \A t \in Space, l \in Key :
            details'[t][l] = IF t = s /\ l = k THEN r ELSE details[t][l]
    BY <1>2 DEF Commit, SurfacesInv, SurfacesTypeOK
<1>8. /\ objects' = objects \cup {r}
      /\ homes' = IF k \in Slug THEN homes \cup {r} ELSE homes
    BY DEF Commit
<1>9. r # None
    BY SurfacesAssumption
<1>. HIDE DEF s, k, q
<1>10. SurfacesTypeOK'
    BY <1>2, <1>5, <1>6, <1>7, <1>8 DEF SurfacesInv, SurfacesTypeOK, RequestType
<1>11. Claimed'
    <2>1. \A o \in Request : Rivals(o)' = {p \in Request \ {o} :
                                request'[p].phase \in Owned /\ request'[p].space = request'[o].space
                                /\ request'[p].key = request'[o].key}
        BY DEF Rivals, RivalsIn
    <2>. SUFFICES ASSUME NEW o \in Request, request'[o].phase \in Owned
                  PROVE  Detail(o)' = None /\ Rivals(o)' = {}
        BY DEF Claimed
    <2>2. o # r /\ request'[o] = request[o]
        BY <1>5, <1>6 DEF Owned
    <2>3. Detail(o) = None /\ Rivals(o) = {}
        BY <2>2 DEF SurfacesInv, Claimed
    <2>4. request[o].space \in Space /\ request[o].key \in Key
        BY <2>2, AboutRequest DEF Owned, Pending
    <2>5. ~(request[o].space = s /\ request[o].key = k)
        BY <1>3, <2>2 DEF Rivals, RivalsIn, s, k
    <2>6. Detail(o)' = None
        BY <1>7, <2>2, <2>3, <2>4, <2>5 DEF Detail
    <2>7. \A p \in Request \ {o} : p \notin Rivals(o)'
        BY <1>5, <1>6, <2>1, <2>2, <2>3 DEF Rivals, RivalsIn, Owned
    <2>. QED
        BY <2>1, <2>6, <2>7
<1>12. Minted'
    BY <1>2, <1>3, <1>5, <1>6, <1>7, <1>9 DEF SurfacesInv, Minted, SurfacesTypeOK, Pending, s, k
<1>13. Lost'
    <2>. SUFFICES ASSUME NEW o \in Request, request'[o].phase \in {"raced", "reselect"}
                  PROVE  Detail(o)' # None
        BY DEF Lost
    <2>1. o # r /\ request'[o] = request[o]
        BY <1>5, <1>6
    <2>2. request[o].space \in Space /\ request[o].key \in Key
        BY <2>1, AboutRequest DEF Pending
    <2>. QED
        BY <1>7, <1>9, <2>1, <2>2 DEF SurfacesInv, Lost, Detail
<1>14. Told'
    <2>. SUFFICES ASSUME NEW o \in Request, request'[o].phase \in Answering
                  PROVE  /\ Detail(o)' # None
                         /\ request'[o].answer = Detail(o)'
                         /\ request'[o].created => request'[o].answer = o
        BY DEF Told
    <2>1. CASE o = r
        BY <1>2, <1>5, <1>6, <1>7, <1>9, <2>1 DEF Detail
    <2>2. CASE o # r
        <3>1. request'[o] = request[o]
            BY <1>6, <2>2
        <3>2. request[o].space \in Space /\ request[o].key \in Key
            BY <3>1, AboutRequest
        <3>3. Detail(o) # None /\ request[o].answer = Detail(o) /\ (request[o].created => request[o].answer = o)
            BY <3>1 DEF SurfacesInv, Told
        <3>4. Detail(o)' = Detail(o)
            BY <1>3, <1>7, <3>1, <3>2, <3>3 DEF Detail
        <3>. QED
            BY <3>1, <3>3, <3>4
    <2>. QED
        BY <2>1, <2>2
<1>15. NothingLeaks'
    <2>1. objects' = {o \in Request : \E t \in Space, l \in Key : details'[t][l] = o}
        BY <1>2, <1>3, <1>7, <1>8, SurfacesAssumption DEF SurfacesInv, NothingLeaks
    <2>2. homes' = {o \in Request : \E t \in Space, l \in Slug : details'[t][l] = o}
        BY <1>2, <1>3, <1>7, <1>8, SurfacesAssumption DEF SurfacesInv, NothingLeaks
    <2>3. \A t, u \in Space, l, m \in Key :
            details'[t][l] = details'[u][m] /\ details'[t][l] # None => t = u /\ l = m
        BY <1>4, <1>7 DEF SurfacesInv, NothingLeaks
    <2>. QED
        BY <2>1, <2>2, <2>3 DEF NothingLeaks
<1>16. NeverVanishes'
    BY <1>5, <1>6 DEF SurfacesInv, NeverVanishes
<1>17. Unmade'
    BY <1>5, <1>6 DEF SurfacesInv, Unmade, Pending
<1>. QED
    BY <1>10, <1>11, <1>12, <1>13, <1>17, <1>14, <1>15, <1>16 DEF SurfacesInv

LEMMA SurfacesStep == SurfacesInv /\ [SurfacesNext]_surfaceVars => SurfacesInv'
<1>. SUFFICES ASSUME SurfacesInv, [SurfacesNext]_surfaceVars PROVE SurfacesInv'
    OBVIOUS
<1>1. CASE UNCHANGED surfaceVars
    BY <1>1
    DEF surfaceVars, SurfacesInv, SurfacesTypeOK, Claimed, Minted, Unmade, Lost, Told,
        NothingLeaks, NeverVanishes, Detail, Rivals, RivalsIn
<1>2. ASSUME NEW r \in Request, NEW s \in Space, NEW k \in Key, InsertObject(r, s, k)
      PROVE  SurfacesInv'
    BY <1>2, InsertObjectKeeps
<1>3. ASSUME NEW r \in Request, Handle(r) PROVE SurfacesInv'
    <2>1. CASE InsertDetail(r)
        BY <2>1, InsertDetailKeeps
    <2>2. CASE InsertHome(r)
        BY <2>2, InsertHomeKeeps
    <2>3. CASE Commit(r)
        BY <2>3, CommitKeeps
    <2>4. CASE RollBack(r)
        BY <2>4, RollBackKeeps
    <2>5. CASE Reselect(r)
        BY <2>5, ReselectKeeps
    <2>6. CASE Reread(r)
        BY <2>6, RereadKeeps
    <2>. QED
        BY <1>3, <2>1, <2>2, <2>3, <2>4, <2>5, <2>6 DEF Handle
<1>4. ASSUME NEW r \in Request, Die(r) PROVE SurfacesInv'
    BY <1>4, DieKeeps
<1>. QED
    BY <1>1, <1>2, <1>3, <1>4 DEF SurfacesNext

(* The get-or-create of POST /api/journal/days and POST /api/notebooks keeps   *)
(* the invariant: keys are claimed by one transaction, rows never change, and  *)
(* who asked is told of the row.                                               *)
THEOREM SurfacesInvariant == SurfacesSpec => []SurfacesInv
<1>. QED
    BY SurfacesInitially, SurfacesStep, PTL DEF SurfacesSpec

--------------------------------------------------------------------------------
(* Sessions: the inductive invariant.                                          *)

(* A sign-in about to insert a space saw none: the spaces stored since are no  *)
(* older than it.                                                              *)
SawNoSpace ==
    \A l \in Login : login[l].step = "insert" =>
        \A o \in spaces : login[l].now <= o.stored

(* A sign-in past the space, or with a session, has a space.                   *)
SpaceFirst ==
    \A l \in Login :
        login[l].step \in {"session", "revoke", "reply", "done"} \/ sessions[l] # "none"
            => spaces # {}

LoginType == [step : Step, client : Client \cup {NoToken}, now : Nat]

SessionsInv ==
    /\ SessionsTypeOK
    /\ login \in [Login -> LoginType]
    /\ SawNoSpace
    /\ SpaceFirst
    /\ OneLiveSession
    /\ TwoSpacesOverlapped

LEMMA SessionsInitially == SessionsInit => SessionsInv
<1>. SUFFICES ASSUME SessionsInit PROVE SessionsInv
    OBVIOUS
<1>1. login \in [Login -> LoginType]
    BY DEF SessionsInit, LoginType, Step
<1>2. SessionsTypeOK
    BY DEF SessionsInit, SessionsTypeOK, Row, Step, InStep
<1>3. SawNoSpace /\ SpaceFirst /\ OneLiveSession /\ TwoSpacesOverlapped
    BY DEF SessionsInit, SawNoSpace, SpaceFirst, OneLiveSession, TwoSpacesOverlapped
<1>. QED
    BY <1>1, <1>2, <1>3 DEF SessionsInv

LEMMA SessionsStep == SessionsInv /\ [SessionsNext]_sessionVars => SessionsInv'
<1>. SUFFICES ASSUME SessionsInv, [SessionsNext]_sessionVars PROVE SessionsInv'
    OBVIOUS
<1>. USE DEF SessionsInv, InStep
<1>1. CASE UNCHANGED sessionVars
    BY <1>1
    DEF sessionVars, SessionsTypeOK, SawNoSpace, SpaceFirst, OneLiveSession, TwoSpacesOverlapped
<1>2. ASSUME NEW l \in Login, NEW c \in Client, Start(l, c) PROVE SessionsInv'
    <2>1. /\ login' \in [Login -> LoginType]
          /\ login'[l] = [step |-> "space", client |-> c, now |-> clock + 1]
          /\ \A o \in Login \ {l} : login'[o] = login[o]
        BY <1>2 DEF Start, LoginType, Step, SessionsTypeOK
    <2>2. clock' = clock + 1 /\ UNCHANGED <<spaces, sessions, token, leaving>>
        BY <1>2 DEF Start
    <2>3. SessionsTypeOK'
        BY <2>1, <2>2 DEF SessionsTypeOK, Step
    <2>. QED
        BY <2>1, <2>2, <2>3 DEF SawNoSpace, SpaceFirst, OneLiveSession, TwoSpacesOverlapped
<1>3. ASSUME NEW l \in Login, HandleLogin(l) \/ LoginDies(l) PROVE SessionsInv'
    <2>0. \A step \in Step : Advance(l, step) =>
            /\ login' \in [Login -> LoginType]
            /\ login'[l].step = step
            /\ \A o \in Login : login'[o].now = login[o].now /\ login'[o].client = login[o].client
            /\ \A o \in Login \ {l} : login'[o] = login[o]
        BY DEF Advance, LoginType
    <2>1. CASE FindSpace(l)
        <3>1. PICK step \in {"insert", "session"} :
                Advance(l, step) /\ (step = "insert" <=> spaces = {})
            BY <2>1 DEF FindSpace
        <3>2. step \in Step /\ login[l].step = "space"
            BY <2>1 DEF Step, FindSpace
        <3>3. UNCHANGED <<clock, spaces, sessions, token, leaving>>
            BY <2>1 DEF FindSpace
        <3>4. SessionsTypeOK'
            BY <2>0, <3>1, <3>2, <3>3 DEF SessionsTypeOK
        <3>. QED
            BY <2>0, <3>1, <3>2, <3>3, <3>4 DEF SawNoSpace, SpaceFirst, OneLiveSession, TwoSpacesOverlapped
    <2>2. CASE InsertSpace(l)
        <3>. DEFINE new == [by |-> l, now |-> login[l].now, stored |-> clock]
        <3>1. Advance(l, "session") /\ "session" \in Step /\ login[l].step = "insert"
            BY <2>2 DEF InsertSpace, InStep, Step
        <3>2. spaces' = spaces \cup {new} /\ UNCHANGED <<clock, sessions, token, leaving>>
            BY <2>2 DEF InsertSpace
        <3>3. login[l].now \in 1..clock
            BY <3>1 DEF SessionsTypeOK, InStep
        <3>4. SessionsTypeOK'
            BY <2>0, <3>1, <3>2, <3>3 DEF SessionsTypeOK
        <3>5. SawNoSpace'
            BY <2>0, <3>1, <3>2, <3>3 DEF SawNoSpace, SessionsTypeOK
        <3>6. TwoSpacesOverlapped'
            BY <3>1, <3>2, <3>3 DEF TwoSpacesOverlapped, SessionsTypeOK, SawNoSpace
        <3>7. SpaceFirst' /\ OneLiveSession'
            BY <2>0, <3>1, <3>2 DEF SpaceFirst, OneLiveSession
        <3>. QED
            BY <2>0, <3>1, <3>4, <3>5, <3>6, <3>7
    <2>3. CASE InsertSession(l)
        <3>1. Advance(l, "revoke") /\ "revoke" \in Step /\ login[l].step = "session"
            BY <2>3 DEF InsertSession, InStep, Step
        <3>2. /\ sessions' = [sessions EXCEPT ![l] = "active"]
              /\ UNCHANGED <<clock, spaces, token, leaving>>
            BY <2>3 DEF InsertSession
        <3>3. SessionsTypeOK'
            BY <2>0, <3>1, <3>2 DEF SessionsTypeOK, Row
        <3>. QED
            BY <2>0, <3>1, <3>2, <3>3
            DEF SawNoSpace, SpaceFirst, OneLiveSession, TwoSpacesOverlapped, SessionsTypeOK
    <2>4. CASE RevokeOthers(l)
        <3>1. Advance(l, "reply") /\ "reply" \in Step /\ login[l].step = "revoke"
            BY <2>4 DEF RevokeOthers, InStep, Step
        <3>2. sessions' = Revoked(Login \ {l}) /\ UNCHANGED <<clock, spaces, token, leaving>>
            BY <2>4 DEF RevokeOthers
        <3>3. SessionsTypeOK'
            BY <2>0, <3>1, <3>2 DEF SessionsTypeOK, Row, Revoked
        <3>4. \A o \in Login \ {l} : sessions'[o] # "active"
            BY <3>2 DEF Revoked
        <3>. QED
            BY <2>0, <3>1, <3>2, <3>3, <3>4
            DEF SawNoSpace, SpaceFirst, OneLiveSession, TwoSpacesOverlapped, SessionsTypeOK, Revoked
    <2>5. CASE SignIn(l)
        <3>1. Advance(l, "done") /\ "done" \in Step /\ login[l].step = "reply"
            BY <2>5 DEF SignIn, InStep, Step
        <3>2. token' = [token EXCEPT ![login[l].client] = l] /\ UNCHANGED <<clock, spaces, sessions, leaving>>
            BY <2>5 DEF SignIn
        <3>3. SessionsTypeOK'
            <4>1. token' \in [Client -> Login \cup {NoToken}]
                BY <2>0, <3>2 DEF SessionsTypeOK
            <4>. QED BY <2>0, <3>1, <3>2, <4>1 DEF SessionsTypeOK
        <3>. QED
            BY <2>0, <3>1, <3>2, <3>3 DEF SawNoSpace, SpaceFirst, OneLiveSession, TwoSpacesOverlapped
    <2>6. CASE LoginDies(l)
        <3>1. Advance(l, "dead") /\ "dead" \in Step /\ login[l].step # "unused"
              /\ UNCHANGED <<clock, spaces, sessions, token, leaving>>
            BY <2>6 DEF LoginDies, UnderWay, Step
        <3>2. SessionsTypeOK'
            BY <2>0, <3>1 DEF SessionsTypeOK
        <3>. QED
            BY <2>0, <3>1, <3>2 DEF SawNoSpace, SpaceFirst, OneLiveSession, TwoSpacesOverlapped
    <2>. QED
        BY <1>3, <2>1, <2>2, <2>3, <2>4, <2>5, <2>6 DEF HandleLogin
<1>4. ASSUME UNCHANGED <<clock, spaces, login>>,
             NEW who \in SUBSET (Login \cup {NoToken}), sessions' = Revoked(who),
             token' \in [Client -> Login \cup {NoToken}],
             leaving' \subseteq leaving
      PROVE  SessionsInv'
    BY <1>4
    DEF SessionsTypeOK, Row, Revoked, SawNoSpace, SpaceFirst, OneLiveSession, TwoSpacesOverlapped
<1>5. ASSUME NEW l \in Login, Expire(l) PROVE SessionsInv'
    BY <1>5 DEF Expire, SessionsTypeOK, Row, SawNoSpace, SpaceFirst, OneLiveSession, TwoSpacesOverlapped
<1>6. ASSUME NEW c \in Leaver, SignOut(c) PROVE SessionsInv'
    BY <1>6, SessionsAssumption
    DEF SignOut, SessionsTypeOK, SawNoSpace, SpaceFirst, OneLiveSession, TwoSpacesOverlapped
<1>7. ASSUME NEW x \in leaving, EndSession(x) PROVE SessionsInv'
    BY <1>4, <1>7 DEF EndSession, SessionsTypeOK
<1>. QED
    BY <1>1, <1>2, <1>3, <1>5, <1>6, <1>7 DEF SessionsNext

--------------------------------------------------------------------------------
(* Access: the composition.                                                    *)

(* The 500 of requireSession, a session without a space.                       *)
NoneBroken ==
    \A r \in Request : /\ call[r].at # "broken"
                       /\ call[r].at = "resolve" => spaces # {}

AccessInv ==
    /\ TypeOK
    /\ SessionsInv
    /\ SurfacesInv
    /\ NoneBroken

LEMMA AccessInitially == Init => AccessInv
<1>. SUFFICES ASSUME Init PROVE AccessInv
    OBVIOUS
<1>1. SessionsInv /\ SurfacesInv
    BY SessionsInitially, SurfacesInitially DEF Init
<1>2. Uncalled \in Call /\ Uncalled.at = "unsent"
    BY DEF Uncalled, Call
<1>3. \A r \in Request : call[r] = Uncalled /\ request[r].phase = "idle"
    BY DEF Init, SurfacesInit, Unsent
<1>4. TypeOK
    BY <1>1, <1>2, <1>3 DEF Init, TypeOK, SessionsInv, SurfacesInv
<1>. QED
    BY <1>1, <1>2, <1>3, <1>4 DEF AccessInv, NoneBroken

LEMMA SpacesGrow == [SessionsNext]_sessionVars => spaces \subseteq spaces'
BY DEF SessionsNext, sessionVars, Start, HandleLogin, FindSpace, InsertSpace, InsertSession,
       RevokeOthers, SignIn, LoginDies, Expire, SignOut, EndSession

(* The token of a browser may be forgotten at any time.                        *)
LEMMA TokenForgotten ==
    ASSUME SessionsInv, UNCHANGED <<clock, spaces, sessions, login, leaving>>,
           token' \in [Client -> Login \cup {NoToken}]
    PROVE  SessionsInv'
BY DEF SessionsInv, SessionsTypeOK, InStep, SawNoSpace, SpaceFirst, OneLiveSession, TwoSpacesOverlapped

LEMMA SurfacesStutter == SurfacesInv /\ UNCHANGED surfaceVars => SurfacesInv'
BY SurfacesStep

LEMMA SessionsStutter == SessionsInv /\ UNCHANGED sessionVars => SessionsInv'
BY SessionsStep

(* A handler of a surface does not return to its beginning.                    *)
LEMMA StaysBegun ==
    ASSUME SurfacesTypeOK, NEW r \in Request, Handle(r) \/ Die(r)
    PROVE  /\ request[r].phase # "idle"
           /\ \A o \in Request : (request'[o].phase = "idle") <=> (request[o].phase = "idle")
<1>1. request[r] \in RequestType /\ request \in [Request -> RequestType]
    BY DEF SurfacesTypeOK, RequestType
<1>2. request[r].phase # "idle"
    BY DEF Handle, Die, InsertDetail, InsertHome, Commit, RollBack, Reselect, Reread, At, Pending
<1>3. request'[r].phase # "idle" /\ \A o \in Request \ {r} : request'[o] = request[o]
    <2>1. CASE InsertDetail(r)
        BY <1>1, <2>1 DEF InsertDetail, AfterDetail, Become, RequestType
    <2>2. CASE InsertHome(r) \/ RollBack(r) \/ Reread(r) \/ Die(r)
        BY <1>1, <2>2 DEF InsertHome, RollBack, Reread, Die, Become, RequestType
    <2>3. CASE Commit(r)
        BY <1>1, <2>3 DEF Commit, Become, RequestType
    <2>4. CASE Reselect(r)
        BY <1>1, <2>4 DEF Reselect, Become, RequestType
    <2>. QED
        BY <2>1, <2>2, <2>3, <2>4 DEF Handle
<1>. QED
    BY <1>2, <1>3

LEMMA AccessStep == AccessInv /\ [Next]_vars => AccessInv' /\ [SurfacesNext]_surfaceVars
<1>. SUFFICES ASSUME AccessInv, [Next]_vars PROVE AccessInv' /\ [SurfacesNext]_surfaceVars
    OBVIOUS
<1>. USE DEF AccessInv
<1>1. CASE UNCHANGED vars
    <2>1. SurfacesInv' /\ SessionsInv'
        BY <1>1, SurfacesStutter, SessionsStutter DEF vars
    <2>. QED
        BY <1>1, <2>1 DEF vars, sessionVars, surfaceVars, TypeOK, NoneBroken, SessionsInv, SurfacesInv
<1>2. CASE SessionsNext /\ UNCHANGED <<surfaceVars, call>>
    <2>1. SurfacesInv' /\ SessionsInv'
        BY <1>2, SurfacesStutter, SessionsStep
    <2>2. spaces \subseteq spaces'
        BY <1>2, SpacesGrow
    <2>. QED
        BY <1>2, <2>1, <2>2 DEF surfaceVars, TypeOK, NoneBroken, SessionsInv, SurfacesInv
<1>3. ASSUME NEW r \in Request, NEW c \in Client, NEW k \in Key, Submit(r, c, k)
      PROVE  AccessInv' /\ [SurfacesNext]_surfaceVars
    <2>1. SurfacesInv' /\ SessionsInv'
        BY <1>3, SurfacesStutter, SessionsStutter DEF Submit
    <2>2. token[c] \in Login \cup {NoToken}
        BY DEF SessionsInv, SessionsTypeOK
    <2>3. [at |-> "check", client |-> c, bearer |-> token[c], key |-> k] \in Call
        BY <2>2 DEF Call
    <2>. QED
        BY <1>3, <2>1, <2>3 DEF Submit, sessionVars, surfaceVars, TypeOK, NoneBroken, SessionsInv, SurfacesInv
<1>4. ASSUME NEW r \in Request, CheckSession(r)
      PROVE  AccessInv' /\ [SurfacesNext]_surfaceVars
    <2>1. call[r] \in Call /\ call[r].at = "check" /\ call[r].key \in Key
        BY <1>4 DEF CheckSession, TypeOK
    <2>2. UNCHANGED surfaceVars /\ UNCHANGED <<clock, spaces, sessions, login, leaving>>
        BY <1>4 DEF CheckSession
    <2>3. token' \in [Client -> Login \cup {NoToken}]
        BY <1>4 DEF CheckSession, SessionsInv, SessionsTypeOK
    <2>4. SurfacesInv' /\ SessionsInv'
        BY <2>2, <2>3, SurfacesStutter, TokenForgotten
    <2>5. CASE ActiveSession(call[r].bearer)
        <3>1. call' = [call EXCEPT ![r] = [Uncalled EXCEPT !.at = "resolve", !.key = call[r].key]]
            BY <1>4, <2>5 DEF CheckSession
        <3>2. [Uncalled EXCEPT !.at = "resolve", !.key = call[r].key] \in Call
            BY <2>1 DEF Uncalled, Call
        <3>3. spaces # {}
            BY <2>1, <2>5 DEF ActiveSession, Call, SessionsInv, SpaceFirst
        <3>4. TypeOK' /\ NoneBroken'
            BY <2>1, <2>2, <2>4, <3>1, <3>2, <3>3 DEF TypeOK, NoneBroken, SessionsInv, SurfacesInv, surfaceVars, Uncalled
        <3>. QED
            BY <2>2, <2>4, <3>4
    <2>6. CASE ~ActiveSession(call[r].bearer)
        <3>1. call' = [call EXCEPT ![r] = [Uncalled EXCEPT !.at = "refused"]]
            BY <1>4, <2>6 DEF CheckSession
        <3>2. [Uncalled EXCEPT !.at = "refused"] \in Call
            BY DEF Uncalled, Call
        <3>3. TypeOK' /\ NoneBroken'
            BY <2>1, <2>2, <2>4, <3>1, <3>2 DEF TypeOK, NoneBroken, SessionsInv, SurfacesInv, surfaceVars, Uncalled
        <3>. QED
            BY <2>2, <2>4, <3>3
    <2>. QED
        BY <2>5, <2>6
<1>5. ASSUME NEW r \in Request, Resolve(r)
      PROVE  AccessInv' /\ [SurfacesNext]_surfaceVars
    <2>1. call[r] \in Call /\ call[r].at = "resolve" /\ call[r].key \in Key /\ spaces # {}
        BY <1>5 DEF Resolve, TypeOK, NoneBroken
    <2>2. PICK s \in PersonalSpaces : InsertObject(r, s.by, call[r].key)
        BY <1>5, <2>1 DEF Resolve
    <2>3. s.by \in Space
        BY <2>2, AccessAssumption DEF PersonalSpaces, SessionsInv, SessionsTypeOK
    <2>4. SurfacesNext
        BY <2>1, <2>2, <2>3 DEF SurfacesNext
    <2>5. SurfacesInv' /\ SessionsInv'
        BY <1>5, <2>4, SurfacesStep, SessionsStutter DEF Resolve
    <2>6. /\ call' = [call EXCEPT ![r].at = "begun"]
          /\ UNCHANGED sessionVars
        BY <1>5, <2>1 DEF Resolve
    <2>7. /\ request'[r].phase = "detail"
          /\ \A o \in Request \ {r} : request'[o] = request[o]
        BY <2>2 DEF InsertObject, Become, Unsent, SurfacesInv, SurfacesTypeOK
    <2>8. TypeOK' /\ NoneBroken'
        BY <2>1, <2>5, <2>6, <2>7 DEF TypeOK, NoneBroken, SessionsInv, SurfacesInv, sessionVars, Call
    <2>. QED
        BY <2>4, <2>5, <2>8
<1>6. ASSUME NEW r \in Request, Handle(r) \/ Die(r), UNCHANGED <<sessionVars, call>>
      PROVE  AccessInv' /\ [SurfacesNext]_surfaceVars
    <2>1. SurfacesNext
        BY <1>6 DEF SurfacesNext
    <2>2. SurfacesInv' /\ SessionsInv'
        BY <1>6, <2>1, SurfacesStep, SessionsStutter
    <2>3. \A o \in Request : (request'[o].phase = "idle") <=> (request[o].phase = "idle")
        BY <1>6, StaysBegun DEF TypeOK
    <2>. QED
        BY <1>6, <2>1, <2>2, <2>3 DEF TypeOK, NoneBroken, SessionsInv, SurfacesInv, sessionVars
<1>. QED
    BY <1>1, <1>2, <1>3, <1>4, <1>5, <1>6 DEF Next, HandleCall

LEMMA AccessInvariant == Spec => []AccessInv
BY AccessInitially, AccessStep, PTL DEF Spec

(* The composition implements the get-or-create on its own: whatever the       *)
(* sessions do, a step of Access makes at most one step of Surfaces.           *)
THEOREM AccessImplementsSurfaces == Spec => SurfacesSpec
<1>1. Init => SurfacesInit
    BY DEF Init
<1>. QED
    BY <1>1, AccessInitially, AccessStep, PTL DEF Spec, SurfacesSpec

(* The tables, the handlers, the tokens and the calls have their types, and a  *)
(* surface is being made exactly for the calls that passed the session check.  *)
THEOREM AccessTypes == Spec => []TypeOK
<1>1. AccessInv => TypeOK
    BY DEF AccessInv
<1>. QED
    BY <1>1, AccessInvariant, PTL

(* onSessionCreate: of the sign-ins that went through at most one is alive,    *)
(* though the session and the revocation are two statements.                   *)
THEOREM AccessOneLiveSession == Spec => []OneLiveSession
<1>1. AccessInv => OneLiveSession
    BY DEF AccessInv, SessionsInv
<1>. QED
    BY <1>1, AccessInvariant, PTL

(* A session never exists before the space, wherever a sign-in stops.          *)
THEOREM AccessSessionHasSpace == Spec => []SessionHasSpace
<1>1. AccessInv => SessionHasSpace
    BY DEF AccessInv, SessionsInv, SpaceFirst, SessionHasSpace
<1>. QED
    BY <1>1, AccessInvariant, PTL

(* requireSession never fails for want of a space.                             *)
THEOREM AccessNoneBroken == Spec => []NoneBroken
<1>1. AccessInv => NoneBroken
    BY DEF AccessInv
<1>. QED
    BY <1>1, AccessInvariant, PTL

(* Only first sign-ins that overlap make a second space.                       *)
THEOREM AccessTwoSpacesOverlapped == Spec => []TwoSpacesOverlapped
<1>1. AccessInv => TwoSpacesOverlapped
    BY DEF AccessInv, SessionsInv
<1>. QED
    BY <1>1, AccessInvariant, PTL

(* No race leaves an orphaned object or a notebook without its home.           *)
THEOREM AccessNothingLeaks == Spec => []NothingLeaks
<1>1. SurfacesInv => NothingLeaks
    BY DEF SurfacesInv
<1>. QED
    BY <1>1, AccessImplementsSurfaces, SurfacesInvariant, PTL

(* Everyone who asks for a day or a notebook is told the same object.          *)
THEOREM AccessAnswersAgree == Spec => []AnswersAgree
<1>. QED
    BY ToldTheSame, AccessImplementsSurfaces, SurfacesInvariant, PTL

(* The branches the code calls unreachable are: the loser of a race finds the  *)
(* winner.                                                                     *)
THEOREM AccessNeverVanishes == Spec => []NeverVanishes
<1>1. SurfacesInv => NeverVanishes
    BY DEF SurfacesInv
<1>. QED
    BY <1>1, AccessImplementsSurfaces, SurfacesInvariant, PTL
================================================================================
