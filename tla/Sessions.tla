--------------------------------- MODULE Sessions ------------------------------
(* Sign-in and sign-out of one user: the handler of POST /api/auth/sessions,    *)
(* whose statements commit one by one, the single-active-session policy, and    *)
(* the token each client keeps.  The upsert of the user row is one atomic       *)
(* statement on a unique key and every sign-in gets the same user: it is part   *)
(* of Start.                                                                   *)
EXTENDS Integers

CONSTANTS
    Login,      \* the sign-ins; a sign-in is also the id of its session and token
    Client,     \* the browsers, with one page each
    Leaver,     \* the clients somebody signs out of: a bound
    NoToken

ASSUME SessionsAssumption == NoToken \notin Login /\ Leaver \subseteq Client

VARIABLES
    clock,      \* sign-ins started so far: the server's time
    spaces,     \* the user's spaces: created by a login, at its `now`, stored by `stored`
    sessions,   \* sessions[l]: the row of login l's session
    login,      \* login[l]: where the handler of l is, for which client
    token,      \* token[c]: what the client's auth store holds
    leaving     \* the sign-outs under way: the session left, the token sent

sessionVars == <<clock, spaces, sessions, login, token, leaving>>

(* A session ends when it is revoked or its 30 days are over.                   *)
Row == {"none", "active", "ended"}
Step == {"unused", "space", "insert", "session", "revoke", "reply", "done", "dead"}

SessionsInit ==
    /\ clock = 0
    /\ spaces = {}
    /\ sessions = [l \in Login |-> "none"]
    /\ login = [l \in Login |-> [step |-> "unused", client |-> NoToken, now |-> 0]]
    /\ token = [c \in Client |-> NoToken]
    /\ leaving = {}

InStep(l, step) == login[l].step = step
Advance(l, step) == login' = [login EXCEPT ![l].step = step]
UnderWay(l) == login[l].step \notin {"unused", "done", "dead"}

(* What findPersonalSpace may find: ORDER BY created_at LIMIT 1.                *)
PersonalSpaces == {s \in spaces : \A o \in spaces : s.now <= o.now}

ActiveSession(t) == t # NoToken /\ sessions[t] = "active"

(* The login page of a client, whose button is disabled while it is busy.       *)
Start(l, c) ==
    /\ InStep(l, "unused")
    /\ \A o \in Login : UnderWay(o) => login[o].client # c
    /\ clock' = clock + 1
    /\ login' = [login EXCEPT ![l] = [step |-> "space", client |-> c, now |-> clock + 1]]
    /\ UNCHANGED <<spaces, sessions, token, leaving>>

(* Mutant: the space is never looked up.                                        *)
FindSpaceNever(l) ==
    /\ InStep(l, "space")
    /\ Advance(l, "insert")
    /\ UNCHANGED <<clock, spaces, sessions, token, leaving>>

(* ensurePersonalSpace: a select, then an insert.                              *)
FindSpace(l) ==
    /\ InStep(l, "space")
    /\ Advance(l, IF spaces = {} THEN "insert" ELSE "session")
    /\ UNCHANGED <<clock, spaces, sessions, token, leaving>>

InsertSpace(l) ==
    /\ InStep(l, "insert")
    /\ spaces' = spaces \cup {[by |-> l, now |-> login[l].now, stored |-> clock]}
    /\ Advance(l, "session")
    /\ UNCHANGED <<clock, sessions, token, leaving>>

InsertSession(l) ==
    /\ InStep(l, "session")
    /\ sessions' = [sessions EXCEPT ![l] = "active"]
    /\ Advance(l, "revoke")
    /\ UNCHANGED <<clock, spaces, token, leaving>>

Revoked(who) ==
    [s \in Login |-> IF s \in who /\ sessions[s] = "active" THEN "ended" ELSE sessions[s]]

(* Mutant: only sessions older than the sign-in are revoked.                    *)
RevokeOlder(l) ==
    /\ InStep(l, "revoke")
    /\ sessions' = Revoked({s \in Login : login[s].now < login[l].now})
    /\ Advance(l, "reply")
    /\ UNCHANGED <<clock, spaces, token, leaving>>

(* onSessionCreate.                                                            *)
RevokeOthers(l) ==
    /\ InStep(l, "revoke")
    /\ sessions' = Revoked(Login \ {l})
    /\ Advance(l, "reply")
    /\ UNCHANGED <<clock, spaces, token, leaving>>

(* 201, and signIn on the client.                                              *)
SignIn(l) ==
    /\ InStep(l, "reply")
    /\ Advance(l, "done")
    /\ token' = [token EXCEPT ![login[l].client] = l]
    /\ UNCHANGED <<clock, spaces, sessions, leaving>>

(* A statement fails, the server dies or the reply is lost.                     *)
LoginDies(l) ==
    /\ UnderWay(l)
    /\ Advance(l, "dead")
    /\ UNCHANGED <<clock, spaces, sessions, token, leaving>>

(* The 30 days of a session are over.                                          *)
Expire(s) ==
    /\ sessions[s] = "active"
    /\ sessions' = [sessions EXCEPT ![s] = "ended"]
    /\ UNCHANGED <<clock, spaces, login, token, leaving>>

(* The sign-out link: signOut() first, then logout(), whose request reads the   *)
(* token from the store.                                                       *)
SignOut(c) ==
    /\ token[c] # NoToken
    /\ token' = [token EXCEPT ![c] = NoToken]
    /\ leaving' = leaving \cup {[client |-> c, session |-> token[c], sent |-> token'[c]]}
    /\ UNCHANGED <<clock, spaces, sessions, login>>

(* DELETE /api/auth/sessions/current; a 401 clears the store.                   *)
EndSession(x) ==
    /\ x \in leaving
    /\ leaving' = leaving \ {x}
    /\ sessions' = Revoked({x.sent})
    /\ token' = IF ActiveSession(x.sent) THEN token ELSE [token EXCEPT ![x.client] = NoToken]
    /\ UNCHANGED <<clock, spaces, login>>

HandleLogin(l) ==
    FindSpace(l) \/ InsertSpace(l) \/ InsertSession(l) \/ RevokeOthers(l) \/ SignIn(l)

SessionsNext ==
    \/ \E l \in Login : (\E c \in Client : Start(l, c)) \/ HandleLogin(l) \/ LoginDies(l) \/ Expire(l)
    \/ \E c \in Leaver : SignOut(c)
    \/ \E x \in leaving : EndSession(x)

--------------------------------------------------------------------------------
(* PROPERTIES                                                                  *)

(* Type correctness.                                                           *)
SessionsTypeOK ==
    /\ clock \in Nat
    /\ \A s \in spaces : s.by \in Login /\ s.now \in 1..clock /\ s.stored \in s.now..clock
    /\ sessions \in [Login -> Row]
    /\ \A l \in Login : /\ login[l].step \in Step
                        /\ login[l].now \in 0..clock
                        /\ login[l].now = 0 <=> InStep(l, "unused")
    /\ token \in [Client -> Login \cup {NoToken}]
    /\ \A x \in leaving : x.client \in Client /\ x.session \in Login /\ x.sent \in Login \cup {NoToken}

(* "Issue session, invalidate prior on new login" (auth.ts): of the sessions    *)
(* whose sign-in went through at most one is alive, whatever sign-ins overlap,  *)
(* fail half way or lose their reply.                                          *)
OneLiveSession ==
    \A l, o \in Login :
        /\ login[l].step \in {"reply", "done"} /\ login[o].step \in {"reply", "done"}
        /\ sessions[l] = "active" /\ sessions[o] = "active"
        => l = o

(* "Created at session exchange; absent here means a server-side invariant      *)
(* broke" (auth.ts): a session never exists before the space.                   *)
SessionHasSpace == (\E l \in Login : sessions[l] # "none") => spaces # {}

(* Two spaces only come from first sign-ins that overlapped: a sign-in started  *)
(* after the space is stored uses it.                                          *)
TwoSpacesOverlapped == \A s, o \in spaces : s.now <= o.stored
================================================================================
