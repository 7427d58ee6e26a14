---------------------------------- MODULE Access -------------------------------
(* Sessions and Surfaces together: a POST carries the token its client held,    *)
(* requireSession turns the token into the user's personal space, and the       *)
(* surface is made there.  The check, the space and the transaction are three   *)
(* steps, between which sessions come and go.                                  *)
EXTENDS Sessions, Surfaces

VARIABLE
    call        \* call[r]: the client and the token sent, until they are checked

vars == <<sessionVars, surfaceVars, call>>

ASSUME AccessAssumption == Space = Login   \* a space has the name of the sign-in that made it

Uncalled == [at |-> "unsent", client |-> NoToken, bearer |-> NoToken, key |-> None]

Init ==
    /\ SessionsInit
    /\ SurfacesInit
    /\ call = [r \in Request |-> Uncalled]

Submit(r, c, k) ==
    /\ call[r].at = "unsent"
    /\ token[c] # NoToken
    /\ call' = [call EXCEPT ![r] = [at |-> "check", client |-> c, bearer |-> token[c], key |-> k]]
    /\ UNCHANGED <<sessionVars, surfaceVars>>

(* findActiveSession; a 401 clears the client's store, whatever it holds now.   *)
CheckSession(r) ==
    /\ call[r].at = "check"
    /\ IF ActiveSession(call[r].bearer)
       THEN /\ call' = [call EXCEPT ![r] = [Uncalled EXCEPT !.at = "resolve", !.key = call[r].key]]
            /\ UNCHANGED token
       ELSE /\ call' = [call EXCEPT ![r] = [Uncalled EXCEPT !.at = "refused"]]
            /\ token' = [token EXCEPT ![call[r].client] = NoToken]
    /\ UNCHANGED <<clock, spaces, sessions, login, leaving, surfaceVars>>

(* findPersonalSpace, whose absence is a 500; then the transaction begins.      *)
Resolve(r) ==
    /\ call[r].at = "resolve"
    /\ IF spaces = {}
       THEN /\ call' = [call EXCEPT ![r].at = "broken"]
            /\ UNCHANGED surfaceVars
       ELSE /\ call' = [call EXCEPT ![r].at = "begun"]
            /\ \E s \in PersonalSpaces : InsertObject(r, s.by, call[r].key)
    /\ UNCHANGED sessionVars

HandleCall(r) == CheckSession(r) \/ Resolve(r) \/ (Handle(r) /\ UNCHANGED <<sessionVars, call>>)

Next ==
    \/ SessionsNext /\ UNCHANGED <<surfaceVars, call>>
    \/ \E r \in Request :
        \/ \E c \in Client, k \in Key : Submit(r, c, k)
        \/ HandleCall(r)
        \/ Die(r) /\ UNCHANGED <<sessionVars, call>>

Spec == Init /\ [][Next]_vars

(* The server gets on with what it was sent: the handlers run in one event      *)
(* loop over a database that answers.                                          *)
FairSpec == Spec /\ \A r \in Request : WF_vars(HandleCall(r))

Call ==
    [at : {"unsent", "check", "refused", "resolve", "broken", "begun"},
     client : Client \cup {NoToken}, bearer : Login \cup {NoToken}, key : Key \cup {None}]

(* Type correctness of the three parts; a call has begun exactly when its       *)
(* surface is being made.                                                      *)
TypeOK ==
    /\ SessionsTypeOK
    /\ SurfacesTypeOK
    /\ call \in [Request -> Call]
    /\ \A r \in Request : /\ call[r].at \in {"check", "resolve"} => call[r].key \in Key
                          /\ call[r].at = "begun" <=> request[r].phase # "idle"
================================================================================
