--------------------------------- MODULE OneHome -------------------------------
(* One fact, one home (docs/adr/0002): every unit belongs to one object.  A    *)
(* part of an object can be captured as an object of its own, which the host   *)
(* goes on showing through an embed; it can be folded back only while nothing  *)
(* outside cites it.  What a unit says and who cites it survive every move.    *)
EXTENDS FiniteSets

CONSTANTS Unit, Object, Saying,
          Nothing       \* what a unit that is no embed shows

VARIABLES
    page,       \* the units there are: where they are and what they say or show
    live,       \* the objects there are
    captured,   \* those of them that were made by a capture
    cited       \* pairs <<citing unit, cited unit>>

vars == <<page, live, captured, cited>>

Entry == [home : Object, says : Saying, shows : Object \cup {Nothing}]

Of(o) == {u \in DOMAIN page : page[u].home = o}

TypeOK ==
    /\ DOMAIN page \subseteq Unit
    /\ page \in [DOMAIN page -> Entry]
    /\ live \subseteq Object
    /\ captured \subseteq live
    /\ \A u \in DOMAIN page : page[u].home \in live

Init ==
    /\ TypeOK
    /\ captured = {}
    /\ cited = {}

(* A save of one object: it deletes no embed, and edges to what it deletes go. *)
Write ==
    \E o \in live :
        /\ DOMAIN page' \subseteq Unit
        /\ page' \in [DOMAIN page' -> Entry]
        /\ \A u \in DOMAIN page :
              page[u].home # o \/ page[u].shows \in Object =>
                  u \in DOMAIN page' /\ page'[u] = page[u]
        /\ \A u \in DOMAIN page' : u \notin DOMAIN page \/ page'[u] # page[u] =>
              page'[u].home = o /\ page'[u].shows = Nothing
        /\ \A edge \in cited :
              edge[1] \notin Of(o) /\ edge[2] \in DOMAIN page' => edge \in cited'
        /\ \A edge \in cited' :
              /\ edge[1] \in DOMAIN page' /\ edge[2] \in DOMAIN page'
              /\ edge \in cited \/ page'[edge[1]].home = o
        /\ UNCHANGED <<live, captured>>

Capture ==
    \E h \in live, n \in Object \ live, e \in Unit \ DOMAIN page, something \in Saying :
        \E S \in SUBSET Of(h) :
            /\ S # {}
            /\ page' = [u \in DOMAIN page \cup {e} |->
                            IF u = e THEN [home |-> h, says |-> something, shows |-> n]
                            ELSE IF u \in S THEN [page[u] EXCEPT !.home = n]
                            ELSE page[u]]
            /\ live' = live \cup {n}
            /\ captured' = captured \cup {n}
            /\ UNCHANGED cited

FoldBack ==
    \E e \in DOMAIN page :
        LET d == page[e].shows
            h == page[e].home
        IN  /\ d \in live \ {h}
            /\ \A edge \in cited : edge[2] \in Of(d) => edge[1] \in Of(d)
            /\ \A edge \in cited : e \notin {edge[1], edge[2]}
            /\ page' = [u \in DOMAIN page \ {e} |->
                            IF u \in Of(d) THEN [page[u] EXCEPT !.home = h] ELSE page[u]]
            /\ live' = live \ {d}
            /\ captured' = captured \ {d}
            /\ UNCHANGED cited

(* A copy has units of its own; nothing that cites the original cites it.      *)
Copy ==
    \E o \in live, n \in Object \ live :
        /\ \E F \in SUBSET (Unit \ DOMAIN page) :
              /\ DOMAIN page' = DOMAIN page \cup F
              /\ Cardinality(F) = Cardinality(Of(o))
              /\ \A u \in F :
                    /\ page'[u].home = n
                    /\ \E v \in Of(o) : page'[u] = [page[v] EXCEPT !.home = n]
              /\ \A u \in DOMAIN page : page'[u] = page[u]
              /\ page' \in [DOMAIN page' -> Entry]
        /\ live' = live \cup {n}
        /\ UNCHANGED <<captured, cited>>

Next == Write \/ Capture \/ FoldBack \/ Copy

Spec == Init /\ [][Next]_vars

--------------------------------------------------------------------------------
(* PROPERTIES                                                                  *)

(* A citation is never left without its paragraph or without what it cites,    *)
(* however often both have moved.                                              *)
CitationsResolve ==
    \A edge \in cited : edge[1] \in DOMAIN page /\ edge[2] \in DOMAIN page

(* What was captured is shown somewhere until it is folded back.               *)
NeverOrphaned ==
    \A o \in captured : \E u \in DOMAIN page : page[u].shows = o
================================================================================
