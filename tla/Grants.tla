------------------------------- MODULE Grants -------------------------------
(***************************************************************************)
(* What the token store promises of a grant, without handlers, statements  *)
(* or refresh tokens: a grant is opened once, when somebody authorises it; *)
(* while it is open a client may be given access tokens that speak for it; *)
(* once it is closed it stays closed.  Tokens may go at any time.          *)
(***************************************************************************)
EXTENDS Naturals

VARIABLES
    open,  \* the grants that may still give tokens
    held,  \* the access tokens that clients hold
    fresh  \* the next grant's id is this one or a later one

vars == <<open, held, fresh>>

Init == open = {} /\ held = {} /\ fresh = 1

\* A token speaks for its grant's subject, with scopes of the grant.
SpeaksFor(t, g) == t.grant = g /\ t.subject = g.subject /\ t.scopes \subseteq g.scopes

\* Somebody authorises a client: a new grant.
Open ==
    /\ \E g \in open' : g.id = fresh /\ open' = open \cup {g}
    /\ fresh' > fresh /\ UNCHANGED held

\* A client gets a new token of an open grant, which may be its last.
Give ==
    /\ \E t \in held' : /\ held' = held \cup {t} /\ \A s \in held : s.id # t.id
                        /\ \E g \in open : SpeaksFor(t, g)
    /\ open' \subseteq open /\ UNCHANGED fresh

\* Grants are closed, tokens go, ids are used up.
Close == open' \subseteq open /\ held' \subseteq held /\ fresh' >= fresh

Next == Open \/ Give \/ Close

Spec == Init /\ [][Next]_vars
=============================================================================
