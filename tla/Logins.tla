------------------------------- MODULE Logins -------------------------------
(***************************************************************************)
(* What browser logins promise of an auth request, without handlers, rows  *)
(* or codes: a request is asked once; while it is open, somebody may agree *)
(* to act in it as a subject, and it may be answered with tokens of one    *)
(* who has; once it is closed it stays closed.                             *)
(***************************************************************************)
VARIABLES
    known,   \* the ids of the requests there have been
    open,    \* the requests that may still be answered
    agreed,  \* <<id, subject>>: somebody agreed to be the subject of the request
    given    \* the last answer

vars == <<known, open, agreed, given>>

Init == known = {} /\ open = {} /\ agreed = {} /\ given = {}

\* A client asks: a new request.
Ask ==
    /\ \E q \in open' : /\ q.id \notin known /\ known' = known \cup {q.id}
                        /\ open' = open \cup {q}
    /\ UNCHANGED <<agreed, given>>

\* Somebody agrees, which may settle an open request but opens none.
Agree ==
    /\ \E q \in open : \A p \in agreed' \ agreed : p[1] = q.id
    /\ agreed \subseteq agreed' /\ open' \subseteq open
    /\ UNCHANGED <<known, given>>

\* An open request is answered for a subject agreed on for this request.
Answer ==
    /\ \E q \in open, p \in agreed :
          p[1] = q.id /\ given' = {[request |-> q, subject |-> p[2]]}
    /\ open' \subseteq open /\ UNCHANGED <<known, agreed>>

\* Requests are closed, ids are used up.
Close == open' \subseteq open /\ known \subseteq known' /\ UNCHANGED <<agreed, given>>

Next == Ask \/ Agree \/ Answer \/ Close

Spec == Init /\ [][Next]_vars
=============================================================================
