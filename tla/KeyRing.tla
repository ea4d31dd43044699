------------------------------ MODULE KeyRing ------------------------------
(***************************************************************************)
(* What the signing keys of the provider promise, without goroutines,      *)
(* locks or a clock: keys are added to a ring and never withdrawn; while   *)
(* the provider runs it has a current key, and for each algorithm at most  *)
(* one active key, which only a rotation replaces; tokens are signed with  *)
(* keys of the ring.                                                       *)
(***************************************************************************)
CONSTANTS Alg, NoKey

VARIABLES
    ring,     \* the keys published for verification
    current,  \* the default signing key, or NoKey while the provider is down
    active,   \* the key of each algorithm, or NoKey
    signed,   \* the keys that have signed a token
    faulty    \* whether the database has failed so far

vars == <<ring, current, active, signed, faulty>>

NoneActive == [a \in Alg |-> NoKey]
Only(k) == [NoneActive EXCEPT ![k.alg] = k]

Init ==
    /\ ring = {} /\ current = NoKey /\ active = NoneActive
    /\ signed = {} /\ faulty = FALSE

\* At most one key joins the ring, and none leaves it.
Grow == \/ UNCHANGED ring
        \/ \E k \in ring' \ ring : ring' = ring \cup {k}

\* The key that joins the ring, if one does, was not made on demand.
GrowUnasked == Grow /\ \A k \in ring' \ ring : k.made # "ensure"

\* A key is stored, not yet in use.
Store == GrowUnasked /\ UNCHANGED <<current, active, signed, faulty>>

(* An algorithm without an active key gets one: a key of the ring, or a new  *)
(* one - the only one ever made on demand for it, unless the database fails. *)
Provide ==
    /\ Grow
    /\ \E k \in ring' :
          /\ active[k.alg] = NoKey /\ active' = [active EXCEPT ![k.alg] = k]
          /\ k \notin ring /\ ~faulty =>
                \A j \in ring : ~(j.made = "ensure" /\ j.alg = k.alg)
    /\ UNCHANGED <<current, signed, faulty>>

\* A rotation puts a stored key in the place of the current one.
Rotate ==
    /\ \E k \in ring :
          k.made = "rotate" /\ current' = k /\ active' = [active EXCEPT ![k.alg] = k]
    /\ UNCHANGED <<ring, signed, faulty>>

Sign ==
    /\ \E k \in ring : signed' = signed \cup {k}
    /\ UNCHANGED <<ring, current, active, faulty>>

\* A start brings one key of the ring into use, one made for it if there is none.
Start ==
    /\ current = NoKey /\ active = NoneActive /\ GrowUnasked
    /\ \E k \in ring' : /\ current' = k /\ active' = Only(k)
                        /\ ring # {} /\ k \notin ring => faulty'
    /\ UNCHANGED signed /\ (faulty => faulty')

\* A stop forgets which keys were in use.
Stop ==
    /\ current' = NoKey /\ active' = NoneActive
    /\ UNCHANGED <<ring, signed, faulty>>

Fail == faulty' = TRUE /\ UNCHANGED <<ring, current, active, signed>>

Next == Store \/ Provide \/ Rotate \/ Sign \/ Start \/ Stop \/ Fail

Spec == Init /\ [][Next]_vars
=============================================================================
