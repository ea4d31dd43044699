-------------------------- MODULE MCAuthRequests --------------------------
(***************************************************************************)
(* Instances of AuthRequests for TLC: alice has a custom subject, bob's is *)
(* his row id.  Bounds: MaxChoices, over the different choices made on the *)
(* login and consent pages; MaxMissed, over the different users that were  *)
(* not found; Hint, the subjects of id_token_hints.                        *)
(***************************************************************************)
EXTENDS AuthRequests, Integers, TLC

CONSTANTS alice, bob, alicesSubject, MaxChoices, MaxMissed, Hint
MCUser == {alice, bob}
MCSubjectOf == [u \in MCUser |-> IF u = alice THEN alicesSubject ELSE u]
MCSymmetry == Permutations(Worker) \cup Permutations(Code)

MCNext ==
    /\ Next
    /\ Cardinality(chosen') + Cardinality(allowed') <= MaxChoices
    /\ Cardinality(missed') <= MaxMissed
    /\ \A i \in used' \ used : i \in RequestId => authRequests'[i].user \in Hint

MCSpec == Init /\ [][MCNext]_vars
=============================================================================
