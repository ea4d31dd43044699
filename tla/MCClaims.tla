----------------------------- MODULE MCClaims -----------------------------
(* Three users, one of them with a client's id among the subjects they may   *)
(* pin; claims objects over "address" and one more name.  Of the values 1 and *)
(* 2, the first is an object, which toAddress can turn into an address.      *)
EXTENDS Subjects, Claims

CONSTANTS u1, u2, u3, app, other

Objects == UNION {[K -> {1, 2}] : K \in SUBSET {"address", "role"}}
Single == {[k \in {n} |-> v] : n \in {"address", "role"}, v \in {1, 2}}

MCToAddress == [v \in {1} |-> "six texts"]
MCCondition == [client : {AnyClient, app}, scopes : SUBSET {"profile", "address"}, claims : Single]
MCPinned == {u1, u2, app, other}

(* The two modules share no state: a behaviour is one of either. *)
MCInit == Init /\ ClaimsInit
MCNext ==
    \/ asked = NoQuestion /\ UNCHANGED claimsVars /\ Next
    \/ /\ users = [u \in UserId |-> NoUser] /\ tokens = [t \in TokenId |-> NoToken]
       /\ UNCHANGED vars /\ ClaimsNext
MCSpec == MCInit /\ [][MCNext]_<<vars, claimsVars>>
=============================================================================
