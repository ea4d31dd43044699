---------------------------- MODULE MCProtocol ----------------------------
(* Two client ids; a client may be plain, pinned to an algorithm, or failing. *)
EXTENDS Protocol, TLC

CONSTANTS c1, c2, ES256, t1, t2, w1, w2

Plain == [error |-> FALSE, alg |-> NoAlg, password |-> TRUE]
Pinned == [error |-> FALSE, alg |-> ES256, password |-> FALSE]
Failing == [error |-> TRUE, alg |-> ES256, password |-> TRUE]

MCConfig == {Plain, Pinned, Failing}
MCInitialClients == c1 :> Plain @@ c2 :> NoClient
MCEntry == 1..MaxRequests
TabSymmetry == Permutations({t1, t2})

(* Requests share nothing but the log, which the admin does not touch: it is *)
(* enough that they overlap, and end in another order than they began, where *)
(* the admin changes nothing, and that one of them runs where he does.       *)
InOrder == \A k, l \in DOMAIN ended : k < l => ended[k] < ended[l]
Overlapping == \/ pc[w2] # "idle" \/ ~InOrder
               \/ pc[w1] # "idle" /\ job[w1].req < arrived
Changed == opened > 0 \/ saves > 0 \/ removed # {}


(* A request carries the id of c1, or two ids: its middlewares see c2, or    *)
(* none at all, and c1 is served.  Then it is the first, and one form at     *)
(* most changes the clients.                                                 *)
OneId(j) == j.named = j.client /\ j.named # c2
TwoIds(j) == j.named # c1 /\ j.client = c1
WithinBounds ==
    \A w \in Worker :
        LET j == job[w] IN
          \/ OneId(j)
          \/ TwoIds(j) /\ j.req = 1 /\ opened <= 1 /\ saves = 0
MCNext == Next /\ WithinBounds' /\ (Changed' => arrived' <= 1 /\ ~Overlapping')
MCSpec == Init /\ [][MCNext]_vars
=============================================================================
