--------------------------- MODULE MCTokenStore ---------------------------
(***************************************************************************)
(* Instances of TokenStore for TLC.  The client's refresh tokens live for  *)
(* one tick, the built-in lifetime is two.                                 *)
(***************************************************************************)
EXTENDS TokenStore, TLC

CONSTANT app
MCClient == {app}
MCRefreshLifetime == [c \in MCClient |-> 1]
MCSymmetry == Permutations(Worker)

\* The last pair of ids is for a refresh: two grants, and two refreshes of one.
LastIsRefresh ==
    nextId' > MaxId /\ nextId' # nextId =>
        \E w \in Worker : job[w] = NoJob /\ job'[w].row # NoRow /\ job'[w].access.id = nextId
MCNext == Next /\ LastIsRefresh
MCSpec == Init /\ [][MCNext]_vars
=============================================================================
