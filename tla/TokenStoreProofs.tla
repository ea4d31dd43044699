-------------------------- MODULE TokenStoreProofs --------------------------
(***************************************************************************)
(* Proofs about TokenStore, for any clients, subjects, scopes, lifetimes   *)
(* and handlers: what rotation keeps, how many pairs a grant may have, and *)
(* that an end is final.  An action that only removes rows needs to show   *)
(* no more than that its handler goes on soundly (QuietStep); the three    *)
(* that insert one are proved in full.                                     *)
(***************************************************************************)
EXTENDS TokenStore, FiniteSetTheorems, TLAPS

-----------------------------------------------------------------------------
(* The inductive invariant.                                                *)

\* An access token as the handlers make it, in the table or about to be.
Access(t) ==
    /\ t \in AccessToken /\ t.id # NoId /\ t.id + 1 < nextId /\ t.refresh \in {NoId, t.id + 1}
    /\ t.subject = t.grant.subject /\ t.scopes \subseteq t.grant.scopes
    /\ t.grant.id < nextId

\* A refresh token as the handlers make it, in the table or loaded.
Refresh(r) ==
    /\ r \in RefreshToken /\ r.id = r.access + 1 /\ r.id < nextId
    /\ r.user = r.grant.subject /\ r.scopes = r.grant.scopes
    /\ r.grant.id < nextId

BaseInv ==
    /\ nextId \in Nat \ {0} /\ clock \in Nat
    /\ pc \in [Worker -> Location] /\ job = [w \in Worker |-> job[w]]
    /\ \A i \in delivered : i \in Nat /\ i < nextId
    /\ overlapped \subseteq Grant /\ ended \subseteq Grant

\* Rows are well made, their ids are theirs alone, and a pair names each other.
RowsInv ==
    /\ \A t \in tokens : Access(t)
    /\ \A r \in refreshTokens : Refresh(r)
    /\ \A s, t \in tokens : s.id = t.id => s = t
    /\ \A q, r \in refreshTokens : q.id = r.id => q = r
    /\ \A t \in tokens, r \in refreshTokens : t.id = r.access => t.refresh = r.id

\* Handlers on their way to a new token, those among them that replace one, and those
\* that revoke a refresh token.
Renewing == {"loadRenew", "deleteOldRefresh", "deleteOldAccess", "insertRenewed"}
Minting == Renewing \cup {"insertAccess", "insertRefresh"}
Revoking == {"revokeRefresh", "revokePair", "revokeRest"}
LoggingOut == {"logoutRefresh", "logoutTokens"}

\* The handler has loaded a refresh token.
Holds(l, j) == l \in Renewing \cup Revoking \/ (l = "insertAccess" /\ j.row # NoRow)

(* The local variables of a handler at location l: the token it makes is     *)
(* new to both tables and to the clients, and the row it loaded is the row   *)
(* of the table, if that is still there.                                     *)
MintOK(l, j) ==
    /\ Access(j.access) /\ j.grants = {j.access.grant} /\ j.access.id \notin delivered
    /\ \A t \in tokens : t.id = j.access.id => t = j.access /\ l # "insertAccess"
    /\ \A r \in refreshTokens : r.access # j.access.id
    /\ l \in Renewing \cup {"insertRefresh"} => j.access.refresh # NoId
    /\ l = "insertRefresh" \/ (l = "insertAccess" /\ j.row = NoRow) =>
           j.access.scopes = j.access.grant.scopes
HoldOK(l, j) ==
    /\ Refresh(j.row) /\ j.grants = {j.row.grant}
    /\ \A r \in refreshTokens : r.id = j.row.id => r = j.row
    /\ l \in Minting => /\ j.row.client = j.access.client /\ j.row.access # j.access.id
                        /\ j.access.refresh # NoId
JobOK(l, j) ==
    /\ j = [access |-> j.access, row |-> j.row, grants |-> j.grants]
    /\ j.access \in AccessToken \cup {NoRow}
    /\ \A g \in j.grants : g \in Grant /\ g.id < nextId
    /\ l \in Minting => MintOK(l, j)
    /\ Holds(l, j) => HoldOK(l, j)
JobsInv == \A w \in Worker : JobOK(pc[w], job[w])

\* The token that one handler makes is not the one another makes or has loaded the pair of.
Distinct(k, i, l, j) ==
    /\ k \in Minting /\ l \in Minting => i.access.id # j.access.id
    /\ Holds(k, i) /\ l \in Minting => i.row.access # j.access.id
ApartInv ==
    \A v, w \in Worker : v # w => Distinct(pc[v], job[v], pc[w], job[w])

\* Two handlers at work on one grant have been noticed.
OverlapInv ==
    \A v, w \in Worker : v # w => job[v].grants \cap job[w].grants \subseteq overlapped

\* All that descends from a grant is in one client's name; logout selects all or nothing.
Named(g, c) ==
    /\ \A t \in tokens : t.grant = g => t.client = c
    /\ \A r \in refreshTokens : r.grant = g => r.client = c
    /\ \A w \in Worker : pc[w] \in Minting /\ job[w].access.grant = g =>
                             job[w].access.client = c
LogoutOK(l, j) ==
    l \in LoggingOut =>
        \A g \in j.grants : g.subject = j.row.user /\ Named(g, j.row.client)
ClientInv ==
    /\ \A g \in Grant : \E c : Named(g, c)
    /\ \A w \in Worker : LogoutOK(pc[w], job[w])

\* One refresh token, one delivered access token, and they are a pair.
OnePair(g) ==
    /\ \A q, r \in Live(g) : q = r
    /\ \A s, t \in DeliveredLive(g) : s = t
    /\ \A r \in Live(g), t \in DeliveredLive(g) : t.id = r.access

\* What is left of a grant while a handler has it to itself.
NothingLeft(g) == Live(g) = {} /\ DeliveredLive(g) = {}
PairLeft(g, r) == /\ \A q \in Live(g) : q = r
                  /\ \A t \in DeliveredLive(g) : t.id = r.access
WorkOK(l, j) ==
    \A g \in j.grants \ overlapped :
        /\ l \in {"insertRefresh", "insertRenewed"} => NothingLeft(g)
        /\ l = "insertAccess" /\ j.row = NoRow => NothingLeft(g)
        /\ l = "insertAccess" /\ j.row # NoRow => PairLeft(g, j.row)
        /\ l \in {"loadRenew", "deleteOldRefresh", "revokeRefresh"} => PairLeft(g, j.row)
        /\ l \in {"deleteOldAccess", "revokePair"} => Live(g) = {} /\ PairLeft(g, j.row)
        /\ l = "logoutTokens" => Live(g) = {}
PairsInv ==
    /\ \A g \in Grant \ overlapped : OnePair(g)
    /\ \A w \in Worker : WorkOK(pc[w], job[w])

\* Nothing is left of an ended grant, and nobody makes a token for it.
EndInv ==
    \A g \in ended :
        /\ g.id < nextId /\ NothingLeft(g)
        /\ \A w \in Worker : pc[w] \in Minting => job[w].access.grant # g

IndInv == BaseInv /\ RowsInv /\ JobsInv /\ ApartInv /\ OverlapInv /\ ClientInv /\ PairsInv /\ EndInv

-----------------------------------------------------------------------------
LEMMA InitInv == Init => IndInv
<1> SUFFICES ASSUME Init PROVE IndInv
  OBVIOUS
<1>1. BaseInv /\ RowsInv
  BY DEF Init, BaseInv, RowsInv, Location
<1>2. \A w \in Worker : pc[w] = "idle" /\ job[w] = NoJob
  BY DEF Init
<1>3. JobsInv /\ ApartInv /\ OverlapInv
  BY <1>2 DEF JobsInv, JobOK, Holds, ApartInv, Distinct, OverlapInv, NoJob, Minting, Renewing,
              Revoking
<1>4. ClientInv
  BY <1>2 DEF Init, ClientInv, Named, LogoutOK, Minting, Renewing, LoggingOut
<1>5. PairsInv /\ EndInv
  BY <1>2 DEF Init, PairsInv, OnePair, WorkOK, Live, DeliveredLive, EndInv, NoJob
<1> QED BY <1>1, <1>3, <1>4, <1>5 DEF IndInv

-----------------------------------------------------------------------------
(* Steps that insert nothing.                                              *)

\* Worker w goes to l with the local variables j; the others stay where they are.
Moves(w, l, j) ==
    /\ pc' \in [Worker -> Location] /\ job' = [v \in Worker |-> job'[v]]
    /\ pc'[w] = l /\ job'[w] = j
    /\ \A v \in Worker \ {w} : pc'[v] = pc[v] /\ job'[v] = job[v]

\* No row comes, no token reaches a client.
Shrinks ==
    /\ tokens' \subseteq tokens /\ refreshTokens' \subseteq refreshTokens
    /\ nextId' \in Nat /\ nextId' >= nextId
    /\ delivered' = delivered /\ overlapped \subseteq overlapped' /\ ended \subseteq ended'

(* What holds of a handler goes on to hold when rows go. *)
LEMMA ShrinkKeepsJobs ==
    ASSUME BaseInv, Shrinks
    PROVE  /\ \A t : Access(t) => Access(t)'
           /\ \A r : Refresh(r) => Refresh(r)'
           /\ \A l, j : JobOK(l, j) => JobOK(l, j)'
<1>1. \A t : Access(t) => Access(t)'
  BY DEF BaseInv, Shrinks, Access, AccessToken, Grant
<1>2. \A r : Refresh(r) => Refresh(r)'
  BY DEF BaseInv, Shrinks, Refresh, RefreshToken, Grant
<1>3. \A l, j : MintOK(l, j) => MintOK(l, j)'
  BY <1>1 DEF MintOK, Shrinks
<1>4. \A l, j : HoldOK(l, j) => HoldOK(l, j)'
  BY <1>2 DEF HoldOK, Shrinks
<1>5. \A g \in Grant : g.id < nextId => g.id < nextId'
  BY DEF BaseInv, Shrinks, Grant
<1>6. \A l, j : JobOK(l, j) => JobOK(l, j)'
  BY <1>3, <1>4, <1>5 DEF JobOK, Holds
<1> QED BY <1>1, <1>2, <1>6

LEMMA ShrinkKeepsPairs ==
    ASSUME Shrinks
    PROVE  /\ \A g : Live(g)' \subseteq Live(g) /\ DeliveredLive(g)' \subseteq DeliveredLive(g)
           /\ \A g : OnePair(g) => OnePair(g)'
           /\ \A g : NothingLeft(g) => NothingLeft(g)'
           /\ \A l, j : WorkOK(l, j) => WorkOK(l, j)'
<1>1. \A g : Live(g)' \subseteq Live(g) /\ DeliveredLive(g)' \subseteq DeliveredLive(g)
  BY DEF Shrinks, Live, DeliveredLive
<1>2. \A g : OnePair(g) => OnePair(g)'
  BY <1>1 DEF OnePair
<1>3. \A g : NothingLeft(g) => NothingLeft(g)'
  BY <1>1 DEF NothingLeft
<1>4. \A g, r : PairLeft(g, r) => PairLeft(g, r)'
  BY <1>1 DEF PairLeft
<1>5. \A l, j : WorkOK(l, j) => WorkOK(l, j)'
  BY <1>1, <1>3, <1>4 DEF WorkOK, Shrinks
<1> QED BY <1>1, <1>2, <1>3, <1>5

(* A step that inserts nothing keeps the invariant, if its handler goes on   *)
(* soundly and no grant ends of which something is left.                     *)
LEMMA QuietStep ==
    ASSUME IndInv, NEW w \in Worker, NEW l \in Location, NEW j, Moves(w, l, j), Shrinks,
           clock' \in Nat, overlapped' \subseteq Grant,
           JobOK(l, j)', WorkOK(l, j)',
           \A v \in Worker \ {w} : /\ job[v].grants \cap j.grants \subseteq overlapped'
                                   /\ Distinct(pc[v], job[v], l, j)
                                   /\ Distinct(l, j, pc[v], job[v]),
           l \in Minting =>
               /\ Named(j.access.grant, j.access.client) /\ j.access.grant \notin ended'
               /\ j.access.grant.id < nextId =>
                      \A c : Named(j.access.grant, c) => c = j.access.client,
           l \in LoggingOut =>
               \A g \in j.grants : g.subject = j.row.user /\ Named(g, j.row.client),
           \A g \in ended' \ ended :
               /\ g \in Grant /\ g.id < nextId /\ NothingLeft(g)'
               /\ \A v \in Worker \ {w} : pc[v] \in Minting => job[v].access.grant # g
    PROVE  IndInv'
<1> USE DEF Moves
<1>0. BaseInv /\ RowsInv /\ JobsInv /\ ApartInv /\ OverlapInv /\ ClientInv /\ PairsInv /\ EndInv
  BY DEF IndInv
<1>1. BaseInv'
  BY <1>0 DEF BaseInv, Shrinks
<1>2. RowsInv'
  <2>1. (\A t \in tokens : Access(t)') /\ (\A r \in refreshTokens : Refresh(r)')
    BY <1>0, ShrinkKeepsJobs DEF RowsInv
  <2> QED BY <1>0, <2>1 DEF RowsInv, Shrinks
<1>3. JobsInv'
  BY <1>0, ShrinkKeepsJobs DEF JobsInv
<1>4. ApartInv' /\ OverlapInv'
  <2>1. ApartInv'
    BY <1>0 DEF ApartInv
  <2>2. OverlapInv'
    BY <1>0 DEF OverlapInv, Shrinks
  <2> QED BY <2>1, <2>2
<1>5. ClientInv'
  <2>1. ASSUME NEW g, NEW c, Named(g, c),
               l \in Minting /\ j.access.grant = g => j.access.client = c
        PROVE  Named(g, c)'
    BY <2>1 DEF Named, Shrinks
  <2>2. ASSUME NEW g \in Grant PROVE \E c : Named(g, c)'
    <3>1. CASE l \in Minting /\ j.access.grant = g
      BY <2>1, <3>1
    <3>2. CASE ~(l \in Minting /\ j.access.grant = g)
      <4>1. PICK c : Named(g, c)
        BY <1>0 DEF ClientInv
      <4> QED BY <2>1, <3>2, <4>1
    <3> QED BY <3>1, <3>2
  <2>3. ASSUME NEW v \in Worker \ {w} PROVE LogoutOK(pc[v], job[v])'
    <3>0. PICK k, i : k = pc[v] /\ i = job[v]
      OBVIOUS
    <3>1. LogoutOK(k, i) /\ JobOK(k, i) /\ pc'[v] = k /\ job'[v] = i
      BY <1>0, <3>0 DEF ClientInv, JobsInv
    <3>2. \A g \in i.grants : g.id < nextId
      BY <3>1 DEF JobOK
    <3>3. ASSUME k \in LoggingOut, NEW g \in i.grants
          PROVE  g.subject = i.row.user /\ Named(g, i.row.client)'
      <4>1. g.subject = i.row.user /\ Named(g, i.row.client) /\ g.id < nextId
        BY <3>1, <3>2, <3>3 DEF LogoutOK
      <4>2. l \in Minting /\ j.access.grant = g => j.access.client = i.row.client
        BY <4>1
      <4>3. Named(g, i.row.client)'
        BY <2>1, <4>1, <4>2
      <4> QED BY <4>1, <4>3
    <3>4. LogoutOK(k, i)'
      BY <3>3 DEF LogoutOK
    <3> QED BY <3>1, <3>4 DEF LogoutOK
  <2>4. LogoutOK(pc[w], job[w])'
    BY <2>1 DEF LogoutOK, LoggingOut, Minting, Renewing
  <2> QED BY <2>2, <2>3, <2>4 DEF ClientInv
<1>6. PairsInv'
  BY <1>0, ShrinkKeepsPairs DEF PairsInv, Shrinks
<1>7. EndInv'
  <2>1. \A g \in Grant : g.id < nextId => g.id < nextId'
    BY <1>0 DEF BaseInv, Shrinks, Grant
  <2>2. \A g \in ended : NothingLeft(g)'
    BY <1>0, ShrinkKeepsPairs DEF EndInv
  <2> QED BY <1>0, <2>1, <2>2 DEF EndInv, BaseInv, Shrinks
<1> QED BY <1>1, <1>2, <1>3, <1>4, <1>5, <1>6, <1>7 DEF IndInv

LEMMA FinishFacts ==
    ASSUME IndInv, NEW w \in Worker, Finish(w)
    PROVE  Moves(w, "idle", NoJob)
BY DEF IndInv, BaseInv, Finish, Goto, Moves, Location

LEMMA GotoFacts ==
    ASSUME IndInv, NEW w \in Worker, NEW l \in Location, Goto(w, l), UNCHANGED job
    PROVE  Moves(w, l, job[w])
BY DEF IndInv, BaseInv, Goto, Moves, Location

LEMMA BeginFacts ==
    ASSUME IndInv, NEW w \in Worker, NEW l \in Location, NEW j, Begin(w, l, j)
    PROVE  /\ Moves(w, l, j) /\ overlapped' = overlapped \cup (j.grants \cap Busy(w))
           /\ overlapped' \subseteq Grant
           /\ \A v \in Worker \ {w} : job[v].grants \cap j.grants \subseteq overlapped'
<1>1. overlapped' = overlapped \cup (j.grants \cap Busy(w)) /\ Moves(w, l, j)
  BY DEF IndInv, BaseInv, Goto, Moves, Location, Begin
<1>2. Busy(w) \subseteq Grant
  BY DEF Busy, IndInv, JobsInv, JobOK
<1>3. \A v \in Worker \ {w} : job[v].grants \subseteq Busy(w)
  BY DEF Busy
<1> QED BY <1>1, <1>2, <1>3 DEF IndInv, BaseInv

(* A handler that ends, whatever it has removed: what it leaves is somebody  *)
(* else's, or nothing, and a grant that ends with it has nothing left.       *)
LEMMA EndStep ==
    ASSUME IndInv, NEW w \in Worker, Finish(w), Shrinks, UNCHANGED <<clock, overlapped>>,
           \A g \in ended' \ ended : g \in job[w].grants \ overlapped /\ NothingLeft(g)'
    PROVE  IndInv'
<1>1. Moves(w, "idle", NoJob)
  BY FinishFacts
<1>2. JobOK("idle", NoJob)' /\ WorkOK("idle", NoJob)'
  BY DEF JobOK, WorkOK, NoJob, Holds, Minting, Renewing, Revoking
<1>3. \A v \in Worker \ {w} : /\ job[v].grants \cap NoJob.grants \subseteq overlapped'
                              /\ Distinct(pc[v], job[v], "idle", NoJob)
                              /\ Distinct("idle", NoJob, pc[v], job[v])
  BY DEF NoJob, Distinct, Holds, Minting, Renewing, Revoking
<1>4. ASSUME NEW g \in ended' \ ended
      PROVE  /\ g \in Grant /\ g.id < nextId /\ NothingLeft(g)'
             /\ \A v \in Worker \ {w} : pc[v] \in Minting => job[v].access.grant # g
  <2>1. g \in job[w].grants /\ g \notin overlapped
    OBVIOUS
  <2>2. g \in Grant /\ g.id < nextId
    BY <2>1 DEF IndInv, JobsInv, JobOK
  <2>3. ASSUME NEW v \in Worker \ {w}, pc[v] \in Minting PROVE job[v].access.grant # g
    <3>1. job[v].grants = {job[v].access.grant}
      BY <2>3 DEF IndInv, JobsInv, JobOK, MintOK
    <3> QED BY <2>1, <3>1 DEF IndInv, OverlapInv
  <2> QED BY <2>2, <2>3
<1>5. "idle" \notin Minting \cup LoggingOut /\ "idle" \in Location
  BY DEF Minting, Renewing, LoggingOut, Location
<1>6. clock' \in Nat /\ overlapped' \subseteq Grant
  BY DEF IndInv, BaseInv
<1> QED BY <1>1, <1>2, <1>3, <1>4, <1>5, <1>6, QuietStep

(* A handler that goes on with the same variables to a next statement of its *)
(* own kind.                                                                 *)
LEMMA OnwardStep ==
    ASSUME IndInv, NEW w \in Worker, NEW l \in Location, Goto(w, l), Shrinks,
           UNCHANGED <<job, clock, overlapped, ended>>,
           \/ pc[w] \in Renewing /\ l \in Renewing
           \/ pc[w] \in Revoking /\ l \in Revoking
           \/ pc[w] \in LoggingOut /\ l \in LoggingOut,
           WorkOK(l, job[w])'
    PROVE  IndInv'
<1>0. PICK k, j : k = pc[w] /\ j = job[w]
  OBVIOUS
<1>1. Moves(w, l, j)
  BY <1>0, GotoFacts
<1> DEFINE Kinds == \/ k \in Renewing /\ l \in Renewing
                    \/ k \in Revoking /\ l \in Revoking
                    \/ k \in LoggingOut /\ l \in LoggingOut
<1>2. Kinds
  BY <1>0
<1>3. JobOK(k, j)
  BY <1>0 DEF IndInv, JobsInv
<1>4. JobOK(l, j)
  BY <1>2, <1>3 DEF JobOK, MintOK, HoldOK, Holds, Minting, Renewing, Revoking, LoggingOut
<1>5. JobOK(l, j)'
  BY <1>4, ShrinkKeepsJobs DEF IndInv
<1>6. WorkOK(l, j)'
  BY <1>0, <1>1 DEF Moves
<1>7. ASSUME NEW v \in Worker \ {w}
      PROVE  /\ job[v].grants \cap j.grants \subseteq overlapped'
             /\ Distinct(pc[v], job[v], l, j) /\ Distinct(l, j, pc[v], job[v])
  <2>1. job[v].grants \cap j.grants \subseteq overlapped
    BY <1>0 DEF IndInv, OverlapInv
  <2>2. Distinct(pc[v], job[v], k, j) /\ Distinct(k, j, pc[v], job[v])
    BY <1>0 DEF IndInv, ApartInv
  <2> QED BY <1>2, <2>1, <2>2
      DEF Distinct, Holds, Minting, Renewing, Revoking, LoggingOut
<1>8. l \in Minting =>
        /\ Named(j.access.grant, j.access.client) /\ j.access.grant \notin ended'
        /\ \A c : Named(j.access.grant, c) => c = j.access.client
  <2> SUFFICES ASSUME l \in Minting
               PROVE  /\ Named(j.access.grant, j.access.client)
                      /\ j.access.grant \notin ended'
                      /\ \A c : Named(j.access.grant, c) => c = j.access.client
    OBVIOUS
  <2>1. k \in Minting
    BY <1>2 DEF Minting, Renewing, Revoking, LoggingOut
  <2>2. j.access.grant \notin ended
    BY <1>0, <2>1 DEF IndInv, EndInv
  <2>3. \A c : Named(j.access.grant, c) => c = j.access.client
    BY <1>0, <2>1 DEF Named
  <2>4. j.access.grant \in Grant
    BY <1>3, <2>1 DEF JobOK, MintOK, Access, AccessToken
  <2> QED BY <2>2, <2>3, <2>4 DEF IndInv, ClientInv
<1>9. l \in LoggingOut => \A g \in j.grants : g.subject = j.row.user /\ Named(g, j.row.client)
  BY <1>0, <1>2 DEF IndInv, ClientInv, LogoutOK, LoggingOut, Renewing, Revoking
<1>10. clock' \in Nat /\ overlapped' \subseteq Grant
  BY DEF IndInv, BaseInv
<1> HIDE DEF Kinds
<1> QED BY <1>1, <1>5, <1>6, <1>7, <1>8, <1>9, <1>10, QuietStep

-----------------------------------------------------------------------------
(* A handler begins.                                                       *)

(* No row and no handler has the next id, or a grant of that id. *)
LEMMA NextIdIsNew ==
    ASSUME IndInv
    PROVE  /\ \A t : Access(t) => t.id # nextId /\ t.grant.id # nextId
           /\ \A r : Refresh(r) => r.access # nextId /\ r.grant.id # nextId
           /\ \A w \in Worker :
                  /\ pc[w] \in Minting => /\ job[w].access.id # nextId
                                          /\ job[w].access.grant.id # nextId
                  /\ Holds(pc[w], job[w]) => job[w].row.access # nextId
<1>1. nextId \in Nat
  BY DEF IndInv, BaseInv
<1>2. \A t : Access(t) => t.id # nextId /\ t.grant.id # nextId
  BY <1>1 DEF Access, AccessToken, Grant
<1>3. \A r : Refresh(r) => r.access # nextId /\ r.grant.id # nextId
  BY <1>1 DEF Refresh, RefreshToken, Grant
<1>4. ASSUME NEW w \in Worker
      PROVE  /\ pc[w] \in Minting => Access(job[w].access)
             /\ Holds(pc[w], job[w]) => Refresh(job[w].row)
  BY DEF IndInv, JobsInv, JobOK, MintOK, HoldOK
<1> QED BY <1>2, <1>3, <1>4

LEMMA JobOfGrant ==
    ASSUME NEW a, NEW g
    PROVE  [NoJob EXCEPT !.grants = {g}, !.access = a]
             = [access |-> a, row |-> NoRow, grants |-> {g}]
<1> DEFINE q == [NoJob EXCEPT !.grants = {g}, !.access = a]
           s == [access |-> a, row |-> NoRow, grants |-> {g}]
<1>1. /\ DOMAIN q = {"access", "row", "grants"} /\ DOMAIN s = {"access", "row", "grants"}
      /\ q.access = s.access /\ q.row = s.row /\ q.grants = s.grants
  BY DEF NoJob
<1>2. q = [f \in DOMAIN q |-> q[f]] /\ s = [f \in DOMAIN s |-> s[f]]
  OBVIOUS
<1> HIDE DEF q, s
<1>3. DOMAIN q = DOMAIN s /\ \A f \in DOMAIN q : q[f] = s[f]
  BY <1>1
<1>4. q = s
  BY <1>2, <1>3, Zenon
<1> QED BY <1>4 DEF q, s

(* The ids of a new grant are new. *)
LEMMA GrantStep ==
    ASSUME IndInv, NEW w \in Worker, NEW application \in Client \cup {NoClient},
           NEW g \in Grant, g.id = nextId, NEW offline \in BOOLEAN,
           BeginGrant(w, application, g, offline)
    PROVE  IndInv'
<1> DEFINE a == [id |-> g.id, client |-> application, subject |-> g.subject,
                 scopes |-> g.scopes, refresh |-> IF offline THEN nextId + 1 ELSE NoId,
                 grant |-> g]
           b == [access |-> a, row |-> NoRow, grants |-> {g}]
<1>0. PICK j : j = b
  OBVIOUS
<1>1. /\ Begin(w, "insertAccess", j) /\ nextId' = nextId + 2
      /\ UNCHANGED <<tokens, refreshTokens, clock, delivered, ended>>
  <2>1. [NoJob EXCEPT !.grants = {g}, !.access = a] = b
    BY JobOfGrant
  <2> QED BY <1>0, <2>1 DEF BeginGrant
<1>2. "insertAccess" \in Location /\ "insertAccess" \in Minting
      /\ "insertAccess" \notin Renewing \cup Revoking \cup LoggingOut
  BY DEF Location, Minting, Renewing, Revoking, LoggingOut
<1>3. /\ Moves(w, "insertAccess", j) /\ overlapped \subseteq overlapped'
      /\ overlapped' \subseteq Grant
      /\ \A v \in Worker \ {w} : job[v].grants \cap j.grants \subseteq overlapped'
  BY <1>1, <1>2, BeginFacts
<1>4. nextId \in Nat \ {0} /\ g.id \in Nat
  BY DEF IndInv, BaseInv, Grant
<1>5. Shrinks
  BY <1>1, <1>3, <1>4 DEF Shrinks
<1>6. /\ j = [access |-> j.access, row |-> j.row, grants |-> j.grants]
      /\ j.access = a /\ j.row = NoRow /\ j.grants = {g}
  BY <1>0
<1>7. /\ a \in AccessToken /\ a.id = nextId /\ a.refresh \in {NoId, nextId + 1}
      /\ a.subject = g.subject /\ a.scopes = g.scopes /\ a.grant = g
      /\ a.client = application
  BY <1>4 DEF AccessToken, Grant, NoId
<1> HIDE DEF a, b
<1>8. Access(j.access)'
  BY <1>1, <1>4, <1>6, <1>7 DEF Access, NoId
<1>9. /\ \A t \in tokens : t.id # nextId /\ t.grant # g
      /\ \A r \in refreshTokens : r.access # nextId /\ r.grant # g
      /\ nextId \notin delivered
  <2>1. \A t \in tokens : t.id # nextId /\ t.grant # g
    BY <1>4 DEF IndInv, RowsInv, Access, AccessToken, Grant
  <2>2. \A r \in refreshTokens : r.access # nextId /\ r.grant # g
    BY <1>4 DEF IndInv, RowsInv, Refresh, RefreshToken, Grant
  <2> QED BY <1>4, <2>1, <2>2 DEF IndInv, BaseInv
<1>10. MintOK("insertAccess", j)'
  BY <1>1, <1>2, <1>6, <1>7, <1>8, <1>9 DEF MintOK
<1>11. JobOK("insertAccess", j)'
  BY <1>1, <1>2, <1>4, <1>6, <1>7, <1>10 DEF JobOK, Holds
<1>12. WorkOK("insertAccess", j)'
  BY <1>1, <1>6, <1>9 DEF WorkOK, NothingLeft, Live, DeliveredLive
<1>13. ASSUME NEW v \in Worker \ {w}
       PROVE  Distinct(pc[v], job[v], "insertAccess", j) /\ Distinct("insertAccess", j, pc[v], job[v])
  <2>1. pc[v] \in Minting => job[v].access.id # nextId
    BY NextIdIsNew
  <2>2. Holds(pc[v], job[v]) => job[v].row.access # nextId
    BY NextIdIsNew
  <2>3. ~Holds("insertAccess", j)
    BY <1>2, <1>6 DEF Holds
  <2> QED BY <1>6, <1>7, <2>1, <2>2, <2>3 DEF Distinct
<1>14. Named(g, application) /\ g \notin ended
  <2>1. \A v \in Worker : pc[v] \in Minting => job[v].access.grant # g
    BY NextIdIsNew
  <2> QED BY <1>4, <1>9, <2>1 DEF Named, IndInv, EndInv
<1>15. ~(g.id < nextId)
  BY <1>4
<1>16. clock' \in Nat /\ ended' = ended
  BY <1>1 DEF IndInv, BaseInv
<1> QED BY <1>2, <1>3, <1>5, <1>6, <1>7, <1>11, <1>12, <1>13, <1>14, <1>15, <1>16, QuietStep

(* A refresh loads a row and draws new ids for its successors. *)
LEMMA RefreshStep ==
    ASSUME IndInv, NEW w \in Worker, NEW r \in refreshTokens, StartRefresh(w, r)
    PROVE  IndInv'
<1>0. PICK sc \in SUBSET r.scopes :
        Begin(w, "insertAccess",
              [grants |-> {r.grant}, row |-> r,
               access |-> [id |-> nextId, client |-> r.client, subject |-> r.user,
                           scopes |-> sc, refresh |-> nextId + 1, grant |-> r.grant]])
  BY DEF StartRefresh
<1> DEFINE a == [id |-> nextId, client |-> r.client, subject |-> r.user,
                 scopes |-> sc, refresh |-> nextId + 1, grant |-> r.grant]
<1>1. PICK q, j : q = r /\ j = [access |-> a, row |-> q, grants |-> {q.grant}]
  OBVIOUS
<1>2. /\ Begin(w, "insertAccess", j) /\ nextId' = nextId + 2 /\ q \in refreshTokens
      /\ UNCHANGED <<tokens, refreshTokens, clock, delivered, ended>>
  <2>1. j = [grants |-> {r.grant}, row |-> r, access |-> a]
    BY <1>1
  <2>2. Begin(w, "insertAccess", j)
    BY <1>0, <2>1
  <2> QED BY <1>1, <2>2 DEF StartRefresh
<1>3. "insertAccess" \in Location /\ "insertAccess" \in Minting
      /\ "insertAccess" \notin Renewing \cup Revoking \cup LoggingOut
  BY DEF Location, Minting, Renewing, Revoking, LoggingOut
<1>4. /\ Moves(w, "insertAccess", j) /\ overlapped \subseteq overlapped'
      /\ overlapped' \subseteq Grant
      /\ \A v \in Worker \ {w} : job[v].grants \cap j.grants \subseteq overlapped'
  BY <1>2, <1>3, BeginFacts
<1>5. nextId \in Nat \ {0}
  BY DEF IndInv, BaseInv
<1>6. Shrinks
  BY <1>2, <1>4, <1>5 DEF Shrinks
<1>7. Refresh(q) /\ q # NoRow
  BY <1>2, RowAssumption DEF IndInv, RowsInv, Refresh
<1>8. /\ j = [access |-> j.access, row |-> j.row, grants |-> j.grants]
      /\ j.row = q /\ j.grants = {q.grant}
      /\ j.access.id = nextId /\ j.access.refresh = nextId + 1 /\ j.access.grant = q.grant
      /\ j.access.subject = q.user /\ j.access.scopes \subseteq q.scopes
      /\ j.access.client = q.client
  BY <1>1
<1>9. /\ q \in RefreshToken /\ q.grant \in Grant /\ q.grant.id < nextId
      /\ q.user = q.grant.subject /\ q.scopes = q.grant.scopes
  BY <1>7 DEF Refresh, RefreshToken
<1>10. j.access \in AccessToken
  BY <1>1, <1>5, <1>9 DEF AccessToken, RefreshToken
<1> HIDE DEF a
<1>11. Access(j.access)'
  BY <1>2, <1>5, <1>8, <1>9, <1>10 DEF Access, NoId, Grant
<1>12. /\ \A t \in tokens : t.id # nextId
       /\ \A x \in refreshTokens : x.access # nextId
       /\ nextId \notin delivered
  <2>1. \A t \in tokens : t.id # nextId
    BY <1>5 DEF IndInv, RowsInv, Access, AccessToken
  <2>2. \A x \in refreshTokens : x.access # nextId
    BY <1>5 DEF IndInv, RowsInv, Refresh, RefreshToken
  <2> QED BY <1>5, <2>1, <2>2 DEF IndInv, BaseInv
<1>13. MintOK("insertAccess", j)'
  BY <1>2, <1>3, <1>7, <1>8, <1>11, <1>12 DEF MintOK
<1>14. HoldOK("insertAccess", j)'
  <2>1. Refresh(q)'
    BY <1>6, <1>7, ShrinkKeepsJobs DEF IndInv
  <2>2. \A x \in refreshTokens : x.id = q.id => x = q
    BY <1>2 DEF IndInv, RowsInv
  <2>3. j.access.refresh # NoId /\ q.access # nextId
    BY <1>2, <1>5, <1>8, <1>12 DEF NoId
  <2> QED BY <1>2, <1>8, <2>1, <2>2, <2>3 DEF HoldOK
<1>15. JobOK("insertAccess", j)'
  BY <1>2, <1>5, <1>8, <1>9, <1>10, <1>13, <1>14 DEF JobOK, Grant
<1>16. WorkOK("insertAccess", j)'
  <2>1. ASSUME q.grant \notin overlapped PROVE PairLeft(q.grant, q)
    <3>1. OnePair(q.grant) /\ q \in Live(q.grant)
      BY <1>2, <1>9, <2>1 DEF IndInv, PairsInv, Live
    <3> QED BY <3>1 DEF OnePair, PairLeft
  <2>2. q.grant \notin overlapped' => PairLeft(q.grant, q)'
    BY <1>2, <1>4, <2>1 DEF PairLeft, Live, DeliveredLive
  <2> QED BY <1>7, <1>8, <2>2 DEF WorkOK
<1>17. ASSUME NEW v \in Worker \ {w}
       PROVE  Distinct(pc[v], job[v], "insertAccess", j) /\ Distinct("insertAccess", j, pc[v], job[v])
  <2>1. pc[v] \in Minting => job[v].access.id # nextId /\ job[v].access.id # q.access
    <3>1. pc[v] \in Minting => job[v].access.id # nextId
      BY NextIdIsNew
    <3>2. pc[v] \in Minting => job[v].access.id # q.access
      BY <1>2 DEF IndInv, JobsInv, JobOK, MintOK
    <3> QED BY <3>1, <3>2
  <2>2. Holds(pc[v], job[v]) => job[v].row.access # nextId
    BY NextIdIsNew
  <2> QED BY <1>8, <2>1, <2>2 DEF Distinct
<1>18. /\ \A c : Named(q.grant, c) => c = q.client
       /\ Named(q.grant, q.client) /\ q.grant \notin ended
  <2>1. \A c : Named(q.grant, c) => c = q.client
    BY <1>2 DEF Named
  <2>2. Named(q.grant, q.client)
    BY <1>9, <2>1 DEF IndInv, ClientInv
  <2>3. q.grant \notin ended
    BY <1>2 DEF IndInv, EndInv, NothingLeft, Live
  <2> QED BY <2>1, <2>2, <2>3
<1>19. clock' \in Nat /\ ended' = ended
  BY <1>2 DEF IndInv, BaseInv
<1> QED BY <1>3, <1>4, <1>6, <1>8, <1>15, <1>16, <1>17, <1>18, <1>19, QuietStep

(* RevokeToken and TerminateSession begin: they load what they are to remove. *)
LEMMA RevokeAccessBegins ==
    ASSUME IndInv, NEW w \in Worker, NEW t \in tokens, StartRevokeAccess(w, t)
    PROVE  IndInv'
<1>1. PICK j : j = [access |-> t, row |-> NoRow, grants |-> {t.grant}]
  OBVIOUS
<1>2. /\ j = [access |-> j.access, row |-> j.row, grants |-> j.grants]
      /\ j.access = t /\ j.grants = {t.grant}
  BY <1>1
<1>3. Begin(w, "revokeAccess", j) /\ UNCHANGED <<tables, clock, delivered, ended>>
  BY <1>1 DEF StartRevokeAccess
<1>4. "revokeAccess" \in Location /\ "revokeAccess" \notin Minting \cup Revoking \cup LoggingOut
      /\ "revokeAccess" \notin Renewing /\ "revokeAccess" # "insertAccess"
  BY DEF Location, Minting, Renewing, Revoking, LoggingOut
<1>5. /\ Moves(w, "revokeAccess", j) /\ overlapped \subseteq overlapped'
      /\ overlapped' \subseteq Grant
      /\ \A v \in Worker \ {w} : job[v].grants \cap j.grants \subseteq overlapped'
  BY <1>3, <1>4, BeginFacts
<1>6. Shrinks
  BY <1>3, <1>5 DEF Shrinks, tables, IndInv, BaseInv
<1>7. t \in AccessToken /\ t.grant \in Grant /\ t.grant.id < nextId /\ nextId' = nextId
  BY <1>3 DEF IndInv, RowsInv, Access, AccessToken, tables
<1>8. JobOK("revokeAccess", j)'
  BY <1>2, <1>4, <1>7 DEF JobOK, Holds
<1>9. WorkOK("revokeAccess", j)'
  BY DEF WorkOK
<1>10. \A v \in Worker \ {w} : /\ Distinct(pc[v], job[v], "revokeAccess", j)
                               /\ Distinct("revokeAccess", j, pc[v], job[v])
  BY <1>4 DEF Distinct, Holds
<1>11. clock' \in Nat /\ ended' = ended
  BY <1>3 DEF IndInv, BaseInv
<1> QED BY <1>4, <1>5, <1>6, <1>8, <1>9, <1>10, <1>11, QuietStep

LEMMA RevokeBegins ==
    ASSUME IndInv, NEW w \in Worker, NEW r \in refreshTokens, StartRevoke(w, r)
    PROVE  IndInv'
<1>1. PICK q, j : q = r /\ j = [access |-> NoRow, row |-> q, grants |-> {q.grant}]
  OBVIOUS
<1>2. /\ j = [access |-> j.access, row |-> j.row, grants |-> j.grants]
      /\ j.access = NoRow /\ j.row = q /\ j.grants = {q.grant} /\ q \in refreshTokens
  BY <1>1
<1>3. Begin(w, "revokeRefresh", j) /\ UNCHANGED <<tables, clock, delivered, ended>>
  BY <1>1 DEF StartRevoke
<1>4. "revokeRefresh" \in Location /\ "revokeRefresh" \notin Minting \cup LoggingOut
      /\ "revokeRefresh" \in Revoking /\ "revokeRefresh" # "insertAccess"
  BY DEF Location, Minting, Renewing, Revoking, LoggingOut
<1>5. /\ Moves(w, "revokeRefresh", j) /\ overlapped \subseteq overlapped'
      /\ overlapped' \subseteq Grant
      /\ \A v \in Worker \ {w} : job[v].grants \cap j.grants \subseteq overlapped'
  BY <1>3, <1>4, BeginFacts
<1>6. Shrinks
  BY <1>3, <1>5 DEF Shrinks, tables, IndInv, BaseInv
<1>7. /\ Refresh(q) /\ q.grant \in Grant /\ q.grant.id < nextId
      /\ \A x \in refreshTokens : x.id = q.id => x = q
  BY <1>2 DEF IndInv, RowsInv, Refresh, RefreshToken
<1>8. JobOK("revokeRefresh", j)
  BY <1>2, <1>4, <1>7 DEF JobOK, HoldOK
<1>9. JobOK("revokeRefresh", j)'
  BY <1>6, <1>8, ShrinkKeepsJobs DEF IndInv
<1>10. WorkOK("revokeRefresh", j)'
  <2>1. ASSUME q.grant \notin overlapped PROVE PairLeft(q.grant, q)
    <3>1. OnePair(q.grant) /\ q \in Live(q.grant)
      BY <1>2, <1>7, <2>1 DEF IndInv, PairsInv, Live
    <3> QED BY <3>1 DEF OnePair, PairLeft
  <2>2. WorkOK("revokeRefresh", j)
    BY <1>2, <2>1 DEF WorkOK
  <2> QED BY <1>6, <2>2, ShrinkKeepsPairs
<1>11. ASSUME NEW v \in Worker \ {w}
       PROVE  Distinct(pc[v], job[v], "revokeRefresh", j) /\ Distinct("revokeRefresh", j, pc[v], job[v])
  <2>1. pc[v] \in Minting => q.access # job[v].access.id
    BY <1>2 DEF IndInv, JobsInv, JobOK, MintOK
  <2> QED BY <1>2, <1>4, <2>1 DEF Distinct
<1>12. clock' \in Nat /\ ended' = ended
  BY <1>3 DEF IndInv, BaseInv
<1> QED BY <1>4, <1>5, <1>6, <1>9, <1>10, <1>11, <1>12, QuietStep

LEMMA LogoutBegins ==
    ASSUME IndInv, NEW w \in Worker, NEW s \in Subject, NEW c \in Client, StartLogout(w, s, c)
    PROVE  IndInv'
<1> DEFINE gs == {r.grant : r \in {x \in refreshTokens : OfSession(x, s, c)}}
                   \cup {t.grant : t \in {x \in tokens : OfTokens(x, s, c)}}
<1>1. PICK j : j = [access |-> NoRow, row |-> [user |-> s, client |-> c], grants |-> gs]
  OBVIOUS
<1>2. /\ j = [access |-> j.access, row |-> j.row, grants |-> j.grants]
      /\ j.access = NoRow /\ j.row.user = s /\ j.row.client = c /\ j.grants = gs
  BY <1>1
<1>3. Begin(w, "logoutRefresh", j) /\ UNCHANGED <<tables, clock, delivered, ended>>
  BY <1>1 DEF StartLogout
<1>4. "logoutRefresh" \in Location /\ "logoutRefresh" \notin Minting \cup Revoking
      /\ "logoutRefresh" \notin Renewing /\ "logoutRefresh" # "insertAccess"
  BY DEF Location, Minting, Renewing, Revoking, LoggingOut
<1>5. /\ Moves(w, "logoutRefresh", j) /\ overlapped \subseteq overlapped'
      /\ overlapped' \subseteq Grant
      /\ \A v \in Worker \ {w} : job[v].grants \cap j.grants \subseteq overlapped'
  BY <1>3, <1>4, BeginFacts
<1>6. Shrinks
  BY <1>3, <1>5 DEF Shrinks, tables, IndInv, BaseInv
<1>7. ASSUME NEW g \in gs
      PROVE  g \in Grant /\ g.id < nextId /\ g.subject = s /\ Named(g, c)
  <2>1. CASE \E r \in refreshTokens : OfSession(r, s, c) /\ g = r.grant
    <3>1. PICK r \in refreshTokens : r.user = s /\ r.client = c /\ g = r.grant
      BY <2>1 DEF OfSession
    <3>2. g \in Grant /\ g.id < nextId /\ g.subject = s
      BY <3>1 DEF IndInv, RowsInv, Refresh, RefreshToken
    <3>3. PICK d : Named(g, d)
      BY <3>2 DEF IndInv, ClientInv
    <3>4. d = c
      BY <3>1, <3>3 DEF Named
    <3> QED BY <3>2, <3>3, <3>4
  <2>2. CASE \E t \in tokens : OfTokens(t, s, c) /\ g = t.grant
    <3>1. PICK t \in tokens : t.subject = s /\ t.client = c /\ g = t.grant
      BY <2>2 DEF OfTokens
    <3>2. g \in Grant /\ g.id < nextId /\ g.subject = s
      BY <3>1 DEF IndInv, RowsInv, Access, AccessToken
    <3>3. PICK d : Named(g, d)
      BY <3>2 DEF IndInv, ClientInv
    <3>4. d = c
      BY <3>1, <3>3 DEF Named
    <3> QED BY <3>2, <3>3, <3>4
  <2> QED BY <2>1, <2>2
<1> HIDE DEF gs
<1>8. JobOK("logoutRefresh", j)'
  <2>1. nextId' = nextId
    BY <1>3 DEF tables
  <2> QED BY <1>2, <1>4, <1>7, <2>1 DEF JobOK, Holds
<1>9. WorkOK("logoutRefresh", j)'
  BY DEF WorkOK
<1>10. \A v \in Worker \ {w} : /\ Distinct(pc[v], job[v], "logoutRefresh", j)
                               /\ Distinct("logoutRefresh", j, pc[v], job[v])
  BY <1>4 DEF Distinct, Holds
<1>11. clock' \in Nat /\ ended' = ended
  BY <1>3 DEF IndInv, BaseInv
<1>12. \A g \in j.grants : g.subject = j.row.user /\ Named(g, j.row.client)
  BY <1>2, <1>7
<1> QED BY <1>4, <1>5, <1>6, <1>8, <1>9, <1>10, <1>11, <1>12, QuietStep

-----------------------------------------------------------------------------
(* A handler removes rows and goes on, or ends.                            *)

(* renewRefreshToken finds the row it loaded, unchanged, or gives up. *)
LEMMA LoadStep ==
    ASSUME IndInv, NEW w \in Worker, LoadRenew(w)
    PROVE  IndInv'
<1>1. Shrinks /\ UNCHANGED <<clock, overlapped, ended>> /\ pc[w] = "loadRenew"
  BY DEF LoadRenew, Shrinks, tables, ghosts, IndInv, BaseInv
<1>2. ASSUME NEW r \in refreshTokens, r.id = job[w].row.id,
             job' = [job EXCEPT ![w].row = r], Goto(w, "deleteOldRefresh")
      PROVE  IndInv'
  <2>1. /\ job[w] = [access |-> job[w].access, row |-> job[w].row, grants |-> job[w].grants]
        /\ r = job[w].row /\ job = [v \in Worker |-> job[v]]
    BY <1>1, <1>2 DEF IndInv, JobsInv, JobOK, Holds, HoldOK, Renewing, BaseInv
  <2>2. [job[w] EXCEPT !.row = r] = job[w]
    BY <2>1
  <2>3. job' = job
    BY <1>2, <2>1, <2>2
  <2>4. WorkOK("deleteOldRefresh", job[w])
    BY <1>1 DEF IndInv, PairsInv, WorkOK
  <2>5. WorkOK("deleteOldRefresh", job[w])'
    <3>1. PICK j : j = job[w]
      OBVIOUS
    <3>2. WorkOK("deleteOldRefresh", j)'
      BY <1>1, <2>4, <3>1, ShrinkKeepsPairs
    <3> QED BY <2>3, <3>1, <3>2
  <2> QED BY <1>1, <1>2, <2>3, <2>5, OnwardStep DEF Renewing, Location
<1>3. ASSUME Finish(w) PROVE IndInv'
  BY <1>1, <1>3, EndStep
<1> QED BY <1>2, <1>3 DEF LoadRenew

(* renewRefreshToken deletes the presented refresh token, then its access    *)
(* token: nothing is left of the grant.                                      *)
LEMMA DeleteOldStep ==
    ASSUME IndInv, NEW w \in Worker, DeleteOldRefresh(w) \/ DeleteOldAccess(w)
    PROVE  IndInv'
<1>0. PICK j : j = job[w]
  OBVIOUS
<1>1. Shrinks /\ UNCHANGED <<job, clock, overlapped, ended>>
  BY DEF DeleteOldRefresh, DeleteOldAccess, Shrinks, ghosts, IndInv, BaseInv
<1>2. CASE DeleteOldRefresh(w)
  <2>1. /\ pc[w] = "deleteOldRefresh" /\ Goto(w, "deleteOldAccess")
        /\ refreshTokens' = {r \in refreshTokens : r.id # j.row.id}
    BY <1>0, <1>2 DEF DeleteOldRefresh
  <2>2. ASSUME NEW g \in j.grants, g \notin overlapped
        PROVE  Live(g)' = {} /\ PairLeft(g, j.row)'
    <3>1. PairLeft(g, j.row)
      BY <1>0, <2>1, <2>2 DEF IndInv, PairsInv, WorkOK
    <3>2. Live(g)' = {}
      BY <2>1, <3>1 DEF PairLeft, Live
    <3> QED BY <1>1, <3>1, <3>2, ShrinkKeepsPairs DEF PairLeft
  <2>3. WorkOK("deleteOldAccess", j)'
    BY <1>1, <2>2 DEF WorkOK
  <2>4. WorkOK("deleteOldAccess", job[w])'
    BY <1>0, <1>1, <2>3
  <2> QED BY <1>1, <2>1, <2>4, OnwardStep DEF Renewing, Location
<1>3. CASE DeleteOldAccess(w)
  <2>1. /\ pc[w] = "deleteOldAccess" /\ Goto(w, "insertRenewed")
        /\ tokens' = {t \in tokens : t.id # j.row.access}
    BY <1>0, <1>3 DEF DeleteOldAccess
  <2>2. ASSUME NEW g \in j.grants, g \notin overlapped
        PROVE  NothingLeft(g)'
    <3>1. Live(g) = {} /\ PairLeft(g, j.row)
      BY <1>0, <2>1, <2>2 DEF IndInv, PairsInv, WorkOK
    <3>2. DeliveredLive(g)' = {}
      BY <1>1, <2>1, <3>1 DEF PairLeft, DeliveredLive, Shrinks
    <3> QED BY <1>1, <3>1, <3>2, ShrinkKeepsPairs DEF NothingLeft
  <2>3. WorkOK("insertRenewed", j)'
    BY <1>1, <2>2 DEF WorkOK
  <2>4. WorkOK("insertRenewed", job[w])'
    BY <1>0, <1>1, <2>3
  <2> QED BY <1>1, <2>1, <2>4, OnwardStep DEF Renewing, Location
<1> QED BY <1>2, <1>3

(* RevokeToken: the refresh token goes, or its DELETE fails, then the access *)
(* token; only the first way is an end.                                      *)
LEMMA RevokeStep ==
    ASSUME IndInv, NEW w \in Worker,
           RevokeAccess(w) \/ RevokeRefresh(w) \/ RevokeRefreshFails(w) \/ RevokePair(w)
    PROVE  IndInv'
<1>0. PICK j : j = job[w]
  OBVIOUS
<1>1. CASE RevokeAccess(w)
  <2>1. Shrinks /\ Finish(w) /\ UNCHANGED <<clock, overlapped, ended>>
    BY <1>1 DEF RevokeAccess, Shrinks, ghosts, IndInv, BaseInv
  <2> QED BY <2>1, EndStep
<1>2. CASE RevokeRefresh(w)
  <2>1. /\ pc[w] = "revokeRefresh" /\ Goto(w, "revokePair") /\ Shrinks
        /\ refreshTokens' = {r \in refreshTokens : r.id # j.row.id}
        /\ UNCHANGED <<job, clock, overlapped, ended>>
    BY <1>0, <1>2 DEF RevokeRefresh, Shrinks, ghosts, IndInv, BaseInv
  <2>2. ASSUME NEW g \in j.grants, g \notin overlapped
        PROVE  Live(g)' = {} /\ PairLeft(g, j.row)'
    <3>1. PairLeft(g, j.row)
      BY <1>0, <2>1, <2>2 DEF IndInv, PairsInv, WorkOK
    <3>2. Live(g)' = {}
      BY <2>1, <3>1 DEF PairLeft, Live
    <3> QED BY <2>1, <3>1, <3>2, ShrinkKeepsPairs DEF PairLeft
  <2>3. WorkOK("revokePair", j)'
    BY <2>1, <2>2 DEF WorkOK
  <2>4. WorkOK("revokePair", job[w])'
    BY <1>0, <2>1, <2>3
  <2> QED BY <2>1, <2>4, OnwardStep DEF Revoking, Location
<1>3. CASE RevokeRefreshFails(w)
  <2>1. /\ pc[w] = "revokeRefresh" /\ Goto(w, "revokeRest") /\ Shrinks
        /\ UNCHANGED <<job, clock, overlapped, ended>>
    BY <1>3 DEF RevokeRefreshFails, Shrinks, tables, ghosts, IndInv, BaseInv
  <2>2. WorkOK("revokeRest", job[w])'
    BY DEF WorkOK
  <2> QED BY <2>1, <2>2, OnwardStep DEF Revoking, Location
<1>4. CASE RevokePair(w)
  <2>1. /\ pc[w] \in {"revokePair", "revokeRest"} /\ Finish(w)
        /\ tokens' = {t \in tokens : t.id # j.row.access}
        /\ UNCHANGED <<refreshTokens, nextId, clock, delivered, overlapped>>
        /\ IF pc[w] = "revokePair" THEN ended' = ended \cup (j.grants \ overlapped)
                                   ELSE ended' = ended
    BY <1>0, <1>4 DEF RevokePair, End
  <2>2. Shrinks
    BY <2>1 DEF Shrinks, IndInv, BaseInv
  <2>3. ASSUME NEW g \in ended' \ ended
        PROVE  g \in j.grants \ overlapped /\ NothingLeft(g)'
    <3>1. pc[w] = "revokePair" /\ g \in j.grants \ overlapped
      BY <2>1, <2>3
    <3>2. Live(g) = {} /\ PairLeft(g, j.row)
      BY <1>0, <3>1 DEF IndInv, PairsInv, WorkOK
    <3>3. DeliveredLive(g)' = {}
      BY <2>1, <3>2 DEF PairLeft, DeliveredLive
    <3> QED BY <2>2, <3>1, <3>2, <3>3, ShrinkKeepsPairs DEF NothingLeft
  <2> QED BY <1>0, <2>1, <2>2, <2>3, EndStep
<1> QED BY <1>1, <1>2, <1>3, <1>4

(* TerminateSession removes all rows in the subject's and the client's name, *)
(* and that is all of a grant that it found.                                 *)
LEMMA LogoutStep ==
    ASSUME IndInv, NEW w \in Worker, LogoutRefresh(w) \/ LogoutTokens(w)
    PROVE  IndInv'
<1>0. PICK j : j = job[w]
  OBVIOUS
<1>1. pc[w] \in LoggingOut
  BY DEF LogoutRefresh, LogoutTokens, LoggingOut
<1>2. \A g \in j.grants : g.subject = j.row.user /\ Named(g, j.row.client)
  BY <1>0, <1>1 DEF IndInv, ClientInv, LogoutOK
<1>3. CASE LogoutRefresh(w)
  <2>1. /\ pc[w] = "logoutRefresh" /\ Goto(w, "logoutTokens") /\ Shrinks
        /\ refreshTokens' = {r \in refreshTokens : ~OfSession(r, j.row.user, j.row.client)}
        /\ UNCHANGED <<job, clock, overlapped, ended>>
    BY <1>0, <1>3 DEF LogoutRefresh, Shrinks, ghosts, IndInv, BaseInv
  <2>2. ASSUME NEW g \in j.grants PROVE Live(g)' = {}
    <3>1. ASSUME NEW r \in refreshTokens, r.grant = g
          PROVE  OfSession(r, j.row.user, j.row.client)
      BY <1>2, <3>1 DEF Named, OfSession, IndInv, RowsInv, Refresh
    <3> QED BY <2>1, <3>1 DEF Live
  <2>3. WorkOK("logoutTokens", j)'
    BY <2>2 DEF WorkOK
  <2>4. WorkOK("logoutTokens", job[w])'
    BY <1>0, <2>1, <2>3
  <2> QED BY <2>1, <2>4, OnwardStep DEF LoggingOut, Location
<1>4. CASE LogoutTokens(w)
  <2>1. /\ pc[w] = "logoutTokens" /\ Finish(w)
        /\ tokens' = {t \in tokens : ~OfTokens(t, j.row.user, j.row.client)}
        /\ UNCHANGED <<refreshTokens, nextId, clock, delivered, overlapped>>
        /\ ended' = ended \cup (j.grants \ overlapped)
    BY <1>0, <1>4 DEF LogoutTokens, End
  <2>2. Shrinks
    BY <2>1 DEF Shrinks, IndInv, BaseInv
  <2>3. ASSUME NEW g \in ended' \ ended
        PROVE  g \in j.grants \ overlapped /\ NothingLeft(g)'
    <3>1. g \in j.grants \ overlapped
      BY <2>1, <2>3
    <3>2. Live(g)' = {}
      <4>1. Live(g) = {}
        BY <1>0, <2>1, <3>1 DEF IndInv, PairsInv, WorkOK
      <4> QED BY <2>2, <4>1, ShrinkKeepsPairs
    <3>3. ASSUME NEW t \in tokens, t.grant = g
          PROVE  OfTokens(t, j.row.user, j.row.client)
      BY <1>2, <3>1, <3>3 DEF Named, OfTokens, IndInv, RowsInv, Access
    <3>4. DeliveredLive(g)' = {}
      BY <2>1, <3>3 DEF DeliveredLive
    <3> QED BY <3>1, <3>2, <3>4 DEF NothingLeft
  <2> QED BY <1>0, <2>1, <2>2, <2>3, EndStep
<1> QED BY <1>3, <1>4

(* A failing statement ends its handler, a crash ends them all.              *)
LEMMA FailStep ==
    ASSUME IndInv, NEW w \in Worker, StatementFails(w)
    PROVE  IndInv'
<1>1. Shrinks /\ Finish(w) /\ UNCHANGED <<clock, overlapped, ended>>
  BY DEF StatementFails, Shrinks, tables, ghosts, IndInv, BaseInv
<1> QED BY <1>1, EndStep

LEMMA CrashStep ==
    ASSUME IndInv, Crash
    PROVE  IndInv'
<1>1. /\ \A w \in Worker : pc'[w] = "idle" /\ job'[w] = NoJob
      /\ UNCHANGED <<tokens, refreshTokens, nextId, clock, delivered, overlapped, ended>>
  BY DEF Crash, tables, ghosts
<1>2. BaseInv' /\ RowsInv'
  BY DEF Crash, tables, ghosts, IndInv, BaseInv, RowsInv, Access, Refresh, Location
<1>3. JobsInv' /\ ApartInv' /\ OverlapInv'
  BY <1>1 DEF JobsInv, JobOK, Holds, ApartInv, Distinct, OverlapInv, NoJob, Minting, Renewing,
              Revoking
<1>4. ClientInv'
  <2>1. \A g, c : Named(g, c) => Named(g, c)'
    BY <1>1 DEF Named, Minting, Renewing
  <2>2. \A w \in Worker : LogoutOK(pc[w], job[w])'
    BY <1>1 DEF LogoutOK, LoggingOut
  <2> QED BY <2>1, <2>2 DEF IndInv, ClientInv
<1>5. PairsInv' /\ EndInv'
  BY <1>1 DEF IndInv, PairsInv, OnePair, WorkOK, Live, DeliveredLive, EndInv, NothingLeft, NoJob,
              Minting, Renewing
<1> QED BY <1>2, <1>3, <1>4, <1>5 DEF IndInv

LEMMA TickStep ==
    ASSUME IndInv, clock' \in Nat, UNCHANGED <<tables, pc, job, ghosts>>
    PROVE  IndInv'
<1> USE DEF tables, ghosts
<1>1. BaseInv' /\ RowsInv'
  BY DEF IndInv, BaseInv, RowsInv, Access, Refresh
<1>2. JobsInv'
  BY DEF IndInv, JobsInv, JobOK, MintOK, HoldOK, Access, Refresh
<1>3. ApartInv' /\ OverlapInv'
  BY DEF IndInv, ApartInv, OverlapInv
<1>4. ClientInv'
  BY DEF IndInv, ClientInv, Named, LogoutOK
<1>5. PairsInv'
  BY DEF IndInv, PairsInv, OnePair, WorkOK, Live, DeliveredLive, NothingLeft, PairLeft
<1>6. EndInv'
  BY DEF IndInv, EndInv, NothingLeft, Live, DeliveredLive
<1> QED BY <1>1, <1>2, <1>3, <1>4, <1>5, <1>6 DEF IndInv

-----------------------------------------------------------------------------
(* Steps that insert a row.                                                *)

(* What a handler inserts touches no other: not its token, not its row, and  *)
(* no grant that is another's alone.                                         *)
LEMMA OthersAreApart ==
    ASSUME IndInv, NEW w \in Worker, pc[w] \in Minting, NEW v \in Worker \ {w}
    PROVE  /\ pc[v] \in Minting => job[v].access.id # job[w].access.id
           /\ Holds(pc[v], job[v]) => job[v].row.access # job[w].access.id
           /\ \A g \in job[v].grants \ overlapped : g # job[w].access.grant
<1>1. Distinct(pc[v], job[v], pc[w], job[w])
  BY DEF IndInv, ApartInv
<1>2. job[w].access.grant \in job[w].grants
  BY DEF IndInv, JobsInv, JobOK, MintOK
<1>3. job[v].grants \cap job[w].grants \subseteq overlapped
  BY DEF IndInv, OverlapInv
<1> QED BY <1>1, <1>2, <1>3 DEF Distinct

(* A handler ends and its client gets the token: what has come is of its     *)
(* own grant, and leaves a pair unless others are at work on the grant.      *)
LEMMA DeliverStep ==
    ASSUME IndInv, NEW w \in Worker, pc[w] \in Minting, NEW a, a = job[w].access,
           Finish(w), delivered' = delivered \cup {a.id},
           UNCHANGED <<nextId, clock, overlapped, ended>>, RowsInv',
           \A t \in tokens' : t \in tokens \/ (t.grant = a.grant /\ t.client = a.client),
           \A r \in refreshTokens' :
               r \in refreshTokens \/ (r.grant = a.grant /\ r.client = a.client),
           \A k, i : /\ JobOK(k, i) /\ (k \in Minting => i.access.id # a.id)
                     /\ Holds(k, i) => i.row.access # a.id
                    => JobOK(k, i)',
           \A g : g # a.grant => Live(g)' = Live(g) /\ DeliveredLive(g)' = DeliveredLive(g),
           a.grant \notin overlapped => OnePair(a.grant)'
    PROVE  IndInv'
<1>1. Moves(w, "idle", NoJob)
  BY FinishFacts
<1>2. /\ "idle" \notin Minting \cup Revoking \cup Renewing \cup LoggingOut
      /\ NoJob.grants = {} /\ ~Holds("idle", NoJob)
  BY DEF Minting, Renewing, Revoking, LoggingOut, NoJob, Holds
<1>3. Access(a) /\ a.grant \notin ended
  BY DEF IndInv, JobsInv, JobOK, MintOK, EndInv
<1>4. BaseInv'
  <2>1. a.id \in Nat /\ a.id < nextId
    BY <1>3 DEF Access, AccessToken, IndInv, BaseInv
  <2> QED BY <1>1, <2>1 DEF IndInv, BaseInv, Moves
<1>5. JobsInv'
  <2>1. JobOK("idle", NoJob)'
    BY <1>2 DEF JobOK, NoJob
  <2>2. JobOK(pc[w], job[w])'
    BY <1>1, <2>1 DEF Moves
  <2>3. ASSUME NEW v \in Worker \ {w} PROVE JobOK(pc[v], job[v])'
    <3>1. PICK k, i : k = pc[v] /\ i = job[v]
      OBVIOUS
    <3>2. /\ JobOK(k, i) /\ (k \in Minting => i.access.id # a.id)
          /\ Holds(k, i) => i.row.access # a.id
      BY <3>1, OthersAreApart DEF IndInv, JobsInv
    <3>3. JobOK(k, i)' /\ pc'[v] = k /\ job'[v] = i
      BY <1>1, <3>1, <3>2 DEF Moves
    <3> QED BY <3>3
  <2> QED BY <2>2, <2>3 DEF JobsInv
<1>6. ApartInv' /\ OverlapInv'
  <2>1. ApartInv'
    BY <1>1, <1>2 DEF IndInv, ApartInv, Distinct, Moves
  <2>2. OverlapInv'
    BY <1>1, <1>2 DEF IndInv, OverlapInv, Moves
  <2> QED BY <2>1, <2>2
<1>7. ClientInv'
  <2>1. \A g, c : Named(g, c) => Named(g, c)'
    BY <1>1, <1>2 DEF Named, Moves
  <2>2. \A v \in Worker : LogoutOK(pc[v], job[v])'
    BY <1>1, <1>2, <2>1 DEF IndInv, ClientInv, LogoutOK, Moves
  <2> QED BY <2>1, <2>2 DEF IndInv, ClientInv
<1>8. PairsInv'
  <2>1. \A g \in Grant \ overlapped : OnePair(g)'
    BY DEF IndInv, PairsInv, OnePair
  <2>2. WorkOK("idle", NoJob)'
    BY <1>2 DEF WorkOK
  <2>3. WorkOK(pc[w], job[w])'
    BY <1>1, <2>2 DEF Moves
  <2>4. ASSUME NEW v \in Worker \ {w} PROVE WorkOK(pc[v], job[v])'
    <3>1. PICK k, i : k = pc[v] /\ i = job[v]
      OBVIOUS
    <3>2. WorkOK(k, i) /\ \A g \in i.grants \ overlapped : g # a.grant
      BY <3>1, OthersAreApart DEF IndInv, PairsInv
    <3>3. WorkOK(k, i)'
      BY <3>2 DEF WorkOK, NothingLeft, PairLeft
    <3>4. pc'[v] = k /\ job'[v] = i
      BY <1>1, <3>1 DEF Moves
    <3> QED BY <3>3, <3>4
  <2> QED BY <2>1, <2>3, <2>4 DEF PairsInv
<1>9. EndInv'
  <2>1. \A g \in ended : NothingLeft(g)'
    BY <1>3 DEF IndInv, EndInv, NothingLeft
  <2> QED BY <1>1, <1>2, <2>1 DEF IndInv, EndInv, Moves
<1> QED BY <1>4, <1>5, <1>6, <1>7, <1>8, <1>9 DEF IndInv

(* A new access token is the only one with its id, and its refresh token is  *)
(* not there yet.                                                            *)
LEMMA TokenComes ==
    ASSUME IndInv, NEW w \in Worker, pc[w] = "insertAccess", NEW a, a = job[w].access,
           tokens' = tokens \cup {a}, UNCHANGED <<refreshTokens, nextId>>,
           delivered \subseteq delivered', delivered' \subseteq delivered \cup {a.id}
    PROVE  /\ RowsInv'
           /\ \A k, i : JobOK(k, i) /\ (k \in Minting => i.access.id # a.id) => JobOK(k, i)'
           /\ \A g : Live(g)' = Live(g) /\ (g # a.grant => DeliveredLive(g)' = DeliveredLive(g))
           /\ delivered' = delivered => DeliveredLive(a.grant)' = DeliveredLive(a.grant)
           /\ DeliveredLive(a.grant)' \subseteq DeliveredLive(a.grant) \cup {a}
<1>1. /\ Access(a) /\ a.id \notin delivered
      /\ \A t \in tokens : t.id # a.id
      /\ \A r \in refreshTokens : r.access # a.id
  BY DEF IndInv, JobsInv, JobOK, MintOK, Minting, Renewing
<1>2. (\A t : Access(t) => Access(t)') /\ (\A r : Refresh(r) => Refresh(r)')
  BY DEF Access, Refresh
<1>3. RowsInv'
  BY <1>1, <1>2 DEF IndInv, RowsInv
<1>4. ASSUME NEW k, NEW i, JobOK(k, i), k \in Minting => i.access.id # a.id
      PROVE  JobOK(k, i)'
  <2>1. k \in Minting => MintOK(k, i)'
    BY <1>2, <1>4 DEF JobOK, MintOK
  <2>2. Holds(k, i) => HoldOK(k, i)'
    BY <1>2, <1>4 DEF JobOK, HoldOK
  <2> QED BY <1>4, <2>1, <2>2 DEF JobOK, Holds
<1>5. \A g : Live(g)' = Live(g)
  BY DEF Live
<1>6. \A g : g # a.grant => DeliveredLive(g)' = DeliveredLive(g)
  BY <1>1 DEF DeliveredLive
<1>7. delivered' = delivered => DeliveredLive(a.grant)' = DeliveredLive(a.grant)
  BY <1>1 DEF DeliveredLive
<1>8. DeliveredLive(a.grant)' \subseteq DeliveredLive(a.grant) \cup {a}
  BY <1>1 DEF DeliveredLive
<1> QED BY <1>3, <1>4, <1>5, <1>6, <1>7, <1>8

(* A new access token: its handler goes on to the refresh token, or the      *)
(* client gets it as it is.                                                  *)
LEMMA InsertAccessStep ==
    ASSUME IndInv, NEW w \in Worker, InsertAccess(w)
    PROVE  IndInv'
<1>0. PICK j, a : j = job[w] /\ a = j.access
  OBVIOUS
<1>1. /\ pc[w] = "insertAccess" /\ pc[w] \in Minting /\ tokens' = tokens \cup {a}
      /\ UNCHANGED <<refreshTokens, nextId, clock, overlapped, ended>>
  BY <1>0 DEF InsertAccess, Minting
<1>2. /\ JobOK("insertAccess", j) /\ MintOK("insertAccess", j) /\ WorkOK("insertAccess", j)
      /\ j.grants = {a.grant} /\ a.grant \notin ended
  BY <1>0, <1>1 DEF IndInv, JobsInv, JobOK, MintOK, PairsInv, EndInv, Minting
<1>3. /\ a \in AccessToken /\ a.id \in Nat /\ a.id + 1 < nextId /\ nextId \in Nat
      /\ a.grant \in Grant
  BY <1>0, <1>2 DEF MintOK, Access, AccessToken, IndInv, BaseInv
<1>4. ASSUME NEW l \in {"loadRenew", "insertRefresh"}, Goto(w, l),
             UNCHANGED <<job, delivered>>,
             j.row # NoRow => l = "loadRenew",
             j.row = NoRow => l = "insertRefresh" /\ a.refresh # NoId
      PROVE  IndInv'
  <2>0. l \in Location /\ l \in Minting /\ l \notin LoggingOut
    BY <1>4 DEF Location, Minting, Renewing, LoggingOut
  <2>1. Moves(w, l, j) /\ pc'[w] = l
    BY <1>0, <1>4, <2>0, GotoFacts DEF Moves
  <2>2. /\ RowsInv'
        /\ \A k, i : JobOK(k, i) /\ (k \in Minting => i.access.id # a.id) => JobOK(k, i)'
        /\ \A g : Live(g)' = Live(g) /\ DeliveredLive(g)' = DeliveredLive(g)
    BY <1>0, <1>1, <1>4, TokenComes
  <2>3. BaseInv'
    BY <1>1, <1>4, <2>1 DEF IndInv, BaseInv, Moves
  <2>4. JobOK(l, j)'
    <3>1. MintOK(l, j)'
      <4>1. Access(a)'
        BY <1>0, <1>1, <1>2 DEF MintOK, Access
      <4>2. l \in Renewing \cup {"insertRefresh"} /\ j.access.refresh # NoId
        BY <1>0, <1>2, <1>4 DEF JobOK, Holds, HoldOK, Renewing, Minting
      <4>3. l = "insertRefresh" => j.access.scopes = j.access.grant.scopes
        BY <1>2, <1>4 DEF MintOK
      <4> QED BY <1>0, <1>1, <1>2, <1>4, <4>1, <4>2, <4>3 DEF MintOK
    <3>2. Holds(l, j) => HoldOK(l, j)'
      <4> SUFFICES ASSUME Holds(l, j) PROVE HoldOK(l, j)'
        OBVIOUS
      <4>1. j.row # NoRow
        BY <1>4 DEF Holds, Renewing, Revoking
      <4>2. HoldOK("insertAccess", j)
        BY <1>2, <4>1 DEF JobOK, Holds
      <4> QED BY <1>0, <1>1, <4>2 DEF HoldOK, Refresh, Minting
    <3> QED BY <1>1, <1>2, <3>1, <3>2 DEF JobOK, Holds
  <2>5. ASSUME NEW v \in Worker \ {w} PROVE JobOK(pc[v], job[v])'
    <3>1. PICK k, i : k = pc[v] /\ i = job[v]
      OBVIOUS
    <3>2. JobOK(k, i) /\ (k \in Minting => i.access.id # a.id)
      BY <1>0, <1>1, <3>1, OthersAreApart DEF IndInv, JobsInv
    <3>3. JobOK(k, i)' /\ pc'[v] = k /\ job'[v] = i
      BY <2>1, <2>2, <3>1, <3>2 DEF Moves
    <3> QED BY <3>3
  <2>6. JobOK(pc[w], job[w])'
    BY <2>1, <2>4 DEF Moves
  <2>7. JobsInv'
    BY <2>5, <2>6 DEF JobsInv
  <2>8. ApartInv' /\ OverlapInv'
    <3>1. ASSUME NEW v \in Worker \ {w}
          PROVE  Distinct(pc[v], job[v], l, j) /\ Distinct(l, j, pc[v], job[v])
      <4>1. Distinct(pc[v], job[v], "insertAccess", j) /\ Distinct("insertAccess", j, pc[v], job[v])
        BY <1>0, <1>1 DEF IndInv, ApartInv
      <4> QED BY <1>4, <2>0, <4>1 DEF Distinct, Holds, Minting, Renewing, Revoking
    <3>2. ApartInv'
      BY <2>1, <3>1 DEF IndInv, ApartInv, Moves
    <3> QED BY <1>1, <1>4, <3>2 DEF IndInv, OverlapInv
  <2>9. ClientInv'
    <3>1. \A g, c : Named(g, c) => Named(g, c)'
      BY <1>0, <1>1, <1>4, <2>1 DEF Named, Moves
    <3>2. \A v \in Worker : LogoutOK(pc[v], job[v])'
      BY <1>4, <2>0, <2>1, <3>1 DEF IndInv, ClientInv, LogoutOK, Moves
    <3> QED BY <3>1, <3>2 DEF IndInv, ClientInv
  <2>10. PairsInv'
    <3>1. \A g : OnePair(g) => OnePair(g)'
      BY <2>2 DEF OnePair
    <3>2. \A k, i : WorkOK(k, i) => WorkOK(k, i)'
      BY <1>1, <2>2 DEF WorkOK, NothingLeft, PairLeft
    <3>3. WorkOK(l, j)
      BY <1>2, <1>4 DEF WorkOK
    <3>4. WorkOK(pc[w], job[w])'
      BY <2>1, <3>2, <3>3 DEF Moves
    <3>5. ASSUME NEW v \in Worker \ {w} PROVE WorkOK(pc[v], job[v])'
      <4>1. PICK k, i : k = pc[v] /\ i = job[v]
        OBVIOUS
      <4>2. WorkOK(k, i)' /\ pc'[v] = k /\ job'[v] = i
        BY <2>1, <3>2, <4>1 DEF Moves, IndInv, PairsInv
      <4> QED BY <4>2
    <3> QED BY <1>1, <3>1, <3>4, <3>5 DEF IndInv, PairsInv
  <2>11. EndInv'
    BY <1>0, <1>1, <1>4, <2>1, <2>2 DEF IndInv, EndInv, NothingLeft, Moves
  <2> QED BY <2>2, <2>3, <2>7, <2>8, <2>9, <2>10, <2>11 DEF IndInv
<1>5. ASSUME Finish(w), delivered' = delivered \cup {a.id}, j.row = NoRow
      PROVE  IndInv'
  <2>1. /\ RowsInv'
        /\ \A k, i : JobOK(k, i) /\ (k \in Minting => i.access.id # a.id) => JobOK(k, i)'
        /\ \A g : Live(g)' = Live(g) /\ (g # a.grant => DeliveredLive(g)' = DeliveredLive(g))
        /\ DeliveredLive(a.grant)' \subseteq DeliveredLive(a.grant) \cup {a}
    BY <1>0, <1>1, <1>5, TokenComes
  <2>2. ASSUME a.grant \notin overlapped PROVE OnePair(a.grant)'
    <3>1. NothingLeft(a.grant)
      BY <1>2, <1>5, <2>2 DEF WorkOK
    <3> QED BY <2>1, <3>1 DEF OnePair, NothingLeft
  <2> QED BY <1>0, <1>1, <1>5, <2>1, <2>2, DeliverStep
<1> QED BY <1>0, <1>4, <1>5 DEF InsertAccess

(* A new refresh token, the pair of the access token the handler has made:   *)
(* nothing else was left of the grant, and the client gets both.             *)
LEMMA PairComes ==
    ASSUME IndInv, NEW w \in Worker, pc[w] \in {"insertRefresh", "insertRenewed"},
           NEW a, a = job[w].access, NEW r, Refresh(r), r.access = a.id, r.id = a.refresh,
           r.grant = a.grant, r.client = a.client,
           Finish(w), delivered' = delivered \cup {a.id},
           refreshTokens' = refreshTokens \cup {r},
           UNCHANGED <<tokens, nextId, clock, overlapped, ended>>
    PROVE  IndInv'
<1>1. pc[w] \in Minting
  BY DEF Minting, Renewing
<1>2. /\ Access(a) /\ a.refresh = a.id + 1 /\ job[w].grants = {a.grant}
      /\ \A t \in tokens : t.id = a.id => t = a
      /\ \A q \in refreshTokens : q.access # a.id
  <2>1. MintOK(pc[w], job[w])
    BY <1>1 DEF IndInv, JobsInv, JobOK
  <2> QED BY <2>1 DEF MintOK, Access, Renewing
<1>3. a.id \in Nat /\ nextId \in Nat
  BY <1>2 DEF Access, AccessToken, IndInv, BaseInv
<1>4. (\A t : Access(t) => Access(t)') /\ (\A q : Refresh(q) => Refresh(q)')
  BY DEF Access, Refresh
<1>5. \A q \in refreshTokens : q.id # r.id
  BY <1>2, <1>3 DEF IndInv, RowsInv, Refresh, RefreshToken
<1>6. RowsInv'
  <2>1. \A t \in tokens, q \in refreshTokens' : t.id = q.access => t.refresh = q.id
    BY <1>2 DEF IndInv, RowsInv
  <2> QED BY <1>4, <1>5, <2>1 DEF IndInv, RowsInv
<1>7. ASSUME NEW k, NEW i, JobOK(k, i), k \in Minting => i.access.id # a.id,
             Holds(k, i) => i.row.access # a.id
      PROVE  JobOK(k, i)'
  <2>1. k \in Minting => MintOK(k, i)'
    BY <1>4, <1>7 DEF JobOK, MintOK
  <2>2. Holds(k, i) => HoldOK(k, i)'
    <3> SUFFICES ASSUME Holds(k, i) PROVE HoldOK(k, i)'
      OBVIOUS
    <3>1. HoldOK(k, i) /\ Refresh(i.row)
      BY <1>7 DEF JobOK, HoldOK
    <3>2. r.id # i.row.id
      BY <1>2, <1>3, <1>7, <3>1 DEF Refresh, RefreshToken
    <3> QED BY <1>4, <3>1, <3>2 DEF HoldOK
  <2> QED BY <1>7, <2>1, <2>2 DEF JobOK, Holds
<1>8. ASSUME NEW g, g # a.grant
      PROVE  Live(g)' = Live(g) /\ DeliveredLive(g)' = DeliveredLive(g)
  BY <1>2, <1>8 DEF Live, DeliveredLive
<1>9. ASSUME a.grant \notin overlapped PROVE OnePair(a.grant)'
  <2>1. NothingLeft(a.grant)
    BY <1>2, <1>9 DEF IndInv, PairsInv, WorkOK
  <2>2. Live(a.grant)' \subseteq {r}
    BY <2>1 DEF NothingLeft, Live
  <2>3. DeliveredLive(a.grant)' \subseteq {a}
    BY <1>2, <2>1 DEF NothingLeft, DeliveredLive
  <2> QED BY <2>2, <2>3 DEF OnePair
<1> QED BY <1>1, <1>6, <1>7, <1>8, <1>9, DeliverStep

(* createRefreshToken: the row has the grant's subject and scopes. *)
LEMMA InsertRefreshStep ==
    ASSUME IndInv, NEW w \in Worker, InsertRefresh(w)
    PROVE  IndInv'
<1>0. PICK t : t = job[w].access
  OBVIOUS
<1>1. PICK found \in BOOLEAN :
          LET life == IF found /\ RefreshLifetime[t.client] > 0 THEN RefreshLifetime[t.client]
                                                                ELSE DefaultLifetime
          IN  /\ pc[w] = "insertRefresh" /\ Finish(w)
              /\ found => t.client \in Client
              /\ refreshTokens' = refreshTokens \cup
                   {[id |-> t.refresh, client |-> t.client, user |-> t.subject,
                     scopes |-> t.scopes, access |-> t.id, expires |-> clock + life,
                     grant |-> t.grant]}
              /\ delivered' = delivered \cup {t.id}
              /\ UNCHANGED <<tokens, nextId, clock, overlapped, ended>>
  BY <1>0 DEF InsertRefresh
<1> DEFINE Set   == found /\ RefreshLifetime[t.client] > 0
           x     == clock + (IF Set THEN RefreshLifetime[t.client] ELSE DefaultLifetime)
<1>2. PICK r : r = [id |-> t.refresh, client |-> t.client, user |-> t.subject,
                    scopes |-> t.scopes, access |-> t.id, expires |-> x, grant |-> t.grant]
  OBVIOUS
<1>3. /\ pc[w] = "insertRefresh" /\ Finish(w) /\ refreshTokens' = refreshTokens \cup {r}
      /\ delivered' = delivered \cup {t.id}
      /\ UNCHANGED <<tokens, nextId, clock, overlapped, ended>>
  BY <1>1, <1>2
<1>4. x \in Nat
  <2>1. clock \in Nat
    BY DEF IndInv, BaseInv
  <2>2. CASE Set
    BY <1>1, <2>1, <2>2, LifetimeAssumption
  <2>3. CASE ~Set
    BY <2>1, <2>3, LifetimeAssumption
  <2> QED BY <2>2, <2>3
<1> HIDE DEF x
<1>5. Access(t) /\ t.refresh # NoId /\ t.scopes = t.grant.scopes
  BY <1>0, <1>3 DEF IndInv, JobsInv, JobOK, MintOK, Minting
<1>6. Refresh(r)
  <2>1. t \in AccessToken /\ t.id \in Nat /\ t.refresh = t.id + 1 /\ t.id # 0
    BY <1>5 DEF Access, AccessToken, NoId
  <2>2. r \in RefreshToken
    BY <1>2, <1>4, <2>1 DEF AccessToken, RefreshToken
  <2> QED BY <1>2, <1>5, <2>1, <2>2 DEF Access, Refresh
<1> QED BY <1>0, <1>2, <1>3, <1>6, PairComes

(* renewRefreshToken: the successor keeps the subject and the scopes of the  *)
(* row it replaces.                                                          *)
LEMMA InsertRenewedStep ==
    ASSUME IndInv, NEW w \in Worker, InsertRenewed(w)
    PROVE  IndInv'
<1>0. PICK t, q : t = job[w].access /\ q = job[w].row
  OBVIOUS
<1>1. PICK r : r = [q EXCEPT !.id = t.refresh, !.access = t.id,
                             !.expires = clock + DefaultLifetime]
  OBVIOUS
<1>2. /\ pc[w] = "insertRenewed" /\ Finish(w) /\ refreshTokens' = refreshTokens \cup {r}
      /\ delivered' = delivered \cup {t.id}
      /\ UNCHANGED <<tokens, nextId, clock, overlapped, ended>>
  BY <1>0, <1>1 DEF InsertRenewed
<1>3. clock + DefaultLifetime \in Nat
  BY LifetimeAssumption DEF IndInv, BaseInv
<1>4. "insertRenewed" \in Minting /\ "insertRenewed" \in Renewing
  BY DEF Minting, Renewing
<1>5. JobOK("insertRenewed", job[w])
  BY <1>2 DEF IndInv, JobsInv
<1>6. /\ Access(t) /\ t.refresh # NoId /\ Refresh(q) /\ q.client = t.client
      /\ q.grant = t.grant
  BY <1>0, <1>4, <1>5 DEF JobOK, Holds, MintOK, HoldOK
<1>7. /\ t.id \in Nat /\ t.refresh = t.id + 1 /\ t.id # 0 /\ t.id + 1 < nextId
      /\ q \in RefreshToken
  BY <1>6 DEF Access, AccessToken, NoId, Refresh
<1>8. /\ r \in RefreshToken /\ r.id = t.refresh /\ r.access = t.id /\ r.user = q.user
      /\ r.scopes = q.scopes /\ r.grant = q.grant /\ r.client = q.client
  <2>1. t.refresh \in Nat /\ t.id \in Nat \ {0}
    BY <1>7
  <2>2. PICK x : x = clock + DefaultLifetime /\ x \in Nat
    BY <1>3
  <2>3. r = [q EXCEPT !.id = t.refresh, !.access = t.id, !.expires = x]
    BY <1>1, <2>2
  <2>4. r \in RefreshToken
    BY <1>7, <2>1, <2>2, <2>3 DEF RefreshToken
  <2>5. /\ r.id = t.refresh /\ r.access = t.id /\ r.user = q.user
        /\ r.scopes = q.scopes /\ r.grant = q.grant /\ r.client = q.client
    BY <1>7, <2>3 DEF RefreshToken
  <2> QED BY <2>4, <2>5
<1>9. Refresh(r)
  BY <1>6, <1>7, <1>8 DEF Refresh
<1> QED BY <1>0, <1>2, <1>6, <1>8, <1>9, PairComes

-----------------------------------------------------------------------------
LEMMA Inductive == IndInv /\ [Next]_vars => IndInv'
<1> SUFFICES ASSUME IndInv, [Next]_vars PROVE IndInv'
  OBVIOUS
<1>1. ASSUME NEW w \in Worker, NEW application \in Client \cup {NoClient},
             NEW c \in Client, NEW s \in Subject \cup Client, NEW sc \in SUBSET Scope,
             NEW offline \in BOOLEAN, BeginGrant(w, application, NewGrant(c, s, sc), offline)
      PROVE  IndInv'
  <2>1. NewGrant(c, s, sc) \in Grant /\ NewGrant(c, s, sc).id = nextId
    BY DEF NewGrant, Grant, IndInv, BaseInv
  <2>2. PICK g \in Grant : g = NewGrant(c, s, sc)
    BY <2>1
  <2> QED BY <1>1, <2>1, <2>2, GrantStep
<1>2. ASSUME NEW w \in Worker,
             \/ StartLoginGrant(w) \/ StartDeviceGrant(w)
             \/ StartServiceGrant(w) \/ StartProfileGrant(w)
      PROVE  IndInv'
  <2>1. CASE StartLoginGrant(w)
    <3>1. PICK c \in Client, s \in Subject, sc \in Asked, offline \in BOOLEAN :
              BeginGrant(w, c, NewGrant(c, s, sc), offline)
      BY <2>1 DEF StartLoginGrant
    <3> QED BY <1>1, <3>1, ScopeAssumption
  <2>2. CASE StartDeviceGrant(w)
    <3>1. PICK c \in Client, s \in Subject, sc \in Asked, offline \in BOOLEAN :
              BeginGrant(w, NoClient, NewGrant(c, s, sc), offline)
      BY <2>2 DEF StartDeviceGrant, ApplicationOfDevice
    <3> QED BY <1>1, <3>1, ScopeAssumption
  <2>3. CASE StartServiceGrant(w)
    <3>1. PICK c \in Client, sc \in Asked : BeginGrant(w, c, NewGrant(c, c, sc), FALSE)
      BY <2>3 DEF StartServiceGrant
    <3> QED BY <1>1, <3>1, ScopeAssumption
  <2>4. CASE StartProfileGrant(w)
    <3>1. PICK c \in Client, application \in Client \cup {NoClient} :
              BeginGrant(w, application, NewGrant(c, c, {}), FALSE)
      BY <2>4 DEF StartProfileGrant
    <3> QED BY <1>1, <3>1
  <2> QED BY <1>2, <2>1, <2>2, <2>3, <2>4
<1>3. CASE Crash
  BY <1>3, CrashStep
<1>4. CASE Tick
  BY <1>4, TickStep DEF Tick, IndInv, BaseInv
<1>5. CASE UNCHANGED vars
  BY <1>5, TickStep DEF vars, IndInv, BaseInv
<1>6. ASSUME NEW w \in Worker,
             \/ InsertAccess(w) \/ InsertRefresh(w) \/ LoadRenew(w) \/ DeleteOldRefresh(w)
             \/ DeleteOldAccess(w) \/ InsertRenewed(w) \/ RevokeAccess(w) \/ RevokeRefresh(w)
             \/ RevokeRefreshFails(w) \/ RevokePair(w) \/ LogoutRefresh(w) \/ LogoutTokens(w)
             \/ StatementFails(w)
      PROVE  IndInv'
  BY <1>6, InsertAccessStep, InsertRefreshStep, LoadStep, DeleteOldStep, InsertRenewedStep,
     RevokeStep, LogoutStep, FailStep
<1>7. ASSUME NEW w \in Worker, NEW r \in refreshTokens, StartRefresh(w, r) \/ StartRevoke(w, r)
      PROVE  IndInv'
  BY <1>7, RefreshStep, RevokeBegins
<1>8. ASSUME NEW w \in Worker, NEW t \in tokens, StartRevokeAccess(w, t) PROVE IndInv'
  BY <1>8, RevokeAccessBegins
<1>9. ASSUME NEW w \in Worker, NEW s \in Subject, NEW c \in Client, StartLogout(w, s, c)
      PROVE  IndInv'
  BY <1>9, LogoutBegins
<1> QED BY <1>2, <1>3, <1>4, <1>5, <1>6, <1>7, <1>8, <1>9 DEF Next

LEMMA Invariant == Spec => []IndInv
BY InitInv, Inductive, PTL DEF Spec

-----------------------------------------------------------------------------
(* Every variable keeps to its values: every row a handler writes is whole   *)
(* and names a real grant (accessToken, createRefreshToken,                  *)
(* renewRefreshToken).                                                       *)
THEOREM TypeCorrect == Spec => []TypeOK
<1>1. IndInv => TypeOK
  <2> SUFFICES ASSUME IndInv PROVE TypeOK
    OBVIOUS
  <2>1. tokens \subseteq AccessToken /\ refreshTokens \subseteq RefreshToken
    BY DEF IndInv, RowsInv, Access, Refresh
  <2>2. ASSUME NEW w \in Worker
        PROVE  /\ DOMAIN job[w] = {"access", "row", "grants"}
               /\ job[w].access \in AccessToken \cup {NoRow}
               /\ job[w].grants \subseteq Grant
    <3>1. JobOK(pc[w], job[w])
      BY DEF IndInv, JobsInv
    <3>2. DOMAIN [access |-> job[w].access, row |-> job[w].row, grants |-> job[w].grants]
            = {"access", "row", "grants"}
      OBVIOUS
    <3> QED BY <3>1, <3>2 DEF JobOK
  <2> QED BY <2>1, <2>2 DEF IndInv, BaseInv, TypeOK
<1> QED BY Invariant, <1>1, PTL

(* Every row speaks for the subject of its grant; no scope is added and a    *)
(* refresh token loses none; a pair names each other (accessToken,           *)
(* createRefreshToken, renewRefreshToken).                                   *)
THEOREM GrantAlwaysKept == Spec => []RotationKeepsGrant
<1>1. IndInv => RotationKeepsGrant
  <2> SUFFICES ASSUME IndInv PROVE RotationKeepsGrant
    OBVIOUS
  <2>1. \A t \in tokens : t.subject = t.grant.subject /\ t.scopes \subseteq t.grant.scopes
    BY DEF IndInv, RowsInv, Access
  <2>2. ASSUME NEW r \in refreshTokens
        PROVE  /\ r.user = r.grant.subject /\ r.scopes = r.grant.scopes
               /\ \A t \in tokens : t.id = r.access <=> t.refresh = r.id
    <3>1. Refresh(r) /\ r.access \in Nat \ {0} /\ r.id = r.access + 1
      BY DEF IndInv, RowsInv, Refresh, RefreshToken
    <3>2. ASSUME NEW t \in tokens PROVE t.id = r.access <=> t.refresh = r.id
      <4>1. t.id \in Nat /\ t.refresh \in {0, t.id + 1}
        BY DEF IndInv, RowsInv, Access, AccessToken, NoId
      <4>2. t.id = r.access => t.refresh = r.id
        BY DEF IndInv, RowsInv
      <4> QED BY <3>1, <4>1, <4>2
    <3> QED BY <3>1, <3>2 DEF Refresh
  <2> QED BY <2>1, <2>2 DEF RotationKeepsGrant
<1> QED BY Invariant, <1>1, PTL

LEMMA AtMostOne ==
    ASSUME NEW S, \A x, y \in S : x = y
    PROVE  Cardinality(S) <= 1
<1>1. CASE S = {}
  BY <1>1, FS_EmptySet
<1>2. CASE S # {}
  <2>1. PICK x : S = {x}
    BY <1>2
  <2> QED BY <2>1, FS_Singleton
<1> QED BY <1>1, <1>2

(* A grant whose handlers never overlapped has one refresh token and one     *)
(* access token that a client holds, at most, whatever crashed or failed     *)
(* (renewRefreshToken deletes before it inserts).                            *)
THEOREM AlwaysOnePair == Spec => []OneTokenPairPerGrant
<1>1. IndInv => OneTokenPairPerGrant
  <2> SUFFICES ASSUME IndInv,
                      NEW g \in {t.grant : t \in tokens} \cup {r.grant : r \in refreshTokens},
                      g \notin overlapped
               PROVE  Cardinality(Live(g)) <= 1 /\ Cardinality(DeliveredLive(g)) <= 1
    BY DEF OneTokenPairPerGrant
  <2>1. g \in Grant
    BY DEF IndInv, RowsInv, Access, Refresh, AccessToken, RefreshToken
  <2>2. OnePair(g)
    BY <2>1 DEF IndInv, PairsInv
  <2> QED BY <2>2, AtMostOne DEF OnePair
<1> QED BY Invariant, <1>1, PTL

(* Of a grant that was revoked or logged out undisturbed nothing that a      *)
(* client holds is left, now or later (RevokeToken, TerminateSession).       *)
THEOREM EndAlwaysFinal == Spec => []EndedIsFinal
<1>1. IndInv => EndedIsFinal
  BY DEF IndInv, EndInv, NothingLeft, EndedIsFinal
<1> QED BY Invariant, <1>1, PTL

-----------------------------------------------------------------------------
(* The refinement: what each step does to the open grants and to the tokens  *)
(* that clients hold.                                                        *)

\* A handler at l with the local variables j is still to insert, whatever is deleted.
Serves(l, j) ==
    \/ l \in {"insertRefresh", "deleteOldRefresh", "deleteOldAccess", "insertRenewed"}
    \/ l = "insertAccess" /\ j.row = NoRow

LEMMA OpenMember ==
    /\ \A g : g \in OpenGrants <=>
          \/ \E r \in refreshTokens : g = r.grant
          \/ \E v \in Worker : Serves(pc[v], job[v]) /\ g = job[v].access.grant
    /\ \A g : g \in OpenGrants' <=>
          \/ \E r \in refreshTokens' : g = r.grant
          \/ \E v \in Worker : Serves(pc'[v], job'[v]) /\ g = job'[v].access.grant
BY DEF OpenGrants, Serving, Serves

\* What the step of one handler does to the open grants.
LEMMA OpenAfter ==
    ASSUME NEW w \in Worker, NEW l, NEW j, Moves(w, l, j),
           NEW g \in OpenGrants', g \notin OpenGrants
    PROVE  \/ \E r \in refreshTokens' \ refreshTokens : g = r.grant
           \/ Serves(l, j) /\ g = j.access.grant
<1>1. CASE \E r \in refreshTokens' : g = r.grant
  BY <1>1, OpenMember
<1>2. CASE \E v \in Worker : Serves(pc'[v], job'[v]) /\ g = job'[v].access.grant
  <2>1. PICK v \in Worker : Serves(pc'[v], job'[v]) /\ g = job'[v].access.grant
    BY <1>2
  <2>2. CASE v = w
    BY <2>1, <2>2 DEF Moves
  <2>3. CASE v # w
    <3>1. pc'[v] = pc[v] /\ job'[v] = job[v]
      BY <2>3 DEF Moves
    <3> QED BY <2>1, <3>1, OpenMember
  <2> QED BY <2>2, <2>3
<1> QED BY <1>1, <1>2, OpenMember

\* A step that inserts nothing closes grants at most.
LEMMA CloseStep ==
    ASSUME IndInv, NEW w \in Worker, NEW l, NEW j, Moves(w, l, j),
           tokens' \subseteq tokens, refreshTokens' \subseteq refreshTokens,
           nextId' \in Nat, nextId' >= nextId, delivered' = delivered,
           Serves(l, j) => j.access.grant \in OpenGrants
    PROVE  Life!Next
<1>1. OpenGrants' \subseteq OpenGrants
  BY OpenAfter
<1>2. HeldTokens' \subseteq HeldTokens
  BY DEF HeldTokens
<1> QED BY <1>1, <1>2 DEF Life!Next, Life!Close

(* A response goes out with the access token that the handler made, which    *)
(* somebody may have revoked already.                                        *)
LEMMA GiveStep ==
    ASSUME IndInv, NEW w \in Worker, NEW a, a = job[w].access,
           pc[w] \in Minting, Serves(pc[w], job[w]), Finish(w),
           tokens \subseteq tokens', tokens' \subseteq tokens \cup {a},
           \A r \in refreshTokens' \ refreshTokens : r.grant = a.grant,
           nextId' = nextId, delivered' = delivered \cup {a.id}
    PROVE  Life!Next
<1>1. /\ a.id \notin delivered /\ \A t \in tokens : t.id = a.id => t = a
      /\ a.subject = a.grant.subject /\ a.scopes \subseteq a.grant.scopes
  BY DEF IndInv, JobsInv, JobOK, MintOK, Access
<1>2. a.grant \in OpenGrants
  BY OpenMember
<1>3. OpenGrants' \subseteq OpenGrants
  <2>1. ~Serves("idle", NoJob)
    BY DEF Serves
  <2> QED BY <1>2, <2>1, FinishFacts, OpenAfter
<1>4. CASE a \in tokens'
  <2>1. HeldTokens' = HeldTokens \cup {a}
    BY <1>1, <1>4 DEF HeldTokens
  <2>2. \A s \in HeldTokens : s.id # a.id
    BY <1>1 DEF HeldTokens
  <2>3. Life!SpeaksFor(a, a.grant)
    BY <1>1 DEF Life!SpeaksFor
  <2>4. Life!Give
    BY <1>2, <1>3, <2>1, <2>2, <2>3 DEF Life!Give
  <2> QED BY <2>4 DEF Life!Next
<1>5. CASE a \notin tokens'
  <2>1. HeldTokens' = HeldTokens
    BY <1>1, <1>5 DEF HeldTokens
  <2>2. nextId' >= nextId
    BY DEF IndInv, BaseInv
  <2> QED BY <1>3, <2>1, <2>2 DEF Life!Next, Life!Close
<1> QED BY <1>4, <1>5

\* A new grant is open while its handler works on it.
LEMMA OpenStep ==
    ASSUME IndInv, NEW w \in Worker, NEW application, NEW g, g.id = nextId,
           NEW offline, BeginGrant(w, application, g, offline)
    PROVE  Life!Next
<1>1. PICK a : a = [id |-> g.id, client |-> application, subject |-> g.subject,
                    scopes |-> g.scopes, refresh |-> IF offline THEN nextId + 1 ELSE NoId,
                    grant |-> g]
  OBVIOUS
<1>2. PICK j : j = [access |-> a, row |-> NoRow, grants |-> {g}]
  OBVIOUS
<1>3. /\ Begin(w, "insertAccess", j) /\ nextId' = nextId + 2
      /\ UNCHANGED <<tokens, refreshTokens, clock, delivered, ended>>
  <2>1. [NoJob EXCEPT !.grants = {g}, !.access = a] = j
    BY <1>2, JobOfGrant
  <2> QED BY <1>1, <2>1 DEF BeginGrant
<1>4. Moves(w, "insertAccess", j) /\ pc[w] = "idle"
  BY <1>3, BeginFacts DEF Location, Begin
<1>5. Serves("insertAccess", j) /\ j.access.grant = g
  BY <1>1, <1>2 DEF Serves
<1>6. g \in OpenGrants'
  BY <1>4, <1>5, OpenMember DEF Moves
<1>7. OpenGrants' \subseteq OpenGrants \cup {g}
  BY <1>3, <1>4, <1>5, OpenAfter
<1>8. OpenGrants \subseteq OpenGrants'
  <2> SUFFICES ASSUME NEW h \in OpenGrants PROVE h \in OpenGrants'
    OBVIOUS
  <2>1. CASE \E r \in refreshTokens : h = r.grant
    BY <1>3, <2>1, OpenMember
  <2>2. CASE \E v \in Worker : Serves(pc[v], job[v]) /\ h = job[v].access.grant
    <3>1. PICK v \in Worker : Serves(pc[v], job[v]) /\ h = job[v].access.grant
      BY <2>2
    <3>2. v # w
      BY <1>4, <3>1 DEF Serves
    <3>3. pc'[v] = pc[v] /\ job'[v] = job[v]
      BY <1>4, <3>2 DEF Moves
    <3> QED BY <3>1, <3>3, OpenMember
  <2> QED BY <2>1, <2>2, OpenMember
<1>9. HeldTokens' = HeldTokens /\ nextId' > nextId
  BY <1>3 DEF HeldTokens, IndInv, BaseInv
<1>10. Life!Open
  BY <1>6, <1>7, <1>8, <1>9 DEF Life!Open
<1> QED BY <1>10 DEF Life!Next

\* The handlers that begin on tokens there are: none of them is still to insert.
LEMMA BeginsClosed ==
    ASSUME IndInv, NEW w \in Worker, NEW l \in Location, NEW j, Begin(w, l, j), ~Serves(l, j),
           nextId' \in {nextId, nextId + 2}, UNCHANGED <<tokens, refreshTokens, delivered>>
    PROVE  Life!Next
<1>1. Moves(w, l, j)
  BY BeginFacts
<1>2. nextId' \in Nat /\ nextId' >= nextId
  BY DEF IndInv, BaseInv
<1> QED BY <1>1, <1>2, CloseStep

\* A handler that ends without an answer, or that revokes.
LEMMA EndsClosed ==
    ASSUME IndInv, NEW w \in Worker, Finish(w), tokens' \subseteq tokens,
           UNCHANGED <<refreshTokens, nextId, delivered>>
    PROVE  Life!Next
<1>1. Moves(w, "idle", NoJob) /\ ~Serves("idle", NoJob)
  BY FinishFacts DEF Serves
<1>2. nextId' \in Nat /\ nextId' >= nextId
  BY DEF IndInv, BaseInv
<1> QED BY <1>1, <1>2, CloseStep

(* A handler that deletes and goes on: if it is still to insert, it was      *)
(* already, or has the refresh token of its grant before it.                 *)
LEMMA OnwardClosed ==
    ASSUME IndInv, NEW w \in Worker, NEW l \in Location, Goto(w, l), job' = job,
           Serves(l, job[w]) => job[w].access.grant \in OpenGrants,
           tokens' \subseteq tokens, refreshTokens' \subseteq refreshTokens,
           UNCHANGED <<nextId, delivered>>
    PROVE  Life!Next
<1>1. PICK j : j = job[w]
  OBVIOUS
<1>2. Moves(w, l, j)
  BY <1>1, GotoFacts
<1>3. nextId' \in Nat /\ nextId' >= nextId
  BY DEF IndInv, BaseInv
<1> QED BY <1>1, <1>2, <1>3, CloseStep

(* renewRefreshToken finds the presented row: its grant is open already, so  *)
(* that the exchange, which goes on to insert, opens nothing.                *)
LEMMA LoadCloses ==
    ASSUME IndInv, NEW w \in Worker, LoadRenew(w)
    PROVE  Life!Next
<1>1. pc[w] = "loadRenew" /\ UNCHANGED <<tokens, refreshTokens, nextId, delivered>>
  BY DEF LoadRenew, tables, ghosts
<1>2. ASSUME NEW r \in refreshTokens, r.id = job[w].row.id,
             job' = [job EXCEPT ![w].row = r], Goto(w, "deleteOldRefresh")
      PROVE  Life!Next
  <2>1. /\ job[w] = [access |-> job[w].access, row |-> job[w].row, grants |-> job[w].grants]
        /\ r = job[w].row /\ job = [v \in Worker |-> job[v]]
    BY <1>1, <1>2 DEF IndInv, JobsInv, JobOK, Holds, HoldOK, Renewing, BaseInv
  <2>2. [job[w] EXCEPT !.row = r] = job[w]
    BY <2>1
  <2>3. job' = job
    BY <1>2, <2>1, <2>2
  <2>4. job[w].grants = {job[w].access.grant} /\ job[w].grants = {job[w].row.grant}
    BY <1>1 DEF IndInv, JobsInv, JobOK, Holds, MintOK, HoldOK, Minting, Renewing
  <2>5. job[w].access.grant = r.grant
    BY <2>1, <2>4
  <2>6. job[w].access.grant \in OpenGrants
    BY <2>5, OpenMember
  <2>7. "deleteOldRefresh" \in Location
    BY DEF Location
  <2> QED BY <1>1, <1>2, <2>3, <2>6, <2>7, OnwardClosed
<1>3. ASSUME Finish(w) PROVE Life!Next
  BY <1>1, <1>3, EndsClosed
<1> QED BY <1>2, <1>3 DEF LoadRenew

(* accessToken's INSERT: the response goes out only if no refresh token is   *)
(* to follow; until then no client holds the token.                          *)
LEMMA InsertAccessGives ==
    ASSUME IndInv, NEW w \in Worker, InsertAccess(w)
    PROVE  Life!Next
<1>1. PICK a, j : a = job[w].access /\ j = job[w]
  OBVIOUS
<1>2. /\ pc[w] = "insertAccess" /\ tokens' = tokens \cup {a}
      /\ UNCHANGED <<refreshTokens, nextId>>
  BY <1>1 DEF InsertAccess
<1>3. a.id \notin delivered /\ "insertAccess" \in Minting
  BY <1>1, <1>2 DEF IndInv, JobsInv, JobOK, MintOK, Minting
<1>4. ASSUME NEW l \in {"loadRenew", "insertRefresh"}, Goto(w, l), UNCHANGED <<job, delivered>>,
             l = "insertRefresh" => j.row = NoRow
      PROVE  Life!Next
  <2>1. Moves(w, l, j)
    BY <1>1, <1>4, GotoFacts DEF Location
  <2>2. Serves(l, j) => j.access.grant \in OpenGrants
    BY <1>1, <1>2, <1>4, OpenMember DEF Serves
  <2>3. OpenGrants' \subseteq OpenGrants
    BY <1>2, <2>1, <2>2, OpenAfter
  <2>4. HeldTokens' = HeldTokens
    BY <1>2, <1>3, <1>4 DEF HeldTokens
  <2>5. nextId' >= nextId
    BY <1>2 DEF IndInv, BaseInv
  <2> QED BY <2>3, <2>4, <2>5 DEF Life!Next, Life!Close
<1>5. ASSUME Finish(w), delivered' = delivered \cup {a.id}, j.row = NoRow
      PROVE  Life!Next
  <2>1. Serves(pc[w], job[w])
    BY <1>1, <1>2, <1>5 DEF Serves
  <2> QED BY <1>1, <1>2, <1>3, <1>5, <2>1, GiveStep
<1> QED BY <1>1, <1>4, <1>5 DEF InsertAccess

\* createRefreshToken and renewRefreshToken: the new refresh token is of the same grant.
LEMMA InsertPairGives ==
    ASSUME IndInv, NEW w \in Worker, InsertRefresh(w) \/ InsertRenewed(w)
    PROVE  Life!Next
<1>1. PICK a, q : a = job[w].access /\ q = job[w].row
  OBVIOUS
<1>2. /\ pc[w] \in {"insertRefresh", "insertRenewed"} /\ Finish(w)
      /\ delivered' = delivered \cup {a.id} /\ UNCHANGED <<tokens, nextId>>
  BY <1>1 DEF InsertRefresh, InsertRenewed
<1>3. pc[w] \in Minting /\ Serves(pc[w], job[w])
  BY <1>2 DEF Minting, Renewing, Serves
<1>4. ASSUME InsertRefresh(w), NEW r \in refreshTokens' \ refreshTokens
      PROVE  r.grant = a.grant
  <2>1. \E x : r = [id |-> a.refresh, client |-> a.client, user |-> a.subject,
                    scopes |-> a.scopes, access |-> a.id, expires |-> x, grant |-> a.grant]
    BY <1>1, <1>4 DEF InsertRefresh
  <2> QED BY <2>1
<1>5. ASSUME InsertRenewed(w), NEW r \in refreshTokens' \ refreshTokens
      PROVE  r.grant = a.grant
  <2>1. pc[w] = "insertRenewed"
    BY <1>5 DEF InsertRenewed
  <2>2. /\ q \in RefreshToken /\ job[w].grants = {q.grant} /\ job[w].grants = {a.grant}
    BY <1>1, <2>1 DEF IndInv, JobsInv, JobOK, Holds, MintOK, HoldOK, Minting, Renewing, Refresh
  <2>3. PICK x : x = clock + DefaultLifetime
    OBVIOUS
  <2>4. r = [q EXCEPT !.id = a.refresh, !.access = a.id, !.expires = x]
    BY <1>1, <1>5, <2>3 DEF InsertRenewed
  <2>5. r.grant = q.grant
    BY <2>2, <2>4 DEF RefreshToken
  <2> QED BY <2>2, <2>5
<1> QED BY <1>1, <1>2, <1>3, <1>4, <1>5, GiveStep

LEMMA InitMaps == Init => Life!Init
<1> SUFFICES ASSUME Init PROVE Life!Init
  OBVIOUS
<1>1. \A w \in Worker : pc[w] = "idle"
  BY DEF Init
<1>2. OpenGrants = {}
  BY <1>1, OpenMember DEF Init, Serves
<1>3. HeldTokens = {} /\ nextId = 1
  BY DEF Init, HeldTokens
<1> QED BY <1>2, <1>3 DEF Life!Init

LEMMA StepMaps == IndInv /\ [Next]_vars => [Life!Next]_(Life!vars)
<1> SUFFICES ASSUME IndInv, [Next]_vars PROVE Life!Next \/ UNCHANGED Life!vars
  OBVIOUS
<1>1. ASSUME NEW w \in Worker, NEW application, NEW c, NEW s, NEW sc, NEW offline,
             BeginGrant(w, application, NewGrant(c, s, sc), offline)
      PROVE  Life!Next
  <2>1. PICK g : g = NewGrant(c, s, sc)
    OBVIOUS
  <2>2. g.id = nextId
    BY <2>1 DEF NewGrant
  <2> QED BY <1>1, <2>1, <2>2, OpenStep
<1>2. ASSUME NEW w \in Worker,
             \/ StartLoginGrant(w) \/ StartDeviceGrant(w)
             \/ StartServiceGrant(w) \/ StartProfileGrant(w)
      PROVE  Life!Next
  BY <1>1, <1>2 DEF StartLoginGrant, StartDeviceGrant, StartServiceGrant, StartProfileGrant
<1>3. ASSUME NEW w \in Worker, NEW r \in refreshTokens, StartRefresh(w, r)
      PROVE  Life!Next
  <2>1. r # NoRow
    BY RowAssumption DEF IndInv, RowsInv, Refresh
  <2>2. PICK j : Begin(w, "insertAccess", j) /\ j.row = r
    BY <1>3 DEF StartRefresh
  <2>3. /\ nextId' = nextId + 2 /\ UNCHANGED <<tokens, refreshTokens, delivered>>
    BY <1>3 DEF StartRefresh
  <2>4. ~Serves("insertAccess", j) /\ "insertAccess" \in Location
    BY <2>1, <2>2 DEF Serves, Location
  <2> QED BY <2>2, <2>3, <2>4, BeginsClosed
<1>4. ASSUME NEW w \in Worker, NEW l \in {"revokeAccess", "revokeRefresh", "logoutRefresh"},
             NEW j, Begin(w, l, j), UNCHANGED <<tables, delivered>>
      PROVE  Life!Next
  <2>1. l \in Location /\ ~Serves(l, j)
    BY DEF Location, Serves
  <2> QED BY <1>4, <2>1, BeginsClosed DEF tables
<1>5. ASSUME NEW w \in Worker,
             \/ \E r \in refreshTokens : StartRevoke(w, r)
             \/ \E t \in tokens : StartRevokeAccess(w, t)
             \/ \E s \in Subject, c \in Client : StartLogout(w, s, c)
      PROVE  Life!Next
  BY <1>4, <1>5 DEF StartRevoke, StartRevokeAccess, StartLogout
<1>6. ASSUME NEW w \in Worker, DeleteOldRefresh(w) \/ DeleteOldAccess(w)
      PROVE  Life!Next
  <2>1. Serves(pc[w], job[w])
    BY <1>6 DEF DeleteOldRefresh, DeleteOldAccess, Serves
  <2>2. PICK l \in Location : Goto(w, l)
    BY <1>6 DEF DeleteOldRefresh, DeleteOldAccess, Location
  <2>3. job[w].access.grant \in OpenGrants
    BY <2>1, OpenMember
  <2>4. /\ job' = job /\ tokens' \subseteq tokens /\ refreshTokens' \subseteq refreshTokens
        /\ UNCHANGED <<nextId, delivered>>
    BY <1>6 DEF DeleteOldRefresh, DeleteOldAccess, ghosts
  <2> QED BY <2>2, <2>3, <2>4, OnwardClosed
<1>7. ASSUME NEW w \in Worker, RevokeRefresh(w) \/ RevokeRefreshFails(w) \/ LogoutRefresh(w)
      PROVE  Life!Next
  <2>1. PICK l \in {"revokePair", "revokeRest", "logoutTokens"} : Goto(w, l)
    BY <1>7 DEF RevokeRefresh, RevokeRefreshFails, LogoutRefresh
  <2>2. l \in Location /\ ~Serves(l, job[w])
    BY DEF Location, Serves
  <2>3. /\ job' = job /\ tokens' \subseteq tokens /\ refreshTokens' \subseteq refreshTokens
        /\ UNCHANGED <<nextId, delivered>>
    BY <1>7 DEF RevokeRefresh, RevokeRefreshFails, LogoutRefresh, tables, ghosts
  <2> QED BY <2>1, <2>2, <2>3, OnwardClosed
<1>8. ASSUME NEW w \in Worker,
             RevokeAccess(w) \/ RevokePair(w) \/ LogoutTokens(w) \/ StatementFails(w)
      PROVE  Life!Next
  <2>1. Finish(w) /\ tokens' \subseteq tokens /\ UNCHANGED <<refreshTokens, nextId, delivered>>
    BY <1>8 DEF RevokeAccess, RevokePair, LogoutTokens, StatementFails, tables, ghosts
  <2> QED BY <2>1, EndsClosed
<1>9. CASE Crash
  <2>1. /\ \A v \in Worker : pc'[v] = "idle"
        /\ UNCHANGED <<tokens, refreshTokens, nextId, delivered>>
    BY <1>9 DEF Crash, tables, ghosts
  <2>2. OpenGrants' \subseteq OpenGrants
    BY <2>1, OpenMember DEF Serves
  <2>3. HeldTokens' = HeldTokens /\ nextId' >= nextId
    BY <2>1 DEF HeldTokens, IndInv, BaseInv
  <2> QED BY <2>2, <2>3 DEF Life!Next, Life!Close
<1>10. ASSUME UNCHANGED <<tables, pc, job, ghosts>> PROVE UNCHANGED Life!vars
  BY <1>10 DEF tables, ghosts, OpenGrants, Serving, HeldTokens, Life!vars
<1>11. ASSUME NEW w \in Worker,
              \/ InsertAccess(w) \/ InsertRefresh(w) \/ InsertRenewed(w) \/ LoadRenew(w)
       PROVE  Life!Next
  BY <1>11, InsertAccessGives, InsertPairGives, LoadCloses
<1> QED
  BY <1>2, <1>3, <1>5, <1>6, <1>7, <1>8, <1>9, <1>10, <1>11 DEF Next, vars, Tick

(* Whatever handlers of one grant interleave, fail or are cut short: a       *)
(* client is given a token only for a grant that somebody authorised and     *)
(* that is still open, and a closed grant stays closed (accessToken,         *)
(* createRefreshToken, renewRefreshToken, RevokeToken, TerminateSession).    *)
THEOREM GrantsImplemented == Spec => ImplementsGrants
BY InitMaps, StepMaps, Invariant, PTL DEF Spec, ImplementsGrants, Life!Spec
=============================================================================
