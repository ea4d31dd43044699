------------------------ MODULE AuthRequestsProofs ------------------------
(***************************************************************************)
(* Proofs about AuthRequests, for any number of requests, handlers, users, *)
(* clients and codes: a token is one login's, required consent has been    *)
(* given by somebody, what is closed stays closed, and all of it           *)
(* implements Logins.                                                      *)
(***************************************************************************)
EXTENDS AuthRequests, TLAPS

-----------------------------------------------------------------------------
(* The inductive invariant.                                                *)

\* An id that has not been given out is not in use anywhere.
UsedInv ==
    /\ \A i \in RequestId \ used : /\ authRequests[i] = NoRequest
                                    /\ \A w \in Worker : job[w].id # i
    /\ \A c \in Code : authCodes[c] # NoRequest => authCodes[c] \in used
    /\ closed \subseteq used

(* What a handler knows where it is: a login writes a user who was picked,   *)
(* and only a row that was found is written back or answered with.           *)
JobOf(w) ==
    /\ pc[w] # "idle" => job[w].id \in RequestId
    /\ pc[w] \in {"load", "save"} =>
          /\ job[w].to \in {"set", "complete", "allow"}
          /\ job[w].to # "allow" => <<job[w].id, job[w].user>> \in chosen
    /\ pc[w] \in {"save", "issue"} => job[w].row \in Row
    /\ pc[w] = "idle" => job[w] = NoJob
JobInv == \A w \in Worker : JobOf(w)

(* A row of request i: unless somebody allowed it, its ACR is that of a user *)
(* who was picked, and if it is done, one login made it so; it is not done   *)
(* for a client that wants consent.                                          *)
Allowed(i) == \E s \in Subject : <<i, s>> \in allowed
Picked(i) == {u \in User \cup {NoUser} : <<i, u>> \in chosen}
OneLogin(i, row) == \/ row.acr \in Picked(i) \cap User /\ row.user = SubjectOf[row.acr]
                    \/ /\ row.user \in Picked(i) /\ <<i, row.user>> \in missed
                       /\ row.acr \in Picked(i) \cup {NoUser}
Sound(i, row) ==
    /\ Allowed(i) \/ row.acr \in Picked(i) \cup {NoUser}
    /\ row.done => /\ Allowed(i) \/ OneLogin(i, row)
                   /\ row.client \in ConsentClients => Allowed(i)
SoundInv ==
    /\ \A i \in RequestId : Exists(i) => Sound(i, authRequests[i])
    /\ \A w \in Worker : pc[w] # "idle" /\ job[w].row # NoRequest => Sound(job[w].id, job[w].row)
    /\ token # NoRequest => /\ token.row.done \/ Allowed(token.id)
                            /\ Sound(token.id, token.row)

(* Request i has one client, f[i], in the table and in every handler, and a  *)
(* login goes the way that this client requires.                             *)
ClientIs(f) ==
    /\ \A i \in RequestId : Exists(i) => authRequests[i].client = f[i]
    /\ \A w \in Worker : pc[w] # "idle" =>
          /\ job[w].row # NoRequest => job[w].row.client = f[job[w].id]
          /\ pc[w] \in {"load", "save"} /\ job[w].to = "set" => f[job[w].id] \in ConsentClients
          /\ pc[w] \in {"load", "save"} /\ job[w].to = "complete" =>
                 f[job[w].id] \notin ConsentClients

(* What a code stands for.  The row it leads to need not be done: a login for *)
(* a client with consent may write an older copy back over it, but by then    *)
(* somebody has allowed the request.                                          *)
Earned(f, i) == \/ Allowed(i)
                \/ f[i] \notin ConsentClients /\ (Exists(i) => authRequests[i].done)
EarnedBy(f) ==
    /\ \A c \in Code : authCodes[c] # NoRequest => Earned(f, authCodes[c])
    /\ \A w \in Worker : pc[w] \in {"saveCode", "loadByCode"} => Earned(f, job[w].id)
    /\ \A w \in Worker : pc[w] = "issue" => job[w].row.done \/ Allowed(job[w].id)
ClientInv == \E f \in [RequestId -> Client \cup {NoUser}] : ClientIs(f) /\ EarnedBy(f)

IndInv == /\ TypeOK /\ UsedInv /\ JobInv /\ ClientInv /\ SoundInv /\ ClosedForGood

-----------------------------------------------------------------------------
(* The invariant holds of the empty tables. *)
LEMMA InitInv == Init => IndInv
<1> SUFFICES ASSUME Init PROVE IndInv
  OBVIOUS
<1>1. NoJob \in Job
  BY DEF NoJob, Job, Subject, Purpose
<1>2. TypeOK
  BY <1>1 DEF Init, TypeOK, Location
<1>3. UsedInv /\ JobInv /\ SoundInv /\ ClosedForGood
  BY NoRequestAssumption DEF Init, UsedInv, JobInv, JobOf, SoundInv, ClosedForGood, Exists, NoJob
<1>4. ClientIs([i \in RequestId |-> NoUser]) /\ EarnedBy([i \in RequestId |-> NoUser])
  BY DEF Init, ClientIs, EarnedBy, Exists
<1> QED
  BY <1>2, <1>3, <1>4 DEF IndInv, ClientInv

-----------------------------------------------------------------------------
(* A handler's local variables after a SELECT. *)
LEMMA ReadJob ==
    ASSUME TypeOK, NEW w \in Worker, job[w].id \in RequestId, Read(w)
    PROVE  /\ job' \in [Worker -> Job]
           /\ job'[w].row = authRequests[job[w].id]
           /\ job'[w].id = job[w].id /\ job'[w].user = job[w].user /\ job'[w].to = job[w].to
           /\ \A v \in Worker \ {w} : job'[v] = job[v]
<1> DEFINE j == [job[w] EXCEPT !.row = authRequests[job[w].id]]
<1>1. job' = [job EXCEPT ![w] = j]
  BY DEF Read, TypeOK
<1>2. /\ j \in Job /\ j.row = authRequests[job[w].id]
      /\ j.id = job[w].id /\ j.user = job[w].user /\ j.to = job[w].to
  BY DEF TypeOK, Job
<1> HIDE DEF j
<1> QED
  BY <1>1, <1>2 DEF TypeOK

(* The row that Save writes, and all that it does, once GetUser has answered. *)
SavedRow(w, found) ==
    IF job[w].to = "set" THEN [job[w].row EXCEPT !.user = job[w].user]
                         ELSE Completed(job[w].row, job[w].user, found)
SaveAs(w, found) ==
    /\ pc[w] = "save" /\ Finish(w)
    /\ found => job[w].to # "set" /\ job[w].user \in User
    /\ authRequests' = [authRequests EXCEPT ![job[w].id] = SavedRow(w, found)]
    /\ missed' = IF job[w].to = "set" \/ found THEN missed
                 ELSE missed \cup {<<job[w].id, job[w].user>>}
    /\ allowed' = IF job[w].to = "allow"
                  THEN allowed \cup {<<job[w].id, SavedRow(w, found).user>>} ELSE allowed
    /\ UNCHANGED <<authCodes, used, token, chosen, closed>>

LEMMA SavedRowType ==
    ASSUME TypeOK, NEW w \in Worker, job[w].row \in Row,
           NEW found \in BOOLEAN, found => job[w].user \in User
    PROVE  /\ SavedRow(w, found) \in Row /\ SavedRow(w, found).client = job[w].row.client
           /\ SavedRow(w, found).flow = job[w].row.flow
           /\ job[w].to = "set" => SavedRow(w, found) = [job[w].row EXCEPT !.user = job[w].user]
           /\ job[w].to # "set" => SavedRow(w, found).done
           /\ job[w].to # "set" /\ found =>
                  /\ SavedRow(w, found).user = SubjectOf[job[w].user]
                  /\ SavedRow(w, found).acr = job[w].user
           /\ job[w].to = "set" \/ ~found =>
                  /\ SavedRow(w, found).user = job[w].user
                  /\ SavedRow(w, found).acr = job[w].row.acr
<1>1. job[w].user \in Subject
  BY DEF TypeOK, Job
<1>2. CASE job[w].to = "set"
  BY <1>1, <1>2 DEF SavedRow, Row
<1>3. CASE job[w].to # "set"
  <2>1. CASE found
    BY <1>1, <1>3, <2>1 DEF SavedRow, Completed, Row, Subject
  <2>2. CASE ~found
    BY <1>1, <1>3, <2>2 DEF SavedRow, Completed, Row
  <2> QED BY <2>1, <2>2
<1> QED BY <1>2, <1>3

LEMMA SaveFacts ==
    ASSUME NEW w \in Worker, Save(w)
    PROVE  \E found \in BOOLEAN : SaveAs(w, found)
BY DEF Save, SaveAs, SavedRow

(* A step keeps every variable in its type. *)
LEMMA TypeStep == IndInv /\ [Next]_vars => TypeOK'
<1> SUFFICES ASSUME IndInv, [Next]_vars PROVE TypeOK'
  OBVIOUS
<1> USE NoRequestAssumption
    DEF IndInv, TypeOK, JobInv, JobOf, Begin, Goto, Finish, Exists, Location, Job, NoJob, Purpose,
        Subject, tables, ghosts
<1>1. ASSUME NEW i \in RequestId, CreateAuthRequest(i) PROVE TypeOK'
  <2>1. PICK c \in Client, f \in {"code", "implicit"}, h \in Subject :
            authRequests' = [authRequests EXCEPT ![i] =
                [client |-> c, flow |-> f, user |-> h, done |-> FALSE, acr |-> NoUser]]
    BY <1>1 DEF CreateAuthRequest
  <2>2. [client |-> c, flow |-> f, user |-> h, done |-> FALSE, acr |-> NoUser] \in Row
    BY DEF Row
  <2> HIDE DEF Subject, NoJob, Job
  <2> QED BY <1>1, <2>1, <2>2 DEF CreateAuthRequest
<1>2. ASSUME NEW w \in Worker, NEW i \in RequestId, NEW u \in User \cup {NoUser}, Login(w, i, u) PROVE TypeOK'
  <2>1. PICK p \in {"set", "complete"} : Begin(w, "load", [NoJob EXCEPT !.id = i, !.user = u, !.to = p])
    BY <1>2 DEF Login
  <2>2. [NoJob EXCEPT !.id = i, !.user = u, !.to = p] \in Job
    OBVIOUS
  <2> HIDE DEF NoJob, Job
  <2> QED BY <1>2, <2>1, <2>2 DEF Login
<1>3. ASSUME NEW w \in Worker, NEW i \in RequestId, Consent(w, i) PROVE TypeOK'
  <2>1. authRequests[i].user \in Subject
    BY <1>3 DEF Consent, Row
  <2>2. /\ [NoJob EXCEPT !.id = i, !.user = authRequests[i].user, !.to = "allow"] \in Job
        /\ [NoJob EXCEPT !.id = i, !.to = "deny"] \in Job
    BY <2>1
  <2> HIDE DEF NoJob, Job
  <2> QED BY <1>3, <2>2 DEF Consent
<1>4. ASSUME NEW w \in Worker, NEW i \in RequestId, Callback(w, i) PROVE TypeOK'
  BY <1>4 DEF Callback
<1>5. ASSUME NEW w \in Worker, NEW c \in Code, Exchange(w, c) PROVE TypeOK'
  BY <1>5 DEF Exchange
<1>6. ASSUME NEW w \in Worker, Load(w) PROVE TypeOK'
  <2>1. NoJob \in Job /\ job[w].id \in RequestId
    BY <1>6 DEF Load
  <2> HIDE DEF NoJob, Job, Subject
  <2>2. CASE Exists(job[w].id)
    <3>1. job' \in [Worker -> Job]
      BY <1>6, <2>1, <2>2, ReadJob DEF Load
    <3> QED BY <1>6, <2>2, <3>1 DEF Load
  <2>3. CASE ~Exists(job[w].id)
    BY <1>6, <2>1, <2>3 DEF Load
  <2> QED BY <2>2, <2>3
<1>7. ASSUME NEW w \in Worker, Save(w) PROVE TypeOK'
  <2>1. NoJob \in Job /\ job[w].id \in RequestId /\ job[w].row \in Row
    BY <1>7 DEF Save
  <2>2. PICK found \in BOOLEAN : SaveAs(w, found)
    BY <1>7, SaveFacts
  <2>3. SavedRow(w, found) \in Row /\ SavedRow(w, found).user \in Subject
    BY <2>1, <2>2, SavedRowType DEF SaveAs, Row
  <2>4. job[w].user \in Subject
    OBVIOUS
  <2> HIDE DEF NoJob, Job, Subject, JobInv
  <2> QED BY <2>1, <2>2, <2>3, <2>4 DEF SaveAs
<1>8. ASSUME NEW w \in Worker, SaveAuthCode(w) PROVE TypeOK'
  BY <1>8 DEF SaveAuthCode
<1>9. ASSUME NEW w \in Worker, LoadByCode(w) PROVE TypeOK'
  <2>1. NoJob \in Job /\ job[w].id \in RequestId
    BY <1>9 DEF LoadByCode
  <2> HIDE DEF NoJob, Job, Subject
  <2>2. CASE Exists(job[w].id)
    <3>1. job' \in [Worker -> Job]
      BY <1>9, <2>1, <2>2, ReadJob DEF LoadByCode
    <3> QED BY <1>9, <2>2, <3>1 DEF LoadByCode
  <2>3. CASE ~Exists(job[w].id)
    BY <1>9, <2>1, <2>3 DEF LoadByCode
  <2> QED BY <2>2, <2>3
<1>10. ASSUME NEW w \in Worker, Issue(w) PROVE TypeOK'
  BY <1>10 DEF Issue
<1>11. ASSUME NEW w \in Worker, DeleteCodes(w) PROVE TypeOK'
  BY <1>11 DEF DeleteCodes
<1>12. ASSUME NEW w \in Worker, DeleteRequest(w) PROVE TypeOK'
  BY <1>12 DEF DeleteRequest
<1>13. ASSUME NEW w \in Worker, StatementFails(w) PROVE TypeOK'
  BY <1>13 DEF StatementFails
<1>14. CASE Crash
  BY <1>14 DEF Crash
<1>15. CASE UNCHANGED vars
  BY <1>15 DEF vars
<1> QED
  BY <1>1, <1>2, <1>3, <1>4, <1>5, <1>6, <1>7, <1>8, <1>9, <1>10, <1>11, <1>12, <1>13, <1>14, <1>15 DEF Next

(* What an action changes, flattened: the handler that moves and the others. *)
LEMMA BeginFacts ==
    ASSUME TypeOK, NEW w \in Worker, NEW l, NEW j, Begin(w, l, j)
    PROVE  /\ pc[w] = "idle" /\ pc'[w] = l /\ job'[w] = j
           /\ \A v \in Worker \ {w} : pc'[v] = pc[v] /\ job'[v] = job[v]
BY DEF TypeOK, Begin, Goto

LEMMA FinishFacts ==
    ASSUME TypeOK, NEW w \in Worker, Finish(w)
    PROVE  /\ pc'[w] = "idle" /\ job'[w] = NoJob
           /\ \A v \in Worker \ {w} : pc'[v] = pc[v] /\ job'[v] = job[v]
BY DEF TypeOK, Finish, Goto

LEMMA LoginFacts ==
    ASSUME TypeOK, NEW w \in Worker, NEW i \in RequestId, NEW u \in User \cup {NoUser}, Login(w, i, u)
    PROVE  /\ Exists(i) /\ pc[w] = "idle" /\ pc'[w] = "load"
           /\ job'[w].id = i /\ job'[w].user = u /\ job'[w].row = NoRequest
           /\ job'[w].to = IF authRequests[i].client \in ConsentClients THEN "set" ELSE "complete"
           /\ chosen' = chosen \cup {<<i, u>>}
           /\ \A v \in Worker \ {w} : pc'[v] = pc[v] /\ job'[v] = job[v]
           /\ UNCHANGED <<authRequests, authCodes, used, token, missed, allowed, closed>>
<1> DEFINE p == IF authRequests[i].client \in ConsentClients THEN "set" ELSE "complete"
           j == [NoJob EXCEPT !.id = i, !.user = u, !.to = p]
<1>1. j.id = i /\ j.user = u /\ j.row = NoRequest /\ j.to = p
  BY DEF NoJob
<1>2. Begin(w, "load", j)
  BY DEF Login
<1> HIDE DEF j
<1> QED
  BY <1>1, <1>2, BeginFacts DEF Login, tables

LEMMA ConsentFacts ==
    ASSUME TypeOK, NEW w \in Worker, NEW i \in RequestId, Consent(w, i)
    PROVE  /\ Exists(i) /\ pc[w] = "idle" /\ job'[w].id = i /\ job'[w].row = NoRequest
           /\ \/ pc'[w] = "load" /\ job'[w].to = "allow"
              \/ pc'[w] = "deleteCodes" /\ job'[w].to = "deny"
           /\ \A v \in Worker \ {w} : pc'[v] = pc[v] /\ job'[v] = job[v]
           /\ UNCHANGED <<tables, ghosts>>
<1> DEFINE a == [NoJob EXCEPT !.id = i, !.user = authRequests[i].user, !.to = "allow"]
           d == [NoJob EXCEPT !.id = i, !.to = "deny"]
<1>1. /\ a.id = i /\ a.row = NoRequest /\ a.to = "allow"
      /\ d.id = i /\ d.row = NoRequest /\ d.to = "deny"
  BY DEF NoJob
<1>2. Begin(w, "load", a) \/ Begin(w, "deleteCodes", d)
  BY DEF Consent
<1> HIDE DEF a, d
<1>3. CASE Begin(w, "load", a)
  BY <1>1, <1>3, BeginFacts DEF Consent
<1>4. CASE Begin(w, "deleteCodes", d)
  BY <1>1, <1>4, BeginFacts DEF Consent
<1> QED
  BY <1>2, <1>3, <1>4

LEMMA CallbackFacts ==
    ASSUME TypeOK, NEW w \in Worker, NEW i \in RequestId, Callback(w, i)
    PROVE  /\ Exists(i) /\ authRequests[i].done /\ pc[w] = "idle"
           /\ pc'[w] \in {"saveCode", "issue"}
           /\ job'[w].id = i /\ job'[w].row = authRequests[i]
           /\ \A v \in Worker \ {w} : pc'[v] = pc[v] /\ job'[v] = job[v]
           /\ UNCHANGED <<tables, ghosts>>
<1> DEFINE l == IF authRequests[i].flow = "code" THEN "saveCode" ELSE "issue"
           j == [NoJob EXCEPT !.id = i, !.row = authRequests[i]]
<1>1. j.id = i /\ j.row = authRequests[i]
  BY DEF NoJob
<1>2. Begin(w, l, j)
  BY DEF Callback
<1> HIDE DEF j
<1> QED
  BY <1>1, <1>2, BeginFacts DEF Callback

LEMMA ExchangeFacts ==
    ASSUME TypeOK, NEW w \in Worker, NEW c \in Code, Exchange(w, c)
    PROVE  /\ authCodes[c] # NoRequest /\ pc[w] = "idle" /\ pc'[w] = "loadByCode"
           /\ job'[w].id = authCodes[c] /\ job'[w].row = NoRequest
           /\ \A v \in Worker \ {w} : pc'[v] = pc[v] /\ job'[v] = job[v]
           /\ UNCHANGED <<tables, ghosts>>
<1> DEFINE j == [NoJob EXCEPT !.id = authCodes[c]]
<1>1. j.id = authCodes[c] /\ j.row = NoRequest
  BY DEF NoJob
<1>2. Begin(w, "loadByCode", j)
  BY DEF Exchange
<1> HIDE DEF j
<1> QED
  BY <1>1, <1>2, BeginFacts DEF Exchange

(* An id is given out before it is used. *)
LEMMA UsedStep == IndInv /\ [Next]_vars => UsedInv'
<1> SUFFICES ASSUME IndInv, [Next]_vars PROVE UsedInv'
  OBVIOUS
<1> USE NoRequestAssumption
    DEF IndInv, TypeOK, UsedInv, JobInv, JobOf, Goto, Exists, NoJob, tables, ghosts
<1>1. ASSUME NEW i \in RequestId, CreateAuthRequest(i) PROVE UsedInv'
  BY <1>1 DEF CreateAuthRequest
<1>2. ASSUME NEW w \in Worker, NEW i \in RequestId, NEW u \in User \cup {NoUser}, Login(w, i, u) PROVE UsedInv'
  BY <1>2, LoginFacts
<1>3. ASSUME NEW w \in Worker, NEW i \in RequestId, Consent(w, i) PROVE UsedInv'
  BY <1>3, ConsentFacts
<1>4. ASSUME NEW w \in Worker, NEW i \in RequestId, Callback(w, i) PROVE UsedInv'
  BY <1>4, CallbackFacts
<1>5. ASSUME NEW w \in Worker, NEW c \in Code, Exchange(w, c) PROVE UsedInv'
  BY <1>5, ExchangeFacts
<1>6. ASSUME NEW w \in Worker, Load(w) PROVE UsedInv'
  <2>1. job[w].id \in RequestId
    BY <1>6 DEF Load, JobInv, JobOf
  <2>2. CASE Exists(job[w].id)
    BY <1>6, <2>1, <2>2, ReadJob DEF Load
  <2>3. CASE ~Exists(job[w].id)
    BY <1>6, <2>1, <2>3, FinishFacts DEF Load
  <2> QED BY <2>2, <2>3
<1>7. ASSUME NEW w \in Worker, Save(w) PROVE UsedInv'
  <2>1. PICK found \in BOOLEAN : SaveAs(w, found)
    BY <1>7, SaveFacts
  <2> QED BY <2>1, FinishFacts DEF SaveAs
<1>8. ASSUME NEW w \in Worker, SaveAuthCode(w) PROVE UsedInv'
  <2>1. /\ job[w].id \in RequestId /\ job[w].id \in used
        /\ Finish(w) /\ UNCHANGED <<authRequests, closed>>
    BY <1>8 DEF SaveAuthCode
  <2>2. PICK c \in Code \ used : /\ authCodes' = [authCodes EXCEPT ![c] = job[w].id]
                                /\ used' = used \cup {c}
    BY <1>8 DEF SaveAuthCode
  <2> QED BY <2>1, <2>2, FinishFacts
<1>9. ASSUME NEW w \in Worker, LoadByCode(w) PROVE UsedInv'
  <2>1. job[w].id \in RequestId
    BY <1>9 DEF LoadByCode, JobInv, JobOf
  <2>2. CASE Exists(job[w].id)
    BY <1>9, <2>1, <2>2, ReadJob DEF LoadByCode
  <2>3. CASE ~Exists(job[w].id)
    BY <1>9, <2>1, <2>3, FinishFacts DEF LoadByCode
  <2> QED BY <2>2, <2>3
<1>10. ASSUME NEW w \in Worker, Issue(w) PROVE UsedInv'
  BY <1>10 DEF Issue
<1>11. ASSUME NEW w \in Worker, DeleteCodes(w) PROVE UsedInv'
  BY <1>11 DEF DeleteCodes
<1>12. ASSUME NEW w \in Worker, DeleteRequest(w) PROVE UsedInv'
  <2>1. job[w].id \in RequestId /\ job[w].id \in used /\ Finish(w)
    BY <1>12 DEF DeleteRequest
  <2>2. closed' \subseteq closed \cup {job[w].id}
    BY <1>12 DEF DeleteRequest
  <2> QED BY <1>12, <2>1, <2>2, FinishFacts DEF DeleteRequest
<1>13. ASSUME NEW w \in Worker, StatementFails(w) PROVE UsedInv'
  BY <1>13, FinishFacts DEF StatementFails
<1>14. CASE Crash
  BY <1>14 DEF Crash, NoJob
<1>15. CASE UNCHANGED vars
  BY <1>15 DEF vars
<1> QED
  BY <1>1, <1>2, <1>3, <1>4, <1>5, <1>6, <1>7, <1>8, <1>9, <1>10, <1>11, <1>12, <1>13, <1>14, <1>15 DEF Next

(* A handler writes a user that was picked, and a row that it has read. *)
LEMMA JobStep == IndInv /\ [Next]_vars => JobInv'
<1> SUFFICES ASSUME IndInv, [Next]_vars PROVE JobInv'
  OBVIOUS
<1> USE NoRequestAssumption
    DEF IndInv, TypeOK, JobInv, JobOf, Goto, Exists, NoJob, tables, ghosts
<1>1. ASSUME NEW i \in RequestId, CreateAuthRequest(i) PROVE JobInv'
  BY <1>1 DEF CreateAuthRequest
<1>2. ASSUME NEW w \in Worker, NEW i \in RequestId, NEW u \in User \cup {NoUser}, Login(w, i, u) PROVE JobInv'
  BY <1>2, LoginFacts
<1>3. ASSUME NEW w \in Worker, NEW i \in RequestId, Consent(w, i) PROVE JobInv'
  BY <1>3, ConsentFacts
<1>4. ASSUME NEW w \in Worker, NEW i \in RequestId, Callback(w, i) PROVE JobInv'
  BY <1>4, CallbackFacts
<1>5. ASSUME NEW w \in Worker, NEW c \in Code, Exchange(w, c) PROVE JobInv'
  BY <1>5, ExchangeFacts
<1>6. ASSUME NEW w \in Worker, Load(w) PROVE JobInv'
  <2>1. job[w].id \in RequestId
    BY <1>6 DEF Load, JobInv, JobOf
  <2>2. CASE Exists(job[w].id)
    BY <1>6, <2>1, <2>2, ReadJob DEF Load
  <2>3. CASE ~Exists(job[w].id)
    BY <1>6, <2>1, <2>3, FinishFacts DEF Load
  <2> QED BY <2>2, <2>3
<1>7. ASSUME NEW w \in Worker, Save(w) PROVE JobInv'
  <2>1. PICK found \in BOOLEAN : SaveAs(w, found)
    BY <1>7, SaveFacts
  <2> QED BY <2>1, FinishFacts DEF SaveAs
<1>8. ASSUME NEW w \in Worker, SaveAuthCode(w) PROVE JobInv'
  BY <1>8, FinishFacts DEF SaveAuthCode
<1>9. ASSUME NEW w \in Worker, LoadByCode(w) PROVE JobInv'
  <2>1. job[w].id \in RequestId
    BY <1>9 DEF LoadByCode, JobInv, JobOf
  <2>2. CASE Exists(job[w].id)
    BY <1>9, <2>1, <2>2, ReadJob DEF LoadByCode
  <2>3. CASE ~Exists(job[w].id)
    BY <1>9, <2>1, <2>3, FinishFacts DEF LoadByCode
  <2> QED BY <2>2, <2>3
<1>10. ASSUME NEW w \in Worker, Issue(w) PROVE JobInv'
  BY <1>10 DEF Issue
<1>11. ASSUME NEW w \in Worker, DeleteCodes(w) PROVE JobInv'
  BY <1>11 DEF DeleteCodes
<1>12. ASSUME NEW w \in Worker, DeleteRequest(w) PROVE JobInv'
  BY <1>12, FinishFacts DEF DeleteRequest
<1>13. ASSUME NEW w \in Worker, StatementFails(w) PROVE JobInv'
  BY <1>13, FinishFacts DEF StatementFails
<1>14. CASE Crash
  BY <1>14 DEF Crash, NoJob
<1>15. CASE UNCHANGED vars
  BY <1>15 DEF vars
<1> QED
  BY <1>1, <1>2, <1>3, <1>4, <1>5, <1>6, <1>7, <1>8, <1>9, <1>10, <1>11, <1>12, <1>13, <1>14, <1>15 DEF Next

(* A closed request stays closed: nothing loads it, and nothing that loaded it is left. *)
LEMMA ClosedStep == IndInv /\ [Next]_vars => ClosedForGood'
<1> SUFFICES ASSUME IndInv, [Next]_vars PROVE ClosedForGood'
  OBVIOUS
<1> USE NoRequestAssumption
    DEF IndInv, TypeOK, UsedInv, JobInv, JobOf, ClosedForGood, Goto, Exists, NoJob, tables, ghosts
<1>1. ASSUME NEW i \in RequestId, CreateAuthRequest(i) PROVE ClosedForGood'
  BY <1>1 DEF CreateAuthRequest
<1>2. ASSUME NEW w \in Worker, NEW i \in RequestId, NEW u \in User \cup {NoUser}, Login(w, i, u) PROVE ClosedForGood'
  BY <1>2, LoginFacts
<1>3. ASSUME NEW w \in Worker, NEW i \in RequestId, Consent(w, i) PROVE ClosedForGood'
  BY <1>3, ConsentFacts
<1>4. ASSUME NEW w \in Worker, NEW i \in RequestId, Callback(w, i) PROVE ClosedForGood'
  BY <1>4, CallbackFacts
<1>5. ASSUME NEW w \in Worker, NEW c \in Code, Exchange(w, c) PROVE ClosedForGood'
  BY <1>5, ExchangeFacts
<1>6. ASSUME NEW w \in Worker, Load(w) PROVE ClosedForGood'
  <2>1. job[w].id \in RequestId
    BY <1>6 DEF Load, JobInv, JobOf
  <2>2. CASE Exists(job[w].id)
    BY <1>6, <2>1, <2>2, ReadJob DEF Load
  <2>3. CASE ~Exists(job[w].id)
    BY <1>6, <2>1, <2>3, FinishFacts DEF Load
  <2> QED BY <2>2, <2>3
<1>7. ASSUME NEW w \in Worker, Save(w) PROVE ClosedForGood'
  <2>1. PICK found \in BOOLEAN : SaveAs(w, found)
    BY <1>7, SaveFacts
  <2> QED BY <2>1, FinishFacts DEF SaveAs
<1>8. ASSUME NEW w \in Worker, SaveAuthCode(w) PROVE ClosedForGood'
  BY <1>8, FinishFacts DEF SaveAuthCode
<1>9. ASSUME NEW w \in Worker, LoadByCode(w) PROVE ClosedForGood'
  <2>1. job[w].id \in RequestId
    BY <1>9 DEF LoadByCode, JobInv, JobOf
  <2>2. CASE Exists(job[w].id)
    BY <1>9, <2>1, <2>2, ReadJob DEF LoadByCode
  <2>3. CASE ~Exists(job[w].id)
    BY <1>9, <2>1, <2>3, FinishFacts DEF LoadByCode
  <2> QED BY <2>2, <2>3
<1>10. ASSUME NEW w \in Worker, Issue(w) PROVE ClosedForGood'
  BY <1>10 DEF Issue
<1>11. ASSUME NEW w \in Worker, DeleteCodes(w) PROVE ClosedForGood'
  BY <1>11 DEF DeleteCodes
<1>12. ASSUME NEW w \in Worker, DeleteRequest(w) PROVE ClosedForGood'
  <2>1. /\ job[w].id \in RequestId /\ Finish(w)
        /\ authRequests' = [authRequests EXCEPT ![job[w].id] = NoRequest]
        /\ closed' = IF AboutToSave(job[w].id) THEN closed ELSE closed \cup {job[w].id}
    BY <1>12 DEF DeleteRequest
  <2>2. ASSUME NEW i \in closed' PROVE authRequests'[i] = NoRequest
    BY <2>1, <2>2
  <2>3. ASSUME NEW i \in closed', NEW v \in Worker, job'[v].id = i PROVE pc'[v] # "save"
    BY <2>1, <2>3, FinishFacts DEF AboutToSave
  <2> QED BY <2>2, <2>3
<1>13. ASSUME NEW w \in Worker, StatementFails(w) PROVE ClosedForGood'
  BY <1>13, FinishFacts DEF StatementFails
<1>14. CASE Crash
  BY <1>14 DEF Crash, NoJob
<1>15. CASE UNCHANGED vars
  BY <1>15 DEF vars
<1> QED
  BY <1>1, <1>2, <1>3, <1>4, <1>5, <1>6, <1>7, <1>8, <1>9, <1>10, <1>11, <1>12, <1>13, <1>14, <1>15 DEF Next

(* The client of a request never changes, and its codes are earned. *)
LEMMA ClientStep == IndInv /\ [Next]_vars => ClientInv'
<1> SUFFICES ASSUME IndInv, [Next]_vars PROVE ClientInv'
  OBVIOUS
<1>0. PICK f \in [RequestId -> Client \cup {NoUser}] : ClientIs(f) /\ EarnedBy(f)
  BY DEF IndInv, ClientInv
<1> USE <1>0, NoRequestAssumption
    DEF IndInv, TypeOK, UsedInv, JobInv, JobOf, Goto, Exists, NoJob, tables, ghosts
<1>1. ASSUME NEW i \in RequestId, CreateAuthRequest(i) PROVE ClientInv'
  <2>1. PICK c \in Client, l \in {"code", "implicit"}, h \in Subject :
            authRequests' = [authRequests EXCEPT ![i] =
                [client |-> c, flow |-> l, user |-> h, done |-> FALSE, acr |-> NoUser]]
    BY <1>1 DEF CreateAuthRequest
  <2> DEFINE r == [client |-> c, flow |-> l, user |-> h, done |-> FALSE, acr |-> NoUser]
             g == [f EXCEPT ![i] = c]
  <2>2. r.client = c /\ g \in [RequestId -> Client \cup {NoUser}] /\ g[i] = c
        /\ \A k \in RequestId \ {i} : g[k] = f[k]
    OBVIOUS
  <2>3. /\ i \notin used /\ \A w \in Worker : job[w].id # i
        /\ \A k \in Code : authCodes[k] # i
        /\ \A k \in RequestId \ {i} : authRequests'[k] = authRequests[k]
        /\ authRequests'[i] = r
        /\ UNCHANGED <<authCodes, pc, job, allowed>>
    <3>1. i \notin used /\ UNCHANGED <<authCodes, pc, job, allowed>>
      BY <1>1 DEF CreateAuthRequest
    <3>2. (\A w \in Worker : job[w].id # i) /\ (\A k \in Code : authCodes[k] # i)
      BY <3>1
    <3>3. authRequests'[i] = r /\ \A k \in RequestId \ {i} : authRequests'[k] = authRequests[k]
      BY <2>1
    <3> QED BY <3>1, <3>2, <3>3
  <2> HIDE DEF r, g
  <2>4. ClientIs(g)'
    <3>1. ASSUME NEW k \in RequestId, Exists(k)' PROVE authRequests'[k].client = g[k]
      BY <3>1, <2>2, <2>3 DEF ClientIs
    <3>2. ASSUME NEW v \in Worker, pc'[v] # "idle"
          PROVE  /\ job'[v].row # NoRequest => job'[v].row.client = g[job'[v].id]
                 /\ pc'[v] \in {"load", "save"} /\ job'[v].to = "set" =>
                        g[job'[v].id] \in ConsentClients
                 /\ pc'[v] \in {"load", "save"} /\ job'[v].to = "complete" =>
                        g[job'[v].id] \notin ConsentClients
      <4> HIDE DEF TypeOK, UsedInv
      <4>1. job[v].id \in RequestId \ {i} /\ g[job[v].id] = f[job[v].id]
        BY <3>2, <2>2, <2>3
      <4> QED BY <4>1, <3>2, <2>3 DEF ClientIs
    <3> QED BY <3>1, <3>2 DEF ClientIs
  <2>5. \A k \in RequestId \ {i} : Earned(f, k) => Earned(g, k)'
    BY <2>2, <2>3 DEF Earned, Allowed
  <2>6. \A k : Allowed(k)' <=> Allowed(k)
    BY <2>3 DEF Allowed
  <2>7. EarnedBy(g)'
    <3>1. ASSUME NEW x \in Code, authCodes'[x] # NoRequest PROVE Earned(g, authCodes[x])'
      BY <3>1, <2>3, <2>5, <2>6 DEF EarnedBy
    <3>2. ASSUME NEW v \in Worker, pc'[v] \in {"saveCode", "loadByCode"} PROVE Earned(g, job[v].id)'
      BY <3>2, <2>3, <2>5, <2>6 DEF EarnedBy
    <3>3. ASSUME NEW v \in Worker, pc'[v] = "issue" PROVE (job[v].row.done \/ Allowed(job[v].id))'
      BY <3>3, <2>3, <2>5, <2>6 DEF EarnedBy
    <3> QED BY <3>1, <3>2, <3>3 DEF EarnedBy
  <2> QED BY <2>2, <2>4, <2>7 DEF ClientInv
<1>2. ASSUME NEW w \in Worker, NEW i \in RequestId, NEW u \in User \cup {NoUser}, Login(w, i, u) PROVE (ClientIs(f) /\ EarnedBy(f))'
  <2>1. ClientIs(f)'
    BY <1>2, LoginFacts DEF ClientIs
  <2>2. \A k : (Allowed(k)' <=> Allowed(k)) /\ (Earned(f, k)' <=> Earned(f, k))
    BY <1>2, LoginFacts DEF Allowed, Earned
  <2>3. EarnedBy(f)'
    BY <2>2, <1>2, LoginFacts DEF EarnedBy
  <2> QED BY <2>1, <2>3
<1>3. ASSUME NEW w \in Worker, NEW i \in RequestId, Consent(w, i) PROVE (ClientIs(f) /\ EarnedBy(f))'
  <2>1. ClientIs(f)'
    BY <1>3, ConsentFacts DEF ClientIs
  <2>2. \A k : (Allowed(k)' <=> Allowed(k)) /\ (Earned(f, k)' <=> Earned(f, k))
    BY <1>3, ConsentFacts DEF Allowed, Earned
  <2>3. EarnedBy(f)'
    BY <2>2, <1>3, ConsentFacts DEF EarnedBy
  <2> QED BY <2>1, <2>3
<1>4. ASSUME NEW w \in Worker, NEW i \in RequestId, Callback(w, i) PROVE (ClientIs(f) /\ EarnedBy(f))'
  <2>1. ClientIs(f)'
    BY <1>4, CallbackFacts DEF ClientIs
  <2>2. \A k : (Allowed(k)' <=> Allowed(k)) /\ (Earned(f, k)' <=> Earned(f, k))
    BY <1>4, CallbackFacts DEF Allowed, Earned
  <2>3. Earned(f, i)
    BY <1>4, CallbackFacts DEF Earned, ClientIs, SoundInv, Sound
  <2>4. EarnedBy(f)'
    BY <2>2, <2>3, <1>4, CallbackFacts DEF EarnedBy
  <2> QED BY <2>1, <2>4
<1>5. ASSUME NEW w \in Worker, NEW c \in Code, Exchange(w, c) PROVE (ClientIs(f) /\ EarnedBy(f))'
  <2>1. ClientIs(f)'
    BY <1>5, ExchangeFacts DEF ClientIs
  <2>2. \A k : (Allowed(k)' <=> Allowed(k)) /\ (Earned(f, k)' <=> Earned(f, k))
    BY <1>5, ExchangeFacts DEF Allowed, Earned
  <2>3. EarnedBy(f)'
    BY <2>2, <1>5, ExchangeFacts DEF EarnedBy
  <2> QED BY <2>1, <2>3
<1>6. ASSUME NEW w \in Worker, Load(w) PROVE (ClientIs(f) /\ EarnedBy(f))'
  <2>1. job[w].id \in RequestId
    BY <1>6 DEF Load
  <2>2. CASE Exists(job[w].id)
    <3>1. ClientIs(f)'
      BY <1>6, <2>1, <2>2, ReadJob DEF Load, ClientIs
    <3>2. \A k : (Allowed(k)' <=> Allowed(k)) /\ (Earned(f, k)' <=> Earned(f, k))
      BY <1>6 DEF Load, Allowed, Earned
    <3>3. EarnedBy(f)'
      BY <1>6, <2>1, <2>2, <3>2, ReadJob DEF Load, EarnedBy
    <3> QED BY <3>1, <3>3
  <2>3. CASE ~Exists(job[w].id)
    <3>1. ClientIs(f)'
      BY <1>6, <2>1, <2>3, FinishFacts DEF Load, ClientIs
    <3>2. \A k : (Allowed(k)' <=> Allowed(k)) /\ (Earned(f, k)' <=> Earned(f, k))
      BY <1>6 DEF Load, Allowed, Earned
    <3>3. EarnedBy(f)'
      BY <1>6, <2>1, <2>3, <3>2, FinishFacts DEF Load, EarnedBy
    <3> QED BY <3>1, <3>3
  <2> QED BY <2>2, <2>3
<1>7. ASSUME NEW w \in Worker, Save(w) PROVE (ClientIs(f) /\ EarnedBy(f))'
  <2>1. /\ job[w].id \in RequestId /\ job[w].row \in Row /\ pc[w] = "save"
        /\ job[w].to \in {"set", "complete", "allow"}
    BY <1>7 DEF Save
  <2>0. PICK found \in BOOLEAN : SaveAs(w, found)
    BY <1>7, SaveFacts
  <2>2. /\ SavedRow(w, found) \in Row /\ SavedRow(w, found).client = f[job[w].id]
        /\ job[w].to # "set" => SavedRow(w, found).done
        /\ job[w].to = "set" => f[job[w].id] \in ConsentClients
    <3>1. job[w].row # NoRequest
      BY <2>1
    <3>2. /\ job[w].row.client = f[job[w].id]
          /\ job[w].to = "set" => f[job[w].id] \in ConsentClients
      BY <2>1, <3>1 DEF ClientIs
    <3> QED BY <2>0, <2>1, <3>2, SavedRowType DEF SaveAs
  <2>3. ClientIs(f)'
    BY <2>0, <2>1, <2>2, FinishFacts DEF SaveAs, ClientIs
  <2>4. \A k : Allowed(k) => Allowed(k)'
    BY <2>0 DEF SaveAs, Allowed
  <2>5. \A k \in RequestId : Earned(f, k) => Earned(f, k)'
    BY <2>0, <2>1, <2>2, <2>4 DEF SaveAs, Earned
  <2>6. EarnedBy(f)'
    <3>1. ASSUME NEW c \in Code, authCodes'[c] # NoRequest PROVE Earned(f, authCodes[c])'
      BY <3>1, <2>0, <2>1, <2>4, <2>5, FinishFacts DEF SaveAs, EarnedBy
    <3>2. ASSUME NEW v \in Worker, pc'[v] \in {"saveCode", "loadByCode"} PROVE Earned(f, job[v].id)'
      BY <3>2, <2>0, <2>1, <2>4, <2>5, FinishFacts DEF SaveAs, EarnedBy
    <3>3. ASSUME NEW v \in Worker, pc'[v] = "issue" PROVE (job[v].row.done \/ Allowed(job[v].id))'
      BY <3>3, <2>0, <2>1, <2>4, <2>5, FinishFacts DEF SaveAs, EarnedBy
    <3> QED BY <3>1, <3>2, <3>3 DEF EarnedBy
  <2> QED BY <2>3, <2>6
<1>8. ASSUME NEW w \in Worker, SaveAuthCode(w) PROVE (ClientIs(f) /\ EarnedBy(f))'
  <2>1. /\ job[w].id \in RequestId /\ Earned(f, job[w].id) /\ Finish(w)
        /\ UNCHANGED <<authRequests, allowed>>
    BY <1>8 DEF SaveAuthCode, EarnedBy
  <2>2. PICK c \in Code : authCodes' = [authCodes EXCEPT ![c] = job[w].id]
    BY <1>8 DEF SaveAuthCode
  <2>3. ClientIs(f)'
    BY <2>1, FinishFacts DEF ClientIs
  <2>4. \A k : (Allowed(k)' <=> Allowed(k)) /\ (Earned(f, k)' <=> Earned(f, k))
    BY <2>1 DEF Allowed, Earned
  <2>5. EarnedBy(f)'
    BY <2>1, <2>2, <2>4, FinishFacts DEF EarnedBy
  <2> QED BY <2>3, <2>5
<1>9. ASSUME NEW w \in Worker, LoadByCode(w) PROVE (ClientIs(f) /\ EarnedBy(f))'
  <2>1. job[w].id \in RequestId
    BY <1>9 DEF LoadByCode
  <2>2. CASE Exists(job[w].id)
    <3>1. ClientIs(f)'
      BY <1>9, <2>1, <2>2, ReadJob DEF LoadByCode, ClientIs
    <3>2. \A k : (Allowed(k)' <=> Allowed(k)) /\ (Earned(f, k)' <=> Earned(f, k))
      BY <1>9 DEF LoadByCode, Allowed, Earned
    <3>3. EarnedBy(f)'
      BY <1>9, <2>1, <2>2, <3>2, ReadJob DEF LoadByCode, EarnedBy, Earned
    <3> QED BY <3>1, <3>3
  <2>3. CASE ~Exists(job[w].id)
    <3>1. ClientIs(f)'
      BY <1>9, <2>1, <2>3, FinishFacts DEF LoadByCode, ClientIs
    <3>2. \A k : (Allowed(k)' <=> Allowed(k)) /\ (Earned(f, k)' <=> Earned(f, k))
      BY <1>9 DEF LoadByCode, Allowed, Earned
    <3>3. EarnedBy(f)'
      BY <1>9, <2>1, <2>3, <3>2, FinishFacts DEF LoadByCode, EarnedBy
    <3> QED BY <3>1, <3>3
  <2> QED BY <2>2, <2>3
<1>10. ASSUME NEW w \in Worker, Issue(w) PROVE (ClientIs(f) /\ EarnedBy(f))'
  <2>1. ClientIs(f)'
    BY <1>10 DEF Issue, ClientIs
  <2>2. \A k : (Allowed(k)' <=> Allowed(k)) /\ (Earned(f, k)' <=> Earned(f, k))
    BY <1>10 DEF Issue, Allowed, Earned
  <2>3. EarnedBy(f)'
    BY <2>2, <1>10 DEF Issue, EarnedBy
  <2> QED BY <2>1, <2>3
<1>11. ASSUME NEW w \in Worker, DeleteCodes(w) PROVE (ClientIs(f) /\ EarnedBy(f))'
  <2>1. ClientIs(f)'
    BY <1>11 DEF DeleteCodes, ClientIs
  <2>2. \A k : (Allowed(k)' <=> Allowed(k)) /\ (Earned(f, k)' <=> Earned(f, k))
    BY <1>11 DEF DeleteCodes, Allowed, Earned
  <2>3. EarnedBy(f)'
    BY <2>2, <1>11 DEF DeleteCodes, EarnedBy
  <2> QED BY <2>1, <2>3
<1>12. ASSUME NEW w \in Worker, DeleteRequest(w) PROVE (ClientIs(f) /\ EarnedBy(f))'
  <2>1. /\ job[w].id \in RequestId /\ Finish(w) /\ UNCHANGED <<authCodes, allowed>>
        /\ authRequests' = [authRequests EXCEPT ![job[w].id] = NoRequest]
    BY <1>12 DEF DeleteRequest
  <2>2. ClientIs(f)'
    BY <2>1, FinishFacts DEF ClientIs
  <2>3. \A k \in RequestId : (Allowed(k)' <=> Allowed(k)) /\ (Earned(f, k) => Earned(f, k)')
    BY <2>1 DEF Allowed, Earned
  <2>4. EarnedBy(f)'
    <3>1. ASSUME NEW c \in Code, authCodes'[c] # NoRequest PROVE Earned(f, authCodes[c])'
      BY <3>1, <2>1, <2>3, FinishFacts DEF EarnedBy
    <3>2. ASSUME NEW v \in Worker, pc'[v] \in {"saveCode", "loadByCode"} PROVE Earned(f, job[v].id)'
      BY <3>2, <2>1, <2>3, FinishFacts DEF EarnedBy
    <3>3. ASSUME NEW v \in Worker, pc'[v] = "issue" PROVE (job[v].row.done \/ Allowed(job[v].id))'
      BY <3>3, <2>1, <2>3, FinishFacts DEF EarnedBy
    <3> QED BY <3>1, <3>2, <3>3 DEF EarnedBy
  <2> QED BY <2>2, <2>4
<1>13. ASSUME NEW w \in Worker, StatementFails(w) PROVE (ClientIs(f) /\ EarnedBy(f))'
  <2>1. ClientIs(f)'
    BY <1>13, FinishFacts DEF StatementFails, ClientIs
  <2>2. \A k : (Allowed(k)' <=> Allowed(k)) /\ (Earned(f, k)' <=> Earned(f, k))
    BY <1>13, FinishFacts DEF StatementFails, Allowed, Earned
  <2>3. EarnedBy(f)'
    BY <2>2, <1>13, FinishFacts DEF StatementFails, EarnedBy
  <2> QED BY <2>1, <2>3
<1>14. ASSUME Crash PROVE (ClientIs(f) /\ EarnedBy(f))'
  <2>1. ClientIs(f)'
    BY <1>14 DEF Crash, ClientIs
  <2>2. \A k : (Allowed(k)' <=> Allowed(k)) /\ (Earned(f, k)' <=> Earned(f, k))
    BY <1>14 DEF Crash, Allowed, Earned
  <2>3. EarnedBy(f)'
    BY <2>2, <1>14 DEF Crash, EarnedBy
  <2> QED BY <2>1, <2>3
<1>15. ASSUME UNCHANGED vars PROVE (ClientIs(f) /\ EarnedBy(f))'
  <2>1. ClientIs(f)'
    BY <1>15 DEF vars, ClientIs
  <2>2. \A k : (Allowed(k)' <=> Allowed(k)) /\ (Earned(f, k)' <=> Earned(f, k))
    BY <1>15 DEF vars, Allowed, Earned
  <2>3. EarnedBy(f)'
    BY <2>2, <1>15 DEF vars, EarnedBy
  <2> QED BY <2>1, <2>3
<1> QED
  BY <1>1, <1>2, <1>3, <1>4, <1>5, <1>6, <1>7, <1>8, <1>9, <1>10, <1>11, <1>12, <1>13, <1>14, <1>15 DEF Next, ClientInv

(* What a row may be answered with is not taken back. *)
LEMMA SoundStays ==
    ASSUME allowed \subseteq allowed', chosen \subseteq chosen', missed \subseteq missed'
    PROVE  \A i, row : (Allowed(i) => Allowed(i)') /\ (Sound(i, row) => Sound(i, row)')
BY DEF Allowed, Picked, OneLogin, Sound

(* Every step keeps what a done row may be answered with. *)
LEMMA SoundStep == IndInv /\ [Next]_vars => SoundInv'
<1> SUFFICES ASSUME IndInv, [Next]_vars PROVE SoundInv'
  OBVIOUS
<1> USE NoRequestAssumption
    DEF IndInv, TypeOK, JobInv, JobOf, SoundInv, Goto, Exists, NoJob, tables, ghosts
<1>1. ASSUME NEW i \in RequestId, CreateAuthRequest(i) PROVE SoundInv'
  <2>1. \A k, r : (Allowed(k) => Allowed(k)') /\ (Sound(k, r) => Sound(k, r)')
    BY <1>1, SoundStays DEF CreateAuthRequest
  <2>2. PICK c \in Client, l \in {"code", "implicit"}, h \in Subject :
            authRequests' = [authRequests EXCEPT ![i] =
                [client |-> c, flow |-> l, user |-> h, done |-> FALSE, acr |-> NoUser]]
    BY <1>1 DEF CreateAuthRequest
  <2>3. authRequests'[i].done = FALSE /\ authRequests'[i].acr = NoUser
    BY <2>2
  <2>4. Sound(i, authRequests[i])'
    BY <2>3 DEF Sound
  <2>5. \A k \in RequestId \ {i} : authRequests'[k] = authRequests[k]
    BY <2>2
  <2> QED BY <1>1, <2>1, <2>4, <2>5 DEF CreateAuthRequest
<1>2. ASSUME NEW w \in Worker, NEW i \in RequestId, NEW u \in User \cup {NoUser}, Login(w, i, u) PROVE SoundInv'
  <2>1. \A k, r : (Allowed(k) => Allowed(k)') /\ (Sound(k, r) => Sound(k, r)')
    <3> HIDE DEF TypeOK, JobInv, SoundInv
    <3>1. allowed \subseteq allowed' /\ chosen \subseteq chosen' /\ missed \subseteq missed'
      BY <1>2, LoginFacts
    <3> QED BY <3>1, SoundStays
  <2>2. SoundInv'
    BY <2>1, <1>2, LoginFacts
  <2> QED BY <2>2
<1>3. ASSUME NEW w \in Worker, NEW i \in RequestId, Consent(w, i) PROVE SoundInv'
  <2>1. \A k, r : (Allowed(k) => Allowed(k)') /\ (Sound(k, r) => Sound(k, r)')
    <3> HIDE DEF TypeOK, JobInv, SoundInv
    <3>1. UNCHANGED ghosts
      BY <1>3, ConsentFacts
    <3> QED BY <3>1, SoundStays
  <2>2. SoundInv'
    BY <2>1, <1>3, ConsentFacts
  <2> QED BY <2>2
<1>4. ASSUME NEW w \in Worker, NEW i \in RequestId, Callback(w, i) PROVE SoundInv'
  <2>1. \A k, r : (Allowed(k) => Allowed(k)') /\ (Sound(k, r) => Sound(k, r)')
    <3> HIDE DEF TypeOK, JobInv, SoundInv
    <3>1. UNCHANGED ghosts
      BY <1>4, CallbackFacts
    <3> QED BY <3>1, SoundStays
  <2>2. SoundInv'
    BY <2>1, <1>4, CallbackFacts
  <2> QED BY <2>2
<1>5. ASSUME NEW w \in Worker, NEW c \in Code, Exchange(w, c) PROVE SoundInv'
  <2>1. \A k, r : (Allowed(k) => Allowed(k)') /\ (Sound(k, r) => Sound(k, r)')
    <3> HIDE DEF TypeOK, JobInv, SoundInv
    <3>1. UNCHANGED ghosts
      BY <1>5, ExchangeFacts
    <3> QED BY <3>1, SoundStays
  <2>2. SoundInv'
    BY <2>1, <1>5, ExchangeFacts
  <2> QED BY <2>2
<1>6. ASSUME NEW w \in Worker, Load(w) PROVE SoundInv'
  <2>1. job[w].id \in RequestId
    BY <1>6 DEF Load
  <2>2. \A k, r : (Allowed(k) => Allowed(k)') /\ (Sound(k, r) => Sound(k, r)')
    BY <1>6, SoundStays DEF Load
  <2>3. CASE Exists(job[w].id)
    BY <1>6, <2>1, <2>2, <2>3, ReadJob DEF Load
  <2>4. CASE ~Exists(job[w].id)
    BY <1>6, <2>1, <2>2, <2>4, FinishFacts DEF Load
  <2> QED BY <2>3, <2>4
<1>7. ASSUME NEW w \in Worker, Save(w) PROVE SoundInv'
  <2>0. PICK found \in BOOLEAN : SaveAs(w, found)
    BY <1>7, SaveFacts
  <2> PICK i, r : i = job[w].id /\ r = SavedRow(w, found)
    OBVIOUS
  <2>1. \A k, x : (Allowed(k) => Allowed(k)') /\ (Sound(k, x) => Sound(k, x)')
    BY <2>0, SoundStays DEF SaveAs
  <2>2. /\ pc[w] = "save" /\ job[w].id \in RequestId /\ job[w].row \in Row /\ job[w].row # NoRequest
        /\ job[w].to \in {"set", "complete", "allow"}
        /\ job[w].to # "allow" => <<job[w].id, job[w].user>> \in chosen
    BY <2>0 DEF SaveAs
  <2>3. /\ r \in Row /\ r.user \in Subject /\ r.client = job[w].row.client
        /\ job[w].to = "set" => r.done = job[w].row.done /\ r.acr = job[w].row.acr
    BY <2>0, <2>2, SavedRowType DEF SaveAs, Row
  <2>4. /\ job[w].to = "set" => job[w].row.client \in ConsentClients
        /\ job[w].to = "complete" => job[w].row.client \notin ConsentClients
    BY <2>2 DEF ClientInv, ClientIs
  <2>5. Sound(i, job[w].row)
    BY <2>2
  <2>6. Sound(i, r)'
    <3>1. CASE job[w].to = "set"
      <4>1. (r.done => Allowed(i)) /\ (Allowed(i) \/ r.acr \in Picked(i) \cup {NoUser})
        BY <2>3, <2>4, <2>5, <3>1 DEF Sound
      <4>2. Sound(i, r)
        BY <4>1 DEF Sound
      <4> QED BY <2>1, <4>2
    <3>2. CASE job[w].to = "complete" /\ Allowed(i)
      BY <2>1, <3>2 DEF Sound
    <3>3. CASE job[w].to = "complete" /\ ~Allowed(i)
      <4>1. job[w].user \in Picked(i) /\ UNCHANGED <<chosen, allowed>> /\ Picked(i)' = Picked(i)
        <5>1. chosen \subseteq RequestId \X (User \cup {NoUser})
          OBVIOUS
        <5> QED BY <2>0, <2>2, <3>3, <5>1 DEF SaveAs, Picked
      <4>2. job[w].row.acr \in Picked(i) \cup {NoUser}
        BY <2>5, <3>3 DEF Sound
      <4>3. CASE found
        <5>1. /\ found => job[w].user \in User
              /\ r.acr = job[w].user /\ r.user = SubjectOf[job[w].user]
          BY <2>0, <2>2, <3>3, <4>3, SavedRowType DEF SaveAs
        <5> QED BY <2>3, <2>4, <3>3, <4>1, <4>3, <5>1 DEF Sound, OneLogin
      <4>4. CASE ~found
        <5>1. r.user = job[w].user /\ r.acr = job[w].row.acr /\ <<i, r.user>> \in missed'
          BY <2>0, <2>2, <3>3, <4>4, SavedRowType DEF SaveAs
        <5> QED BY <2>3, <2>4, <3>3, <4>1, <4>2, <5>1 DEF Sound, OneLogin
      <4> QED BY <4>3, <4>4
    <3>4. CASE job[w].to = "allow"
      <4>1. <<i, r.user>> \in allowed'
        BY <2>0, <3>4 DEF SaveAs
      <4>2. Allowed(i)'
        BY <2>3, <4>1 DEF Allowed
      <4> QED BY <4>2 DEF Sound
    <3> QED BY <2>2, <3>1, <3>2, <3>3, <3>4
  <2>7. /\ authRequests'[i] = r
        /\ \A k \in RequestId \ {i} : authRequests'[k] = authRequests[k]
    BY <2>0, <2>2 DEF SaveAs
  <2> QED BY <2>0, <2>1, <2>2, <2>6, <2>7, FinishFacts DEF SaveAs
<1>8. ASSUME NEW w \in Worker, SaveAuthCode(w) PROVE SoundInv'
  <2>1. \A k, r : (Allowed(k) => Allowed(k)') /\ (Sound(k, r) => Sound(k, r)')
    BY <1>8, FinishFacts, SoundStays DEF SaveAuthCode
  <2>2. SoundInv'
    BY <2>1, <1>8, FinishFacts DEF SaveAuthCode
  <2> QED BY <2>2
<1>9. ASSUME NEW w \in Worker, LoadByCode(w) PROVE SoundInv'
  <2>1. job[w].id \in RequestId
    BY <1>9 DEF LoadByCode
  <2>2. \A k, r : (Allowed(k) => Allowed(k)') /\ (Sound(k, r) => Sound(k, r)')
    BY <1>9, SoundStays DEF LoadByCode
  <2>3. CASE Exists(job[w].id)
    BY <1>9, <2>1, <2>2, <2>3, ReadJob DEF LoadByCode
  <2>4. CASE ~Exists(job[w].id)
    BY <1>9, <2>1, <2>2, <2>4, FinishFacts DEF LoadByCode
  <2> QED BY <2>3, <2>4
<1>10. ASSUME NEW w \in Worker, Issue(w) PROVE SoundInv'
  <2>1. \A k, r : (Allowed(k) => Allowed(k)') /\ (Sound(k, r) => Sound(k, r)')
    BY <1>10, SoundStays DEF Issue
  <2>2. /\ job[w].row \in Row /\ job[w].row # NoRequest
        /\ job[w].row.done \/ Allowed(job[w].id)
    BY <1>10 DEF Issue, ClientInv, EarnedBy
  <2>3. /\ token'.id = job[w].id /\ token'.row = job[w].row
        /\ UNCHANGED <<authRequests, job>> /\ \A v \in Worker : pc'[v] # "idle" => pc[v] # "idle"
    BY <1>10 DEF Issue
  <2>4. \A v \in Worker : pc[v] # "idle" /\ job[v].row # NoRequest => Sound(job[v].id, job[v].row)
    OBVIOUS
  <2> QED BY <1>10, <2>1, <2>2, <2>3, <2>4 DEF Issue
<1>11. ASSUME NEW w \in Worker, DeleteCodes(w) PROVE SoundInv'
  <2>1. \A k, r : (Allowed(k) => Allowed(k)') /\ (Sound(k, r) => Sound(k, r)')
    BY <1>11, SoundStays DEF DeleteCodes
  <2>2. SoundInv'
    BY <2>1, <1>11 DEF DeleteCodes
  <2> QED BY <2>2
<1>12. ASSUME NEW w \in Worker, DeleteRequest(w) PROVE SoundInv'
  <2>1. \A k, r : (Allowed(k) => Allowed(k)') /\ (Sound(k, r) => Sound(k, r)')
    BY <1>12, SoundStays DEF DeleteRequest
  <2>2. /\ job[w].id \in RequestId /\ Finish(w) /\ UNCHANGED token
        /\ authRequests' = [authRequests EXCEPT ![job[w].id] = NoRequest]
    BY <1>12 DEF DeleteRequest
  <2> QED BY <2>1, <2>2, FinishFacts
<1>13. ASSUME NEW w \in Worker, StatementFails(w) PROVE SoundInv'
  <2>1. \A k, r : (Allowed(k) => Allowed(k)') /\ (Sound(k, r) => Sound(k, r)')
    BY <1>13, FinishFacts, SoundStays DEF StatementFails
  <2>2. SoundInv'
    BY <2>1, <1>13, FinishFacts DEF StatementFails
  <2> QED BY <2>2
<1>14. CASE Crash
  <2>1. \A k, r : (Allowed(k) => Allowed(k)') /\ (Sound(k, r) => Sound(k, r)')
    BY <1>14, SoundStays DEF Crash
  <2>2. SoundInv'
    BY <2>1, <1>14 DEF Crash
  <2> QED BY <2>2
<1>15. CASE UNCHANGED vars
  <2>1. \A k, r : (Allowed(k) => Allowed(k)') /\ (Sound(k, r) => Sound(k, r)')
    BY <1>15, SoundStays DEF vars
  <2>2. SoundInv'
    BY <2>1, <1>15 DEF vars
  <2> QED BY <2>2
<1> QED
  BY <1>1, <1>2, <1>3, <1>4, <1>5, <1>6, <1>7, <1>8, <1>9, <1>10, <1>11, <1>12, <1>13, <1>14, <1>15 DEF Next

(* Every step keeps the invariant. *)
LEMMA Inductive == IndInv /\ [Next]_vars => IndInv'
BY TypeStep, UsedStep, JobStep, ClientStep, SoundStep, ClosedStep DEF IndInv

LEMMA Invariant == Spec => []IndInv
BY InitInv, Inductive, PTL DEF Spec

-----------------------------------------------------------------------------
(* The tables, the handlers and what is recorded about them are well typed. *)
THEOREM TypeCorrect == Spec => []TypeOK
<1>1. IndInv => TypeOK
  BY DEF IndInv
<1> QED
  BY Invariant, <1>1, PTL

(* However many logins overlap on one request, a token that no consent page  *)
(* completed names the subject and carries the ACR and AMR of one user who   *)
(* was picked for it; a login whose user was not found leaves its bare id,   *)
(* beside the ACR of a picked user or none (doLogin, CompleteAuthRequest).   *)
THEOREM TokenAlwaysOneLogin == Spec => []TokenIsOneLogin
<1>1. IndInv => TokenIsOneLogin
  BY DEF IndInv, SoundInv, Sound, Allowed, Picked, OneLogin, TokenIsOneLogin
<1> QED
  BY Invariant, <1>1, PTL

(* A client that requires consent gets no token before somebody has pressed  *)
(* Allow for the request (doLogin, doConsent, the callback's Done check).    *)
THEOREM ConsentIsGiven == Spec => []SomeoneAllowed
<1>1. IndInv => SomeoneAllowed
  BY DEF IndInv, SoundInv, Sound, Allowed, SomeoneAllowed
<1> QED
  BY Invariant, <1>1, PTL

(* A request that was deleted while no handler held a copy of it is never    *)
(* back in the table (DeleteAuthRequest, saveAuthRequest).                   *)
THEOREM ClosedStaysClosed == Spec => []ClosedForGood
<1>1. IndInv => ClosedForGood
  BY DEF IndInv
<1> QED
  BY Invariant, <1>1, PTL

-----------------------------------------------------------------------------
(* The refinement of Logins.  Whatever may be answered names an agreed       *)
(* subject: a row that is done, the row of a request with a code, and what a *)
(* handler will answer with.                                                 *)
Named(i, row) == <<i, row.user>> \in Agreed
NamedInv ==
    /\ \A i \in RequestId : Exists(i) /\ authRequests[i].done => Named(i, authRequests[i])
    /\ \A c \in Code : authCodes[c] # NoRequest /\ Exists(authCodes[c]) =>
           Named(authCodes[c], authRequests[authCodes[c]])
    /\ \A w \in Worker : pc[w] \in {"saveCode", "loadByCode"} /\ Exists(job[w].id) =>
           Named(job[w].id, authRequests[job[w].id])
    /\ \A w \in Worker : pc[w] = "issue" => Named(job[w].id, job[w].row)

\* An agreement is not taken back.
LEMMA AgreedStays ==
    ASSUME allowed \subseteq allowed', chosen \subseteq chosen'
    PROVE  Agreed \subseteq Agreed'
BY DEF Agreed

\* Rows and codes stay or go, and no handler gets anywhere where it matters.
LEMMA NamedStays ==
    ASSUME IndInv, NamedInv, Agreed \subseteq Agreed',
           \A i \in RequestId : authRequests'[i] \in {authRequests[i], NoRequest},
           \A c \in Code : authCodes'[c] \in {authCodes[c], NoRequest},
           \A v \in Worker : \/ pc'[v] \notin {"saveCode", "loadByCode", "issue"}
                             \/ pc'[v] = pc[v] /\ job'[v] = job[v]
    PROVE  NamedInv'
<1>1. /\ \A c \in Code : authCodes[c] # NoRequest => authCodes[c] \in RequestId
      /\ \A v \in Worker : pc[v] # "idle" => job[v].id \in RequestId
  BY DEF IndInv, TypeOK, JobInv, JobOf
<1> QED BY <1>1 DEF NamedInv, Named, Exists

\* What a save writes was agreed on: picked on the login page, or allowed by it.
LEMMA SavedNamed ==
    ASSUME IndInv, NEW w \in Worker, NEW found \in BOOLEAN, SaveAs(w, found)
    PROVE  <<job[w].id, SavedRow(w, found).user>> \in Agreed'
<1>1. /\ pc[w] = "save" /\ job[w].id \in RequestId /\ job[w].row \in Row
      /\ job[w].to \in {"set", "complete", "allow"}
      /\ job[w].to # "allow" => <<job[w].id, job[w].user>> \in chosen
      /\ chosen' = chosen
  BY DEF SaveAs, IndInv, TypeOK, JobInv, JobOf
<1>2. CASE job[w].to # "allow" /\ (job[w].to = "set" \/ ~found)
  <2>1. SavedRow(w, found).user = job[w].user
    BY <1>1, <1>2, SavedRowType DEF SaveAs, IndInv
  <2> QED BY <1>1, <1>2, <2>1 DEF Agreed
<1>3. CASE job[w].to = "complete" /\ found
  <2>1. SavedRow(w, found).user = SubjectOf[job[w].user] /\ job[w].user \in User
    BY <1>1, <1>3, SavedRowType DEF SaveAs, IndInv
  <2>2. PICK p \in chosen : p = <<job[w].id, job[w].user>>
    BY <1>1, <1>3
  <2>3. p[2] \in User /\ <<job[w].id, SavedRow(w, found).user>> = <<p[1], SubjectOf[p[2]]>>
    BY <2>1, <2>2
  <2> QED BY <1>1, <2>3 DEF Agreed
<1>4. CASE job[w].to = "allow"
  BY <1>4 DEF SaveAs, Agreed
<1> QED BY <1>1, <1>2, <1>3, <1>4

(* Every step keeps the names that may be answered with agreed on. *)
LEMMA NamedStep == IndInv /\ NamedInv /\ [Next]_vars => NamedInv'
<1> SUFFICES ASSUME IndInv, NamedInv, [Next]_vars PROVE NamedInv'
  OBVIOUS
<1> USE DEF IndInv
<1>1. ASSUME NEW i \in RequestId, CreateAuthRequest(i) PROVE NamedInv'
  <2>1. PICK c \in Client, f \in {"code", "implicit"}, h \in Subject :
            authRequests' = [authRequests EXCEPT ![i] =
                [client |-> c, flow |-> f, user |-> h, done |-> FALSE, acr |-> NoUser]]
    BY <1>1 DEF CreateAuthRequest
  <2>2. /\ authRequests'[i].done = FALSE
        /\ \A k \in RequestId \ {i} : authRequests'[k] = authRequests[k]
    BY <2>1 DEF TypeOK
  <2>3. /\ i \notin used /\ UNCHANGED <<authCodes, pc, job>> /\ Agreed' = Agreed
    BY <1>1 DEF CreateAuthRequest, ghosts, Agreed
  <2>4. /\ \A k \in Code : authCodes[k] # NoRequest => authCodes[k] \in RequestId \ {i}
        /\ \A v \in Worker : pc[v] # "idle" => job[v].id \in RequestId \ {i}
    BY <2>3 DEF TypeOK, UsedInv, JobInv, JobOf
  <2> QED BY <2>2, <2>3, <2>4 DEF NamedInv, Named, Exists
<1>2. ASSUME NEW w \in Worker, NEW i \in RequestId, NEW u \in User \cup {NoUser}, Login(w, i, u) PROVE NamedInv'
  BY <1>2, LoginFacts, AgreedStays, NamedStays
<1>3. ASSUME NEW w \in Worker, NEW i \in RequestId, Consent(w, i) PROVE NamedInv'
  BY <1>3, ConsentFacts, AgreedStays, NamedStays DEF tables, ghosts
<1>4. ASSUME NEW w \in Worker, NEW i \in RequestId, Callback(w, i) PROVE NamedInv'
  <2>1. Agreed' = Agreed
    BY <1>4, CallbackFacts DEF ghosts, Agreed
  <2>2. Named(i, authRequests[i])
    BY <1>4, CallbackFacts DEF NamedInv
  <2>3. \A v \in Worker : pc[v] # "idle" => job[v].id \in RequestId
    BY DEF JobInv, JobOf
  <2> QED BY <1>4, <2>1, <2>2, <2>3, CallbackFacts DEF tables, NamedInv, Named, Exists
<1>5. ASSUME NEW w \in Worker, NEW c \in Code, Exchange(w, c) PROVE NamedInv'
  <2>1. Agreed' = Agreed
    BY <1>5, ExchangeFacts DEF ghosts, Agreed
  <2>2. Exists(authCodes[c]) => Named(authCodes[c], authRequests[authCodes[c]])
    BY <1>5, ExchangeFacts DEF NamedInv
  <2> QED BY <1>5, <2>1, <2>2, ExchangeFacts DEF tables, NamedInv, Named, Exists
<1>6. ASSUME NEW w \in Worker, Load(w) PROVE NamedInv'
  <2>1. \A v \in Worker \ {w} : pc'[v] = pc[v] /\ job'[v] = job[v]
    BY <1>6, FinishFacts DEF Load, Read, Goto, TypeOK
  <2>2. pc'[w] \in {"save", "idle"}
    BY <1>6, FinishFacts DEF Load, Goto, TypeOK
  <2> QED BY <1>6, <2>1, <2>2, AgreedStays, NamedStays DEF Load, tables, ghosts
<1>7. ASSUME NEW w \in Worker, Save(w) PROVE NamedInv'
  <2>0. PICK found \in BOOLEAN : SaveAs(w, found)
    BY <1>7, SaveFacts
  <2>1. job[w].id \in RequestId
    BY <2>0 DEF SaveAs, JobInv, JobOf
  <2>2. /\ authRequests'[job[w].id].user = SavedRow(w, found).user
        /\ \A k \in RequestId \ {job[w].id} : authRequests'[k] = authRequests[k]
    BY <2>0, <2>1 DEF SaveAs, TypeOK
  <2>3. <<job[w].id, authRequests'[job[w].id].user>> \in Agreed'
    BY <2>0, <2>2, SavedNamed
  <2>4. Agreed \subseteq Agreed'
    BY <2>0, AgreedStays DEF SaveAs
  <2>5. /\ \A c \in Code : authCodes[c] # NoRequest => authCodes[c] \in RequestId
        /\ \A v \in Worker : pc[v] # "idle" => job[v].id \in RequestId
    BY DEF TypeOK, JobInv, JobOf
  <2>6. /\ authCodes' = authCodes /\ pc'[w] = "idle"
        /\ \A v \in Worker \ {w} : pc'[v] = pc[v] /\ job'[v] = job[v]
    BY <2>0, FinishFacts DEF SaveAs
  <2> QED BY <2>1, <2>2, <2>3, <2>4, <2>5, <2>6 DEF NamedInv, Named, Exists
<1>8. ASSUME NEW w \in Worker, SaveAuthCode(w) PROVE NamedInv'
  <2>1. PICK c \in Code : authCodes' = [authCodes EXCEPT ![c] = job[w].id]
    BY <1>8 DEF SaveAuthCode
  <2>2. /\ pc[w] = "saveCode" /\ UNCHANGED authRequests /\ Agreed' = Agreed
    BY <1>8 DEF SaveAuthCode, ghosts, Agreed
  <2>3. Exists(job[w].id) => Named(job[w].id, authRequests[job[w].id])
    BY <2>2 DEF NamedInv
  <2>4. /\ pc'[w] = "idle" /\ \A v \in Worker \ {w} : pc'[v] = pc[v] /\ job'[v] = job[v]
    BY <1>8, FinishFacts DEF SaveAuthCode
  <2>5. authCodes'[c] = job[w].id /\ \A k \in Code \ {c} : authCodes'[k] = authCodes[k]
    BY <2>1 DEF TypeOK
  <2> QED BY <2>2, <2>3, <2>4, <2>5 DEF NamedInv, Named, Exists
<1>9. ASSUME NEW w \in Worker, LoadByCode(w) PROVE NamedInv'
  <2>1. job[w].id \in RequestId
    BY <1>9 DEF LoadByCode, JobInv, JobOf
  <2>2. CASE Exists(job[w].id)
    <3>1. /\ Agreed' = Agreed /\ UNCHANGED <<authRequests, authCodes>>
          /\ Named(job[w].id, authRequests[job[w].id])
      BY <1>9, <2>2 DEF LoadByCode, tables, ghosts, Agreed, NamedInv
    <3>2. /\ pc'[w] = "issue" /\ \A v \in Worker \ {w} : pc'[v] = pc[v]
          /\ job'[w].row = authRequests[job[w].id] /\ job'[w].id = job[w].id
          /\ \A v \in Worker \ {w} : job'[v] = job[v]
      BY <1>9, <2>1, <2>2, ReadJob DEF LoadByCode, Goto, TypeOK
    <3> QED BY <3>1, <3>2 DEF NamedInv, Named, Exists
  <2>3. CASE ~Exists(job[w].id)
    BY <1>9, <2>3, FinishFacts, AgreedStays, NamedStays DEF LoadByCode, tables, ghosts
  <2> QED BY <2>2, <2>3
<1>10. ASSUME NEW w \in Worker, Issue(w) PROVE NamedInv'
  <2>1. /\ pc'[w] = "deleteCodes" /\ \A v \in Worker \ {w} : pc'[v] = pc[v]
        /\ UNCHANGED <<authRequests, authCodes, job, chosen, allowed>>
    BY <1>10 DEF Issue, Goto, TypeOK, tables
  <2> QED BY <2>1, AgreedStays, NamedStays
<1>11. ASSUME NEW w \in Worker, DeleteCodes(w) PROVE NamedInv'
  <2>1. /\ pc'[w] = "deleteRequest" /\ \A v \in Worker \ {w} : pc'[v] = pc[v]
        /\ UNCHANGED <<authRequests, job, chosen, allowed>>
        /\ \A c \in Code : authCodes'[c] \in {authCodes[c], NoRequest}
    BY <1>11 DEF DeleteCodes, Goto, TypeOK, ghosts
  <2> QED BY <2>1, AgreedStays, NamedStays
<1>12. ASSUME NEW w \in Worker, DeleteRequest(w) PROVE NamedInv'
  <2>1. \A k \in RequestId : authRequests'[k] \in {authRequests[k], NoRequest}
    BY <1>12 DEF DeleteRequest, TypeOK
  <2> QED BY <1>12, <2>1, FinishFacts, AgreedStays, NamedStays DEF DeleteRequest
<1>13. ASSUME NEW w \in Worker, StatementFails(w) PROVE NamedInv'
  BY <1>13, FinishFacts, AgreedStays, NamedStays DEF StatementFails, tables, ghosts
<1>14. CASE Crash
  BY <1>14, AgreedStays, NamedStays DEF Crash, tables, ghosts
<1>15. CASE UNCHANGED vars
  BY <1>15, AgreedStays, NamedStays DEF vars, tables, ghosts
<1> QED
  BY <1>1, <1>2, <1>3, <1>4, <1>5, <1>6, <1>7, <1>8, <1>9, <1>10, <1>11, <1>12, <1>13, <1>14, <1>15 DEF Next

LEMMA NamedAlways == Spec => []NamedInv
<1>1. Init => NamedInv
  BY DEF Init, NamedInv, Exists
<1> QED BY <1>1, NamedStep, Invariant, PTL DEF Spec

(* The open requests, element by element, before and after a step. *)
LEMMA OpenMember ==
    /\ \A q : q \in OpenRequests <=>
          \/ \E i \in RequestId : Exists(i) /\ q = Asked(i, authRequests[i])
          \/ \E w \in Worker : pc[w] \in {"save", "issue"} /\ q = Asked(job[w].id, job[w].row)
    /\ \A q : q \in OpenRequests' <=>
          \/ \E i \in RequestId : Exists(i)' /\ q = Asked(i, authRequests'[i])
          \/ \E w \in Worker : pc'[w] \in {"save", "issue"} /\ q = Asked(job'[w].id, job'[w].row)
BY DEF OpenRequests, Asked

\* A request is open after a step that writes only rows and copies of open ones.
LEMMA OpenAfter ==
    ASSUME \A i \in RequestId : Exists(i)' => \/ authRequests'[i] = authRequests[i]
                                              \/ Asked(i, authRequests'[i]) \in OpenRequests,
           \A w \in Worker : pc'[w] \in {"save", "issue"} =>
               \/ pc'[w] = pc[w] /\ job'[w] = job[w]
               \/ Asked(job'[w].id, job'[w].row) \in OpenRequests
    PROVE  OpenRequests' \subseteq OpenRequests
<1> SUFFICES ASSUME NEW q \in OpenRequests' PROVE q \in OpenRequests
  OBVIOUS
<1>1. CASE \E i \in RequestId : Exists(i)' /\ q = Asked(i, authRequests'[i])
  BY <1>1, OpenMember DEF Exists
<1>2. CASE \E w \in Worker : pc'[w] \in {"save", "issue"} /\ q = Asked(job'[w].id, job'[w].row)
  BY <1>2, OpenMember
<1> QED BY <1>1, <1>2, OpenMember

\* Ids only get used up.
LEMMA CloseStep ==
    ASSUME OpenRequests' \subseteq OpenRequests, used \subseteq used',
           UNCHANGED <<token, chosen, allowed>>
    PROVE  Signin!Close
BY DEF Signin!Close, Agreed, Answered

\* A step after which rows are gone or what they were, and no handler has a new copy.
LEMMA QuietStep ==
    ASSUME \A i \in RequestId : authRequests'[i] \in {authRequests[i], NoRequest},
           \A w \in Worker : \/ pc'[w] \notin {"save", "issue"}
                             \/ pc'[w] = pc[w] /\ job'[w] = job[w]
    PROVE  OpenRequests' \subseteq OpenRequests
BY OpenAfter DEF Exists

LEMMA LoginsInitMaps == Init => Signin!Init
<1> SUFFICES ASSUME Init PROVE Signin!Init
  OBVIOUS
<1>1. OpenRequests = {}
  BY OpenMember DEF Init, Exists
<1>2. Agreed = {} /\ Answered = {} /\ used \cap RequestId = {}
  BY DEF Init, Agreed, Answered
<1> QED BY <1>1, <1>2 DEF Signin!Init

\* A new request: its id was not known, and it is open.
LEMMA AskStep ==
    ASSUME IndInv, NEW i \in RequestId, CreateAuthRequest(i)
    PROVE  Signin!Ask
<1> DEFINE q == Asked(i, authRequests'[i])
<1>1. /\ i \notin used /\ used' = used \cup {i} /\ UNCHANGED <<authCodes, pc, job, ghosts>>
      /\ Exists(i)' /\ ~Exists(i)
      /\ \A k \in RequestId \ {i} : authRequests'[k] = authRequests[k]
  <2>1. PICK c \in Client, f \in {"code", "implicit"}, h \in Subject :
            authRequests' = [authRequests EXCEPT ![i] =
                [client |-> c, flow |-> f, user |-> h, done |-> FALSE, acr |-> NoUser]]
    BY DEF CreateAuthRequest
  <2>2. [client |-> c, flow |-> f, user |-> h, done |-> FALSE, acr |-> NoUser] \in Row
    BY DEF Row
  <2>3. authRequests'[i] # NoRequest
    BY <2>1, <2>2, NoRequestAssumption DEF IndInv, TypeOK
  <2> QED BY <2>1, <2>3 DEF CreateAuthRequest, IndInv, TypeOK, UsedInv, Exists
<1>2. \A r : r \in OpenRequests' <=> r \in OpenRequests \/ r = q
  BY <1>1, OpenMember DEF Exists
<1>3. OpenRequests' = OpenRequests \cup {q}
  BY <1>2
<1>4. q.id = i
  BY DEF Asked
<1>5. used' \cap RequestId = (used \cap RequestId) \cup {q.id}
  BY <1>1, <1>4
<1>6. Agreed' = Agreed /\ Answered' = Answered
  BY <1>1 DEF ghosts, Agreed, Answered
<1> HIDE DEF q
<1> QED BY <1>1, <1>3, <1>4, <1>5, <1>6 DEF Signin!Ask

\* A choice on the login page of request i, or an Allow saved for it.
LEMMA AgreeStep ==
    ASSUME NEW i \in RequestId, NEW q \in OpenRequests, q.id = i,
           OpenRequests' \subseteq OpenRequests, UNCHANGED <<used, token>>,
           allowed \subseteq allowed', chosen \subseteq chosen',
           \A p \in (allowed' \ allowed) \cup (chosen' \ chosen) : p[1] = i
    PROVE  Signin!Agree
<1>1. \A p \in Agreed' \ Agreed : p[1] = i
  <2> SUFFICES ASSUME NEW p \in Agreed', p \notin Agreed PROVE p[1] = i
    OBVIOUS
  <2>1. CASE p \in allowed' \/ p \in chosen'
    BY <2>1 DEF Agreed
  <2>2. CASE p \in {<<c[1], SubjectOf[c[2]]>> : c \in {x \in chosen' : x[2] \in User}}
    <3>1. PICK c \in chosen' : c[2] \in User /\ p = <<c[1], SubjectOf[c[2]]>>
      BY <2>2
    <3>2. c \notin chosen
      BY <3>1 DEF Agreed
    <3> QED BY <3>1, <3>2
  <2> QED BY <2>1, <2>2 DEF Agreed
<1>2. Agreed \subseteq Agreed' /\ Answered' = Answered
  BY AgreedStays DEF Answered
<1> QED BY <1>1, <1>2 DEF Signin!Agree

\* The answer of a handler: its request is open, its subject agreed on.
LEMMA AnswerStep ==
    ASSUME IndInv, NamedInv, NEW w \in Worker, Issue(w)
    PROVE  Signin!Answer
<1> DEFINE q == Asked(job[w].id, job[w].row)
           p == <<job[w].id, job[w].row.user>>
<1>1. /\ pc[w] = "issue" /\ pc' = [pc EXCEPT ![w] = "deleteCodes"]
      /\ token' = [id |-> job[w].id, row |-> job[w].row]
      /\ UNCHANGED <<authRequests, used, job, chosen, allowed>>
  BY DEF Issue, Goto, tables
<1>2. job[w].id \in RequestId /\ job[w].row \in Row
  BY <1>1 DEF IndInv, JobInv, JobOf
<1>3. q \in OpenRequests
  BY <1>1, OpenMember
<1>4. p \in Agreed
  BY <1>1 DEF NamedInv, Named
<1>5. token' # NoRequest
  BY <1>1, <1>2, NoTokenAssumption
<1>6. Answered' = {[request |-> q, subject |-> p[2]]}
  BY <1>1, <1>5 DEF Answered, Asked
<1>7. q.id = p[1]
  BY DEF Asked
<1>8. OpenRequests' \subseteq OpenRequests
  BY <1>1, QuietStep DEF IndInv, TypeOK
<1>9. Agreed' = Agreed /\ used' = used
  BY <1>1 DEF Agreed
<1> HIDE DEF p, q
<1> QED BY <1>3, <1>4, <1>6, <1>7, <1>8, <1>9 DEF Signin!Answer

\* A save writes a row of the request its handler holds; Allow also agrees.
LEMMA SaveStep ==
    ASSUME IndInv, NEW w \in Worker, Save(w)
    PROVE  Signin!Agree \/ Signin!Close
<1>0. PICK found \in BOOLEAN : SaveAs(w, found)
  BY SaveFacts
<1> DEFINE i == job[w].id
           q == Asked(i, job[w].row)
<1>1. i \in RequestId /\ job[w].row \in Row /\ job[w].id \in RequestId
  BY <1>0 DEF SaveAs, IndInv, JobInv, JobOf
<1>2. q \in OpenRequests /\ q.id = i
  BY <1>0, OpenMember DEF SaveAs, Asked
<1>3. /\ authRequests'[i] = SavedRow(w, found)
      /\ \A k \in RequestId \ {i} : authRequests'[k] = authRequests[k]
  BY <1>0, <1>1 DEF SaveAs, IndInv, TypeOK
<1>4. Asked(i, SavedRow(w, found)) = q
  BY <1>0, <1>1, SavedRowType DEF SaveAs, Asked, IndInv
<1>5. pc'[w] = "idle" /\ \A v \in Worker \ {w} : pc'[v] = pc[v] /\ job'[v] = job[v]
  BY <1>0, FinishFacts DEF SaveAs, IndInv
<1>6. /\ UNCHANGED <<used, token, chosen>>
      /\ allowed' = IF job[w].to = "allow" THEN allowed \cup {<<i, SavedRow(w, found).user>>} ELSE allowed
  BY <1>0 DEF SaveAs
<1> HIDE DEF i, q
<1>7. OpenRequests' \subseteq OpenRequests
  BY <1>2, <1>3, <1>4, <1>5, OpenAfter
<1>8. CASE job[w].to = "allow"
  BY <1>1, <1>2, <1>6, <1>7, <1>8, AgreeStep
<1>9. CASE job[w].to # "allow"
  BY <1>6, <1>7, <1>9, CloseStep
<1> QED BY <1>8, <1>9

(* Every step is one of the promised ones, or changes nothing they see. *)
LEMMA LoginsStepMaps == IndInv /\ NamedInv /\ [Next]_vars => [Signin!Next]_(Signin!vars)
<1> SUFFICES ASSUME IndInv, NamedInv, [Next]_vars PROVE Signin!Next
  OBVIOUS
<1> USE DEF IndInv
<1>1. ASSUME NEW i \in RequestId, CreateAuthRequest(i) PROVE Signin!Next
  BY <1>1, AskStep DEF Signin!Next
<1>2. ASSUME NEW w \in Worker, NEW i \in RequestId, NEW u \in User \cup {NoUser}, Login(w, i, u) PROVE Signin!Next
  <2>1. OpenRequests' \subseteq OpenRequests
    BY <1>2, LoginFacts, QuietStep
  <2>2. PICK q \in OpenRequests : q.id = i
    <3>1. Asked(i, authRequests[i]) \in OpenRequests
      BY <1>2, LoginFacts, OpenMember
    <3> QED BY <3>1 DEF Asked
  <2>3. Signin!Agree
    BY <1>2, <2>1, <2>2, LoginFacts, AgreeStep
  <2> QED BY <2>3 DEF Signin!Next
<1>3. ASSUME NEW w \in Worker, NEW i \in RequestId, Consent(w, i) PROVE Signin!Next
  <2>1. OpenRequests' \subseteq OpenRequests
    BY <1>3, ConsentFacts, QuietStep DEF tables
  <2> QED BY <1>3, <2>1, ConsentFacts, CloseStep DEF tables, ghosts, Signin!Next
<1>4. ASSUME NEW w \in Worker, NEW i \in RequestId, Callback(w, i) PROVE Signin!Next
  <2>1. Asked(job'[w].id, job'[w].row) \in OpenRequests
    BY <1>4, CallbackFacts, OpenMember
  <2>2. OpenRequests' \subseteq OpenRequests
    BY <1>4, <2>1, CallbackFacts, OpenAfter DEF tables
  <2> QED BY <1>4, <2>2, CallbackFacts, CloseStep DEF tables, ghosts, Signin!Next
<1>5. ASSUME NEW w \in Worker, NEW c \in Code, Exchange(w, c) PROVE Signin!Next
  <2>1. OpenRequests' \subseteq OpenRequests
    BY <1>5, ExchangeFacts, QuietStep DEF tables
  <2> QED BY <1>5, <2>1, ExchangeFacts, CloseStep DEF tables, ghosts, Signin!Next
<1>6. ASSUME NEW w \in Worker, Load(w) \/ LoadByCode(w) PROVE Signin!Next
  <2>1. /\ pc[w] \in {"load", "loadByCode"} /\ job[w].id \in RequestId
        /\ UNCHANGED <<authRequests, authCodes, used, token, chosen, allowed>>
    BY <1>6 DEF Load, LoadByCode, tables, ghosts, JobInv, JobOf
  <2>2. OpenRequests' \subseteq OpenRequests
    <3>1. CASE Exists(job[w].id)
      <4>1. Read(w) /\ \E l : pc' = [pc EXCEPT ![w] = l]
        BY <1>6, <3>1 DEF Load, LoadByCode, Goto
      <4>2. /\ job'[w].row = authRequests[job[w].id] /\ job'[w].id = job[w].id
            /\ \A v \in Worker \ {w} : pc'[v] = pc[v] /\ job'[v] = job[v]
        BY <2>1, <4>1, ReadJob DEF TypeOK
      <4>3. Asked(job'[w].id, job'[w].row) \in OpenRequests
        BY <2>1, <3>1, <4>2, OpenMember
      <4> QED BY <2>1, <4>2, <4>3, OpenAfter
    <3>2. CASE ~Exists(job[w].id)
      <4>1. Finish(w)
        BY <1>6, <3>2 DEF Load, LoadByCode
      <4> QED BY <2>1, <4>1, FinishFacts, QuietStep
    <3> QED BY <3>1, <3>2
  <2> QED BY <2>1, <2>2, CloseStep DEF Signin!Next
<1>7. ASSUME NEW w \in Worker, Save(w) PROVE Signin!Next
  BY <1>7, SaveStep DEF Signin!Next
<1>8. ASSUME NEW w \in Worker, SaveAuthCode(w) PROVE Signin!Next
  <2>1. Finish(w) /\ used \subseteq used' /\ UNCHANGED <<authRequests, token, chosen, allowed>>
    BY <1>8 DEF SaveAuthCode, ghosts
  <2>2. OpenRequests' \subseteq OpenRequests
    BY <2>1, FinishFacts, QuietStep
  <2> QED BY <2>1, <2>2, CloseStep DEF Signin!Next
<1>9. ASSUME NEW w \in Worker, Issue(w) PROVE Signin!Next
  BY <1>9, AnswerStep DEF Signin!Next
<1>10. ASSUME NEW w \in Worker, DeleteCodes(w) PROVE Signin!Next
  <2>1. /\ pc'[w] = "deleteRequest" /\ \A v \in Worker \ {w} : pc'[v] = pc[v]
        /\ UNCHANGED <<authRequests, used, job, token, chosen, allowed>>
    BY <1>10 DEF DeleteCodes, Goto, TypeOK, ghosts
  <2>2. OpenRequests' \subseteq OpenRequests
    BY <2>1, QuietStep
  <2> QED BY <2>1, <2>2, CloseStep DEF Signin!Next
<1>11. ASSUME NEW w \in Worker, DeleteRequest(w) PROVE Signin!Next
  <2>1. /\ Finish(w) /\ UNCHANGED <<used, token, chosen, allowed>>
        /\ \A k \in RequestId : authRequests'[k] \in {authRequests[k], NoRequest}
    BY <1>11 DEF DeleteRequest, TypeOK
  <2>2. OpenRequests' \subseteq OpenRequests
    BY <2>1, FinishFacts, QuietStep
  <2> QED BY <2>1, <2>2, CloseStep DEF Signin!Next
<1>12. ASSUME NEW w \in Worker, StatementFails(w) PROVE Signin!Next
  <2>1. OpenRequests' \subseteq OpenRequests
    BY <1>12, FinishFacts, QuietStep DEF StatementFails, tables
  <2> QED BY <1>12, <2>1, CloseStep DEF StatementFails, tables, ghosts, Signin!Next
<1>13. CASE Crash
  <2>1. OpenRequests' \subseteq OpenRequests
    BY <1>13, QuietStep DEF Crash, tables
  <2> QED BY <1>13, <2>1, CloseStep DEF Crash, tables, ghosts, Signin!Next
<1>14. CASE UNCHANGED vars
  <2>1. OpenRequests' \subseteq OpenRequests
    BY <1>14, QuietStep DEF vars, tables
  <2> QED BY <1>14, <2>1, CloseStep DEF vars, tables, ghosts, Signin!Next
<1> QED
  BY <1>1, <1>2, <1>3, <1>4, <1>5, <1>6, <1>7, <1>8, <1>9, <1>10, <1>11, <1>12, <1>13, <1>14 DEF Next

(* However handlers overlap, fail or are cut short, a request is answered    *)
(* only while it is open, with its own client and flow and a subject agreed  *)
(* on for it, and what is closed is never open again (saveAuthRequest,       *)
(* CompleteAuthRequest, AuthRequestByCode, DeleteAuthRequest).               *)
THEOREM LoginsImplemented == Spec => ImplementsLogins
BY LoginsInitMaps, LoginsStepMaps, Invariant, NamedAlways, PTL
   DEF Spec, ImplementsLogins, Signin!Spec
=============================================================================
