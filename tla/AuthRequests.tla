--------------------------- MODULE AuthRequests ---------------------------
(***************************************************************************)
(* Browser logins: the auth_requests and auth_codes tables, the login and  *)
(* consent pages that fill them, and the provider library's authorize      *)
(* callback and code exchange that read them and hand out tokens.          *)
(*                                                                         *)
(* Every handler is a goroutine that runs its SQL statements one by one;   *)
(* several handlers may work on one request (two tabs, a double click, a   *)
(* retried call), and the process may stop between two statements.         *)
(***************************************************************************)
EXTENDS FiniteSets

CONSTANTS
    RequestId,      \* ids of auth requests (bound: how many are ever created)
    Code,           \* authorization codes (bound: how many are ever created)
    Worker,         \* request goroutines
    Client,
    ConsentClients, \* the clients with RequireConsent set
    User,           \* row ids of users, deleted ones included
    SubjectOf,      \* User.SubjectOrID: the custom subject, or else the row id
    NoUser,         \* the empty user id, which no user has
    NoRequest       \* no row, or no request

ASSUME ClientAssumption == ConsentClients \subseteq Client
ASSUME UserAssumption == NoUser \notin User /\ NoUser \notin {SubjectOf[u] : u \in User}

Subject == User \cup {SubjectOf[u] : u \in User} \cup {NoUser}

(***************************************************************************)
(* A row of auth_requests: its client and flow (the response type), the    *)
(* user_id column, done, and whose ACR and AMR its data is stamped with.   *)
(***************************************************************************)
Row == [client : Client, flow : {"code", "implicit"},
        user : Subject, done : BOOLEAN, acr : User \cup {NoUser}]

ASSUME NoRequestAssumption == NoRequest \notin Row \cup RequestId
ASSUME NoTokenAssumption == NoRequest \notin [id : RequestId, row : Row]

VARIABLES
    authRequests,  \* table auth_requests: a Row, or NoRequest
    authCodes,     \* table auth_codes: the request of a code, or NoRequest
    used,          \* ids and codes already given out (uuid.NewString is fresh)
    pc, job,       \* where a goroutine is, and the local variables of its handler
    token,         \* what was issued last: the request's id and the row it came from
    chosen,        \* <<id, u>>: the login page sent user id u for request id
    missed,        \* <<id, u>>: request id was completed for u, whom GetUser did not find
    allowed,       \* <<id, s>>: subject s allowed request id on the consent page
    closed         \* requests deleted while no handler was about to save them

tables == <<authRequests, authCodes, used>>
ghosts == <<token, chosen, missed, allowed, closed>>
vars == <<tables, pc, job, ghosts>>

Location == {"idle", "load", "save", "saveCode", "loadByCode", "issue",
             "deleteCodes", "deleteRequest"}

(* The local variables of a handler: the request, the user it writes, what   *)
(* it does (set the user, complete, complete on consent, deny, issue) and    *)
(* the row it has read.                                                      *)
Purpose == {"set", "complete", "allow", "deny", "issue"}
Job == [id : RequestId \cup {NoRequest}, user : Subject, to : Purpose,
        row : Row \cup {NoRequest}]
NoJob == [id |-> NoRequest, user |-> NoUser, to |-> "issue", row |-> NoRequest]

-----------------------------------------------------------------------------
Exists(i) == authRequests[i] # NoRequest

Goto(w, l) == pc' = [pc EXCEPT ![w] = l]
Finish(w) == Goto(w, "idle") /\ job' = [job EXCEPT ![w] = NoJob]
Begin(w, l, j) == /\ pc[w] = "idle" /\ Goto(w, l)
                  /\ job' = [job EXCEPT ![w] = j]
Read(w) == job' = [job EXCEPT ![w].row = authRequests[job[w].id]]

\* Mutant: the user's ACR and AMR are not stamped over those already there.
CompletedKeepsACR(row, u, found) ==
    [row EXCEPT !.done = TRUE, !.user = IF found THEN SubjectOf[u] ELSE u,
                !.acr = IF found /\ row.acr = NoUser THEN u ELSE row.acr]

(* CompleteAuthRequest: what it makes of the row it loaded, for user id u.   *)
(* If GetUser does not find u, the id is taken as the subject, and the row   *)
(* keeps its ACR and AMR.                                                    *)
Completed(row, u, found) ==
    [row EXCEPT !.done = TRUE, !.user = IF found THEN SubjectOf[u] ELSE u,
                !.acr = IF found THEN u ELSE row.acr]

Init ==
    /\ authRequests = [i \in RequestId |-> NoRequest]
    /\ authCodes = [c \in Code |-> NoRequest]
    /\ used = {}
    /\ pc = [w \in Worker |-> "idle"] /\ job = [w \in Worker |-> NoJob]
    /\ token = NoRequest /\ chosen = {} /\ missed = {} /\ allowed = {} /\ closed = {}

\* CreateAuthRequest: one INSERT (prompt=none is refused before it).  The library passes
\* the subject of an id_token_hint, if the client sent one.
CreateAuthRequest(i) ==
    /\ i \notin used /\ used' = used \cup {i}
    /\ \E c \in Client, f \in {"code", "implicit"}, hint \in Subject :
         authRequests' = [authRequests EXCEPT ![i] =
             [client |-> c, flow |-> f, user |-> hint, done |-> FALSE, acr |-> NoUser]]
    /\ UNCHANGED <<authCodes, pc, job, ghosts>>

\* Mutant: the consent requirement of the client is ignored.
LoginNoConsent(w, i, u) ==
    /\ Exists(i)
    /\ Begin(w, "load", [NoJob EXCEPT !.id = i, !.user = u, !.to = "complete"])
    /\ chosen' = chosen \cup {<<i, u>>}
    /\ UNCHANGED <<tables, token, missed, allowed, closed>>

\* doLogin: with RequireConsent only the user id of the form is recorded, else the
\* request completes.  Nothing checks that id.
Login(w, i, u) ==
    /\ Exists(i)
    /\ Begin(w, "load", [NoJob EXCEPT !.id = i, !.user = u,
          !.to = IF authRequests[i].client \in ConsentClients THEN "set" ELSE "complete"])
    /\ chosen' = chosen \cup {<<i, u>>}
    /\ UNCHANGED <<tables, token, missed, allowed, closed>>

(* doConsent: the user is the one recorded when the handler first reads the  *)
(* request.  It asks neither for a login nor for RequireConsent.            *)
Consent(w, i) ==
    /\ Exists(i)
    /\ \/ Begin(w, "load", [NoJob EXCEPT !.id = i, !.user = authRequests[i].user,
                                         !.to = "allow"])
       \/ Begin(w, "deleteCodes", [NoJob EXCEPT !.id = i, !.to = "deny"])
    /\ UNCHANGED <<tables, ghosts>>

\* Mutant: a row that is gone reads as an empty one.
LoadEmpty(w) ==
    /\ pc[w] = "load" /\ Goto(w, "save")
    /\ IF Exists(job[w].id) THEN Read(w)
       ELSE \E c \in Client : job' = [job EXCEPT ![w].row =
               [client |-> c, flow |-> "code", user |-> NoUser, done |-> FALSE, acr |-> NoUser]]
    /\ UNCHANGED <<tables, ghosts>>

\* SetAuthRequestUser and CompleteAuthRequest: loadAuthRequest
Load(w) ==
    /\ pc[w] = "load"
    /\ IF Exists(job[w].id) THEN Read(w) /\ Goto(w, "save") ELSE Finish(w)
    /\ UNCHANGED <<tables, ghosts>>

(* SetAuthRequestUser and CompleteAuthRequest: saveAuthRequest, an UPSERT of  *)
(* the row loaded before, whatever the table holds by now.  To complete,     *)
(* GetUser is asked first: it finds no user if its SELECT fails, if the user *)
(* has been deleted, or if nobody has the id.                                *)
Save(w) ==
    LET j == job[w] IN
      \E found \in BOOLEAN :
        LET row == IF j.to = "set" THEN [j.row EXCEPT !.user = j.user]
                                   ELSE Completed(j.row, j.user, found)
        IN  /\ pc[w] = "save" /\ Finish(w)
            /\ found => j.to # "set" /\ j.user \in User
            /\ authRequests' = [authRequests EXCEPT ![j.id] = row]
            /\ missed' = IF j.to = "set" \/ found THEN missed ELSE missed \cup {<<j.id, j.user>>}
            /\ allowed' = IF j.to = "allow" THEN allowed \cup {<<j.id, row.user>>} ELSE allowed
            /\ UNCHANGED <<authCodes, used, token, chosen, closed>>

\* The library's authorize callback: AuthRequestByID, refused until Done.
Callback(w, i) ==
    /\ Exists(i) /\ authRequests[i].done
    /\ Begin(w, IF authRequests[i].flow = "code" THEN "saveCode" ELSE "issue",
             [NoJob EXCEPT !.id = i, !.row = authRequests[i]])
    /\ UNCHANGED <<tables, ghosts>>

\* SaveAuthCode: no foreign key checks that the request is still there.
SaveAuthCode(w) ==
    /\ pc[w] = "saveCode" /\ Finish(w)
    /\ \E c \in Code \ used :
         /\ authCodes' = [authCodes EXCEPT ![c] = job[w].id]
         /\ used' = used \cup {c}
    /\ UNCHANGED <<authRequests, ghosts>>

\* The library's code exchange: AuthRequestByCode, first SELECT
Exchange(w, c) ==
    /\ authCodes[c] # NoRequest
    /\ Begin(w, "loadByCode", [NoJob EXCEPT !.id = authCodes[c]])
    /\ UNCHANGED <<tables, ghosts>>

\* Mutant: a request that is gone is not noticed.
LoadByCodeUnchecked(w) ==
    /\ pc[w] = "loadByCode" /\ Read(w) /\ Goto(w, "issue")
    /\ UNCHANGED <<tables, ghosts>>

\* AuthRequestByCode: loadAuthRequest
LoadByCode(w) ==
    /\ pc[w] = "loadByCode"
    /\ IF Exists(job[w].id) THEN Read(w) /\ Goto(w, "issue") ELSE Finish(w)
    /\ UNCHANGED <<tables, ghosts>>

\* The library answers with tokens for the row it read, then deletes the request.
Issue(w) ==
    /\ pc[w] = "issue" /\ Goto(w, "deleteCodes")
    /\ token' = [id |-> job[w].id, row |-> job[w].row]
    /\ UNCHANGED <<tables, job, chosen, missed, allowed, closed>>

\* DeleteAuthRequest, first DELETE
DeleteCodes(w) ==
    /\ pc[w] = "deleteCodes" /\ Goto(w, "deleteRequest")
    /\ authCodes' = [c \in Code |-> IF authCodes[c] = job[w].id THEN NoRequest
                                                                ELSE authCodes[c]]
    /\ UNCHANGED <<authRequests, used, job, ghosts>>

\* A handler that has loaded request i and will write it back.
AboutToSave(i) == \E w \in Worker : pc[w] = "save" /\ job[w].id = i

\* Mutant: only the codes go; the request stays.
DeleteRequestKept(w) ==
    LET j == job[w] IN
      /\ pc[w] = "deleteRequest" /\ Finish(w)
      /\ closed' = IF AboutToSave(j.id) THEN closed ELSE closed \cup {j.id}
      /\ UNCHANGED <<tables, token, chosen, missed, allowed>>

\* DeleteAuthRequest, second DELETE
DeleteRequest(w) ==
    LET j == job[w] IN
      /\ pc[w] = "deleteRequest" /\ Finish(w)
      /\ authRequests' = [authRequests EXCEPT ![j.id] = NoRequest]
      /\ closed' = IF AboutToSave(j.id) THEN closed ELSE closed \cup {j.id}
      /\ UNCHANGED <<authCodes, used, token, chosen, missed, allowed>>

(* A statement fails: the handler ends with an error for its caller.  The    *)
(* denial ignores an error of DeleteAuthRequest and shows its page.          *)
StatementFails(w) ==
    /\ pc[w] # "idle" /\ Finish(w)
    /\ UNCHANGED <<tables, ghosts>>

\* The process stops and boots again: the tables are all that is left.
Crash ==
    /\ pc' = [w \in Worker |-> "idle"] /\ job' = [w \in Worker |-> NoJob]
    /\ UNCHANGED <<tables, ghosts>>

Next ==
    \/ \E i \in RequestId : CreateAuthRequest(i)
    \/ \E w \in Worker :
          \/ \E i \in RequestId :
                \/ \E u \in User \cup {NoUser} : Login(w, i, u)
                \/ Consent(w, i)
                \/ Callback(w, i)
          \/ \E c \in Code : Exchange(w, c)
          \/ Load(w) \/ Save(w) \/ SaveAuthCode(w) \/ LoadByCode(w) \/ Issue(w)
          \/ DeleteCodes(w) \/ DeleteRequest(w) \/ StatementFails(w)
    \/ Crash

Spec == Init /\ [][Next]_vars

-----------------------------------------------------------------------------
(* The values every variable may take. *)
TypeOK ==
    /\ authRequests \in [RequestId -> Row \cup {NoRequest}]
    /\ authCodes \in [Code -> RequestId \cup {NoRequest}]
    /\ used \subseteq RequestId \cup Code
    /\ pc \in [Worker -> Location] /\ job \in [Worker -> Job]
    /\ token \in [id : RequestId, row : Row] \cup {NoRequest}
    /\ chosen \subseteq RequestId \X (User \cup {NoUser})
    /\ missed \subseteq RequestId \X Subject /\ allowed \subseteq RequestId \X Subject
    /\ closed \subseteq RequestId

(* Unless Allow was pressed for its request, a token is the outcome of one   *)
(* login, however many logins of different users overlap: its subject is     *)
(* that of a user picked for the request, and the ACR and AMR are the same   *)
(* user's.  Only a login whose user GetUser did not find leaves the bare id, *)
(* with the ACR and AMR of another login or none (doLogin,                   *)
(* CompleteAuthRequest).                                                     *)
TokenIsOneLogin ==
    token # NoRequest /\ (\A s \in Subject : <<token.id, s>> \notin allowed) =>
        LET picked == {u \in User \cup {NoUser} : <<token.id, u>> \in chosen}
            row == token.row
        IN  \/ row.acr \in picked \cap User /\ row.user = SubjectOf[row.acr]
            \/ /\ row.user \in picked /\ <<token.id, row.user>> \in missed
               /\ row.acr \in picked \cup {NoUser}

(* A client that requires consent gets no token for a request that nobody    *)
(* has allowed (doLogin, doConsent, the Done check of the callback).         *)
SomeoneAllowed ==
    token # NoRequest /\ token.row.client \in ConsentClients =>
        \E s \in Subject : <<token.id, s>> \in allowed

(* Once a request is deleted, after an exchange, an implicit answer or a     *)
(* denial, it stays deleted: no later login, callback or code saved for it   *)
(* afterwards brings it back.  The one way back is a handler that had loaded *)
(* it before and saves it after (DeleteAuthRequest, saveAuthRequest).        *)
ClosedForGood ==
    \A i \in closed : authRequests[i] = NoRequest
        /\ \A w \in Worker : job[w].id = i => pc[w] # "save"

(* The abstract requests: one is open while it has a row, or a handler that  *)
(* will write its row back or answer with it.  Picking a user agrees to be   *)
(* that user, by row id or subject; Allow agrees to the subject it saves.    *)
Asked(i, row) == [id |-> i, client |-> row.client, flow |-> row.flow]
OpenRequests ==
    {Asked(i, authRequests[i]) : i \in {k \in RequestId : Exists(k)}}
    \cup {Asked(job[w].id, job[w].row) : w \in {v \in Worker : pc[v] \in {"save", "issue"}}}
Agreed == allowed \cup chosen
          \cup {<<p[1], SubjectOf[p[2]]>> : p \in {c \in chosen : c[2] \in User}}
Answered == IF token = NoRequest THEN {}
            ELSE {[request |-> Asked(token.id, token.row), subject |-> token.row.user]}

Signin == INSTANCE Logins WITH known <- used \cap RequestId, open <- OpenRequests,
                               agreed <- Agreed, given <- Answered

(* However handlers overlap, fail or are cut short: a request keeps its      *)
(* client and flow, its tokens name a subject agreed on for this very        *)
(* request, and once it has no row and no handler holds a copy, no code,     *)
(* login or callback answers it or brings it back (saveAuthRequest,          *)
(* CompleteAuthRequest, AuthRequestByCode, DeleteAuthRequest).               *)
ImplementsLogins == Signin!Spec

(* SetAuthRequestUser's comment: it records the chosen user "without marking *)
(* it done.  Used when a consent step must run before completion": a token   *)
(* for a client with consent is for a user who allowed the request, by row   *)
(* id or subject.  An Allow without any user on the request does not count.  *)
ConsentBeforeToken ==
    token # NoRequest /\ token.row.client \in ConsentClients =>
        LET agreeing == {s \in Subject : <<token.id, s>> \in allowed}
            user == token.row.user
        IN  NoUser \notin agreeing =>
              \E s \in agreeing : s = user \/ (user \in User /\ s = SubjectOf[user])
=============================================================================
