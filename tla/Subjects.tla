----------------------------- MODULE Subjects -----------------------------
(***************************************************************************)
(* Whose claims a token brings.  A token stores a subject, which is a      *)
(* pinned subject, a user's row id or, for client credentials, a client's  *)
(* id; userinfo, introspection and JWT access tokens search the user anew  *)
(* by it, first among the pinned subjects, then among the row ids, while   *)
(* the admin edits the users.  A token that has ended is not asked for any *)
(* more; its end has no action.                                            *)
(***************************************************************************)
CONSTANTS
    UserId,    \* row ids of users
    ClientId,  \* clients with client credentials
    Pinned,    \* subjects that an admin may pin (any text, ids included)
    NoSubject, \* the empty subject of a user without a pinned one
    NoUser,    \* no row
    TokenId,
    NoToken    \* no row, or no token

ASSUME NameAssumption == NoSubject \notin UserId \cup ClientId \cup Pinned
ASSUME AbsentAssumption == NoUser \notin UserId \cup Pinned \cup {NoSubject}

Subject == UserId \cup ClientId \cup Pinned
Token == [subject : Subject, owner : UserId \cup {NoUser}]

ASSUME TokenAssumption == NoToken \notin Token

VARIABLES
    users,   \* table users: the pinned subject of a row, or NoUser
    tokens,  \* table tokens: a Token (owner is a ghost), or NoToken
    pc, job, \* the handler that answers for a token, and its local variables
    strayed  \* ghost: tokens whose subject has ceased to be their owner's alone

vars == <<users, tokens, pc, job, strayed>>

(* The token as it was read; the user row that was found, its id and its     *)
(* subject; ghost blind: the owner was away for a while, or a SELECT failed. *)
Job == [token : Token \cup {NoToken}, id : TokenId \cup {NoToken},
        user : UserId \cup {NoUser}, sub : Subject \cup {NoSubject}, blind : BOOLEAN]
NoJob == [token |-> NoToken, id |-> NoToken, user |-> NoUser, sub |-> NoSubject,
          blind |-> FALSE]

-----------------------------------------------------------------------------
Exists(u) == users[u] # NoUser
SubjectOrID(u) == IF users[u] # NoSubject THEN users[u] ELSE u

Init ==
    /\ users = [u \in UserId |-> NoUser] /\ tokens = [t \in TokenId |-> NoToken]
    /\ pc = "idle" /\ job = NoJob /\ strayed = {}

(* Token t no longer speaks for its owner alone: the owner has another       *)
(* subject, another user has pinned it, or it is the row id of another user  *)
(* and its owner is away (or was, while the token was being answered for).   *)
Astray(t) ==
    LET o == tokens[t].owner
        here == o # NoUser /\ Exists(o)
        away == ~here \/ (job.id = t /\ job.blind)
    IN  \/ here /\ SubjectOrID(o) # tokens[t].subject
        \/ \E u \in UserId \ {o} : /\ Exists(u)
                                   /\ \/ users[u] = tokens[t].subject
                                      \/ u = tokens[t].subject /\ away

Watch ==
    /\ job' = [job EXCEPT !.blind = @ \/ (pc # "idle" /\ job.token.owner # NoUser
                                             /\ users'[job.token.owner] = NoUser)]
    /\ strayed' = strayed \cup {t \in TokenId : (tokens[t] # NoToken /\ Astray(t))'}

\* Mutant: the pinned subject is stored also where there is none.
IssueRawSubject(t, u) ==
    /\ tokens[t] = NoToken /\ Exists(u)
    /\ tokens' = [tokens EXCEPT ![t] = [subject |-> users[u], owner |-> u]]
    /\ UNCHANGED <<users, pc>> /\ Watch

(* A login or a password grant: the subject of the user's row at that time   *)
(* is stored (CompleteAuthRequest, NewAuthenticatedRequest, accessToken).    *)
Issue(t, u) ==
    /\ tokens[t] = NoToken /\ Exists(u)
    /\ tokens' = [tokens EXCEPT ![t] = [subject |-> SubjectOrID(u), owner |-> u]]
    /\ UNCHANGED <<users, pc>> /\ Watch

\* Client credentials: the subject is the client's id, and no user is behind it.
IssueToClient(t, c) ==
    /\ tokens[t] = NoToken
    /\ tokens' = [tokens EXCEPT ![t] = [subject |-> c, owner |-> NoUser]]
    /\ UNCHANGED <<users, pc>> /\ Watch

\* saveUser: an UPSERT, of an open form also after the row was deleted.
SaveUser(u, s) ==
    /\ users' = [users EXCEPT ![u] = s]
    /\ UNCHANGED <<tokens, pc>> /\ Watch

\* deleteUser: the user's tokens stay.
DeleteUser(u) ==
    /\ Exists(u) /\ users' = [users EXCEPT ![u] = NoUser]
    /\ UNCHANGED <<tokens, pc>> /\ Watch

(* SetUserinfoFromToken and SetIntrospectionFromToken: loadToken, which must *)
(* find the row, unexpired.                                                  *)
LoadToken(t) ==
    /\ pc = "idle" /\ tokens[t] # NoToken
    /\ pc' = "bySubject"
    /\ job' = [NoJob EXCEPT !.token = tokens[t], !.id = t,
                  !.blind = tokens[t].owner # NoUser /\ ~Exists(tokens[t].owner)]
    /\ UNCHANGED <<users, tokens, strayed>>

(* The answer is made from the row of user u, as it is in the result of the  *)
(* SELECT; with the openid scope it carries the subject of that row.         *)
Found(u) == pc' = "answer" /\ job' = [job EXCEPT !.user = u, !.sub = SubjectOrID(u)]

\* setUserinfo without a user: the subject of the token, and no claims but the client's.
NotFound(blind) ==
    /\ pc' = "answer"
    /\ job' = [job EXCEPT !.sub = job.token.subject, !.blind = @ \/ blind]

\* Mutant: the row ids are searched before the pinned subjects.
BySubjectAfterId ==
    LET s == job.token.subject
        holders == {u \in UserId : Exists(u) /\ users[u] = s}
    IN  /\ pc = "bySubject"
        /\ \/ s \in UserId /\ Exists(s) /\ Found(s)
           \/ ~(s \in UserId /\ Exists(s)) /\ \E u \in holders : Found(u)
           \/ ~(s \in UserId /\ Exists(s)) /\ holders = {} /\ NotFound(FALSE)
        /\ UNCHANGED <<users, tokens, strayed>>

(* GetUserBySubject, first SELECT: any one of the users with that subject.   *)
(* Its failure reads as: no user.                                            *)
BySubject ==
    LET holders == {u \in UserId : Exists(u) /\ users[u] = job.token.subject}
    IN  /\ pc = "bySubject"
        /\ \/ \E u \in holders : Found(u)
           \/ holders = {} /\ pc' = "byId" /\ UNCHANGED job
           \/ NotFound(TRUE)
        /\ UNCHANGED <<users, tokens, strayed>>

\* GetUserBySubject, second SELECT: the row with that id; its failure, too, reads as: no user.
ById ==
    LET s == job.token.subject
    IN  /\ pc = "byId"
        /\ \/ s \in UserId /\ Exists(s) /\ Found(s)
           \/ ~(s \in UserId /\ Exists(s)) /\ NotFound(FALSE)
           \/ NotFound(TRUE)
        /\ UNCHANGED <<users, tokens, strayed>>

\* The answer is sent.
Send == /\ pc = "answer" /\ pc' = "idle" /\ job' = NoJob
        /\ UNCHANGED <<users, tokens, strayed>>

Next ==
    \/ \E t \in TokenId : \/ \E u \in UserId : Issue(t, u)
                          \/ \E c \in ClientId : IssueToClient(t, c)
                          \/ LoadToken(t)
    \/ \E u \in UserId : \/ \E s \in Pinned \cup {NoSubject} : SaveUser(u, s)
                         \/ DeleteUser(u)
    \/ BySubject \/ ById \/ Send

Spec == Init /\ [][Next]_vars

-----------------------------------------------------------------------------
(* The values every variable may take. *)
TypeOK ==
    /\ users \in [UserId -> Pinned \cup {NoSubject, NoUser}]
    /\ tokens \in [TokenId -> Token \cup {NoToken}]
    /\ pc \in {"idle", "bySubject", "byId", "answer"} /\ job \in Job
    /\ strayed \subseteq TokenId

(* As long as a token's subject has stayed its owner's alone, an answer for  *)
(* it carries that subject and the claims of its owner, whatever other users *)
(* are called; those of nobody if the owner was gone meanwhile or a SELECT   *)
(* failed, and of nobody for a client's own token (GetUserBySubject,         *)
(* setUserinfo, saveUser, deleteUser).                                       *)
TokenSpeaksForItsUser ==
    pc = "answer" /\ job.id \notin strayed =>
        /\ job.sub = job.token.subject
        /\ job.user = job.token.owner \/ (job.user = NoUser /\ job.blind)
=============================================================================
