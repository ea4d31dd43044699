---------------------------- MODULE TokenStore ----------------------------
(***************************************************************************)
(* The tokens and refresh_tokens tables and every handler that writes      *)
(* them: the grants, the refresh rotation, revocation and logout.  None of *)
(* them runs in a transaction: a handler is a goroutine whose statements   *)
(* interleave with those of the others, and a crash may cut it short.      *)
(***************************************************************************)
EXTENDS Integers, FiniteSets

CONSTANTS
    Client, Subject,
    Scope,            \* the scopes beside openid; the empty set is openid alone
    Asked,            \* bound: the sets of scopes that grants ask for
    Worker,           \* request goroutines
    NoClient,         \* the empty application id
    NoRow,            \* nothing loaded
    RefreshLifetime,  \* a client's refresh token lifetime, in ticks of the clock; 0: none set
    DefaultLifetime,  \* the built-in five hours, in the same unit
    MaxId,            \* bound: token ids handed out
    MaxClock          \* bound: the clock

ASSUME ClientAssumption == NoClient \notin Client
ASSUME ScopeAssumption == Asked \subseteq SUBSET Scope
ASSUME LifetimeAssumption ==
    RefreshLifetime \in [Client -> Nat] /\ DefaultLifetime \in Nat
ASSUME BoundAssumption == MaxId \in Nat /\ MaxClock \in Nat

(***************************************************************************)
(* Every row remembers, for the properties only, the grant it descends     *)
(* from: who authorised which client for what.  A row of refresh_tokens    *)
(* names its access token and is named by it.                              *)
(***************************************************************************)
Grant == [id : Nat, owner : Client, subject : Subject \cup Client, scopes : SUBSET Scope]
AccessToken == [id : Nat, client : Client \cup {NoClient}, subject : Subject \cup Client,
                scopes : SUBSET Scope, refresh : Nat, grant : Grant]
RefreshToken == [id : Nat, client : Client \cup {NoClient}, user : Subject \cup Client,
                 scopes : SUBSET Scope, access : Nat \ {0}, expires : Nat, grant : Grant]

ASSUME RowAssumption == NoRow \notin RefreshToken

NoId == 0   \* the empty id; real ids start at 1

VARIABLES
    tokens,         \* table tokens
    refreshTokens,  \* table refresh_tokens
    nextId,         \* the next fresh uuid
    clock,          \* time.Now
    pc, job,        \* where each goroutine is, and its local variables
    delivered,      \* access tokens that a response has carried to a client
    overlapped,     \* grants that two handlers have worked on at the same time
    ended           \* grants whose revocation or logout has completed, undisturbed

tables == <<tokens, refreshTokens, nextId>>
ghosts == <<delivered, overlapped, ended>>
vars == <<tables, clock, pc, job, ghosts>>

Location == {"idle", "insertAccess", "insertRefresh", "loadRenew", "deleteOldRefresh",
             "deleteOldAccess", "insertRenewed", "revokeAccess", "revokeRefresh",
             "revokePair", "revokeRest", "logoutRefresh", "logoutTokens"}

(* The local variables of a handler: the access token it inserts, the        *)
(* refresh row it loaded, and the grants it works on.                        *)
NoJob == [access |-> NoRow, row |-> NoRow, grants |-> {}]

-----------------------------------------------------------------------------
Goto(w, l) == pc' = [pc EXCEPT ![w] = l]
Finish(w) == Goto(w, "idle") /\ job' = [job EXCEPT ![w] = NoJob]

\* The grants other goroutines are working on.
Busy(w) == UNION {job[v].grants : v \in Worker \ {w}}

Begin(w, l, j) ==
    /\ pc[w] = "idle" /\ Goto(w, l)
    /\ job' = [job EXCEPT ![w] = j]
    /\ overlapped' = overlapped \cup (j.grants \cap Busy(w))

\* A revocation or logout completes.
End(w) == ended' = ended \cup (job[w].grants \ overlapped)

Live(g) == {r \in refreshTokens : r.grant = g}
DeliveredLive(g) == {t \in tokens : t.grant = g /\ t.id \in delivered}

Init ==
    /\ tokens = {} /\ refreshTokens = {} /\ nextId = 1 /\ clock = 0
    /\ pc = [w \in Worker |-> "idle"] /\ job = [w \in Worker |-> NoJob]
    /\ delivered = {} /\ overlapped = {} /\ ended = {}

-----------------------------------------------------------------------------
(* CreateAccessToken and CreateAccessAndRefreshTokens for a new grant: the   *)
(* ids are drawn, and the access token is about to be inserted.              *)
BeginGrant(w, application, g, offline) ==
    /\ nextId + 1 <= MaxId /\ nextId' = nextId + 2
    /\ Begin(w, "insertAccess", [NoJob EXCEPT !.grants = {g},
         !.access = [id |-> g.id, client |-> application, subject |-> g.subject,
                     scopes |-> g.scopes, refresh |-> IF offline THEN nextId + 1 ELSE NoId,
                     grant |-> g]])
    /\ UNCHANGED <<tokens, refreshTokens, clock, delivered, ended>>

NewGrant(c, s, sc) == [id |-> nextId, owner |-> c, subject |-> s, scopes |-> sc]

\* A code, implicit or password grant: a user's login with a client (ropcExchange for
\* the password grant), with a refresh token if offline access is asked for and allowed.
StartLoginGrant(w) ==
    \E c \in Client, s \in Subject, sc \in Asked, offline \in BOOLEAN :
        BeginGrant(w, c, NewGrant(c, s, sc), offline)

\* getInfoFromRequest and CreateAccessToken do not know the type of a device request.
ApplicationOfDevice(c) == NoClient

\* A device code that was approved.
StartDeviceGrant(w) ==
    \E c \in Client, s \in Subject, sc \in Asked, offline \in BOOLEAN :
        BeginGrant(w, ApplicationOfDevice(c), NewGrant(c, s, sc), offline)

\* ClientCredentialsTokenRequest: the client is its own subject, and its audience.
StartServiceGrant(w) ==
    \E c \in Client, sc \in Asked : BeginGrant(w, c, NewGrant(c, c, sc), FALSE)

(* The JWT profile grant: a client with registered keys is its own subject   *)
(* and gets openid alone (GetKeyByIDAndClientID, ValidateJWTProfileScopes).  *)
(* CreateAccessToken takes the first audience of the client's assertion for  *)
(* the application id, which may name any client or none.                    *)
StartProfileGrant(w) ==
    \E c \in Client, application \in Client \cup {NoClient} :
        BeginGrant(w, application, NewGrant(c, c, {}), FALSE)

(* The library's refresh exchange: TokenRequestByRefreshToken, refused for   *)
(* another client, then SetCurrentScopes may narrow the scopes.              *)
StartRefresh(w, r) ==
    /\ nextId + 1 <= MaxId /\ nextId' = nextId + 2
    /\ r.client \in Client
    /\ \E sc \in SUBSET r.scopes :
          Begin(w, "insertAccess", [grants |-> {r.grant}, row |-> r,
               access |-> [id |-> nextId, client |-> r.client, subject |-> r.user,
                           scopes |-> sc, refresh |-> nextId + 1, grant |-> r.grant]])
    /\ UNCHANGED <<tokens, refreshTokens, clock, delivered, ended>>

\* accessToken: INSERT INTO tokens; with no refresh token the response goes out.
InsertAccess(w) ==
    LET t == job[w].access IN
      /\ pc[w] = "insertAccess"
      /\ tokens' = tokens \cup {t}
      /\ CASE job[w].row # NoRow -> Goto(w, "loadRenew") /\ UNCHANGED <<job, delivered>>
           [] job[w].row = NoRow /\ t.refresh # NoId ->
                Goto(w, "insertRefresh") /\ UNCHANGED <<job, delivered>>
           [] OTHER -> Finish(w) /\ delivered' = delivered \cup {t.id}
      /\ UNCHANGED <<refreshTokens, nextId, clock, overlapped, ended>>

(* createRefreshToken: the client's lifetime, if GetClient finds the client  *)
(* (there is one, and the SELECT does not fail) and it has a lifetime set.   *)
InsertRefresh(w) ==
    \E found \in BOOLEAN :
      LET t == job[w].access
          life == IF found /\ RefreshLifetime[t.client] > 0 THEN RefreshLifetime[t.client]
                                                            ELSE DefaultLifetime
      IN  /\ pc[w] = "insertRefresh" /\ Finish(w)
          /\ found => t.client \in Client
          /\ refreshTokens' = refreshTokens \cup
               {[id |-> t.refresh, client |-> t.client, user |-> t.subject, scopes |-> t.scopes,
                 access |-> t.id, expires |-> clock + life, grant |-> t.grant]}
          /\ delivered' = delivered \cup {t.id}
          /\ UNCHANGED <<tokens, nextId, clock, overlapped, ended>>

\* Mutant: the presented token is not loaded anew.
LoadRenewStale(w) ==
    /\ pc[w] = "loadRenew" /\ Goto(w, "deleteOldRefresh")
    /\ UNCHANGED <<tables, clock, job, ghosts>>

(* renewRefreshToken: the presented token is loaded anew.  If it is gone or  *)
(* expired the exchange fails, and the access token inserted before stays.   *)
LoadRenew(w) ==
    /\ pc[w] = "loadRenew"
    /\ \/ \E r \in refreshTokens :
             /\ r.id = job[w].row.id /\ r.expires >= clock
             /\ job' = [job EXCEPT ![w].row = r] /\ Goto(w, "deleteOldRefresh")
       \/ /\ ~\E r \in refreshTokens : r.id = job[w].row.id /\ r.expires >= clock
          /\ Finish(w)
    /\ UNCHANGED <<tables, clock, ghosts>>

\* Mutant: rotation keeps the presented token.
DeleteOldRefreshKept(w) ==
    /\ pc[w] = "deleteOldRefresh" /\ Goto(w, "deleteOldAccess")
    /\ UNCHANGED <<tables, clock, job, ghosts>>

\* renewRefreshToken: DELETE FROM refresh_tokens
DeleteOldRefresh(w) ==
    /\ pc[w] = "deleteOldRefresh" /\ Goto(w, "deleteOldAccess")
    /\ refreshTokens' = {r \in refreshTokens : r.id # job[w].row.id}
    /\ UNCHANGED <<tokens, nextId, clock, job, ghosts>>

\* renewRefreshToken: DELETE FROM tokens
DeleteOldAccess(w) ==
    /\ pc[w] = "deleteOldAccess" /\ Goto(w, "insertRenewed")
    /\ tokens' = {t \in tokens : t.id # job[w].row.access}
    /\ UNCHANGED <<refreshTokens, nextId, clock, job, ghosts>>

\* Mutant: the successor gets the narrowed scopes of the request.
InsertRenewedNarrowed(w) ==
    LET t == job[w].access
        r == job[w].row
    IN  /\ pc[w] = "insertRenewed" /\ Finish(w)
        /\ refreshTokens' = refreshTokens \cup
             {[r EXCEPT !.id = t.refresh, !.access = t.id, !.scopes = t.scopes,
                        !.expires = clock + DefaultLifetime]}
        /\ delivered' = delivered \cup {t.id}
        /\ UNCHANGED <<tokens, nextId, clock, overlapped, ended>>

\* Mutant: the successor does not name its access token.
InsertRenewedUnpaired(w) ==
    LET t == job[w].access
        r == job[w].row
    IN  /\ pc[w] = "insertRenewed" /\ Finish(w)
        /\ refreshTokens' = refreshTokens \cup
             {[r EXCEPT !.id = t.refresh, !.access = NoId,
                        !.expires = clock + DefaultLifetime]}
        /\ delivered' = delivered \cup {t.id}
        /\ UNCHANGED <<tokens, nextId, clock, overlapped, ended>>

(* renewRefreshToken: INSERT INTO refresh_tokens, with the row's own scopes  *)
(* and a fixed lifetime; the response goes out.                              *)
InsertRenewed(w) ==
    LET t == job[w].access
        r == job[w].row
    IN  /\ pc[w] = "insertRenewed" /\ Finish(w)
        /\ refreshTokens' = refreshTokens \cup
             {[r EXCEPT !.id = t.refresh, !.access = t.id,
                        !.expires = clock + DefaultLifetime]}
        /\ delivered' = delivered \cup {t.id}
        /\ UNCHANGED <<tokens, nextId, clock, overlapped, ended>>

-----------------------------------------------------------------------------
\* RevokeToken with an access token's id: refused unless it carries the client's id.
StartRevokeAccess(w, t) ==
    /\ t.client \in Client
    /\ Begin(w, "revokeAccess", [access |-> t, row |-> NoRow, grants |-> {t.grant}])
    /\ UNCHANGED <<tables, clock, delivered, ended>>

RevokeAccess(w) ==
    /\ pc[w] = "revokeAccess" /\ Finish(w)
    /\ tokens' = {t \in tokens : t.id # job[w].access.id}
    /\ UNCHANGED <<refreshTokens, nextId, clock, ghosts>>

\* RevokeToken with a refresh token: loadRefreshToken, refused for another client.
StartRevoke(w, r) ==
    /\ r.client \in Client
    /\ Begin(w, "revokeRefresh", [access |-> NoRow, row |-> r, grants |-> {r.grant}])
    /\ UNCHANGED <<tables, clock, delivered, ended>>

RevokeRefresh(w) ==
    /\ pc[w] = "revokeRefresh" /\ Goto(w, "revokePair")
    /\ refreshTokens' = {r \in refreshTokens : r.id # job[w].row.id}
    /\ UNCHANGED <<tokens, nextId, clock, job, ghosts>>

\* RevokeToken ignores an error of this DELETE and goes on to the access token.
RevokeRefreshFails(w) ==
    /\ pc[w] = "revokeRefresh" /\ Goto(w, "revokeRest")
    /\ UNCHANGED <<tables, clock, job, ghosts>>

\* Mutant: revoking a refresh token leaves its access token alone.
RevokePairKept(w) ==
    /\ pc[w] \in {"revokePair", "revokeRest"} /\ Finish(w)
    /\ IF pc[w] = "revokePair" THEN End(w) ELSE UNCHANGED ended
    /\ UNCHANGED <<tables, clock, delivered, overlapped>>

\* RevokeToken: the access token that belongs to the refresh token
RevokePair(w) ==
    /\ pc[w] \in {"revokePair", "revokeRest"} /\ Finish(w)
    /\ IF pc[w] = "revokePair" THEN End(w) ELSE UNCHANGED ended
    /\ tokens' = {t \in tokens : t.id # job[w].row.access}
    /\ UNCHANGED <<refreshTokens, nextId, clock, delivered, overlapped>>

\* A subject's rows for a client, in either table.
OfSession(r, s, c) == r.user = s /\ r.client = c
OfTokens(t, s, c) == t.subject = s /\ t.client = c

\* The end_session endpoint: TerminateSession, for a signed-in subject of a client.
StartLogout(w, s, c) ==
    /\ Begin(w, "logoutRefresh", [access |-> NoRow, row |-> [user |-> s, client |-> c],
         grants |-> {r.grant : r \in {x \in refreshTokens : OfSession(x, s, c)}}
                      \cup {t.grant : t \in {x \in tokens : OfTokens(x, s, c)}}])
    /\ UNCHANGED <<tables, clock, delivered, ended>>

\* TerminateSession: DELETE FROM refresh_tokens
LogoutRefresh(w) ==
    /\ pc[w] = "logoutRefresh" /\ Goto(w, "logoutTokens")
    /\ refreshTokens' =
         {r \in refreshTokens : ~OfSession(r, job[w].row.user, job[w].row.client)}
    /\ UNCHANGED <<tokens, nextId, clock, job, ghosts>>

\* TerminateSession: DELETE FROM tokens
LogoutTokens(w) ==
    /\ pc[w] = "logoutTokens" /\ Finish(w) /\ End(w)
    /\ tokens' = {t \in tokens : ~OfTokens(t, job[w].row.user, job[w].row.client)}
    /\ UNCHANGED <<refreshTokens, nextId, clock, delivered, overlapped>>

(* A statement fails and the handler ends: with an error for its caller, or, *)
(* for the last DELETE of a revocation, with a success that is none.         *)
StatementFails(w) ==
    /\ pc[w] \notin {"idle", "revokeRefresh"} /\ Finish(w)
    /\ UNCHANGED <<tables, clock, ghosts>>

\* The process stops and boots again: every handler is cut short.
Crash ==
    /\ pc' = [w \in Worker |-> "idle"] /\ job' = [w \in Worker |-> NoJob]
    /\ UNCHANGED <<tables, clock, ghosts>>

Tick ==
    /\ clock < MaxClock /\ clock' = clock + 1
    /\ UNCHANGED <<tables, pc, job, ghosts>>

Next ==
    \/ \E w \in Worker :
          \/ StartLoginGrant(w) \/ StartDeviceGrant(w) \/ StartServiceGrant(w)
          \/ StartProfileGrant(w) \/ InsertAccess(w) \/ InsertRefresh(w)
          \/ \E r \in refreshTokens : StartRefresh(w, r) \/ StartRevoke(w, r)
          \/ LoadRenew(w) \/ DeleteOldRefresh(w) \/ DeleteOldAccess(w) \/ InsertRenewed(w)
          \/ \E t \in tokens : StartRevokeAccess(w, t)
          \/ RevokeAccess(w) \/ RevokeRefresh(w) \/ RevokeRefreshFails(w) \/ RevokePair(w)
          \/ \E s \in Subject, c \in Client : StartLogout(w, s, c)
          \/ LogoutRefresh(w) \/ LogoutTokens(w) \/ StatementFails(w)
    \/ Crash \/ Tick

Spec == Init /\ [][Next]_vars

-----------------------------------------------------------------------------
(* The values every variable may take. *)
TypeOK ==
    /\ tokens \subseteq AccessToken /\ refreshTokens \subseteq RefreshToken
    /\ nextId \in Nat /\ clock \in Nat
    /\ pc \in [Worker -> Location]
    /\ \A w \in Worker : /\ DOMAIN job[w] = {"access", "row", "grants"}
                         /\ job[w].access \in AccessToken \cup {NoRow}
                         /\ job[w].grants \subseteq Grant
    /\ delivered \subseteq Nat /\ overlapped \subseteq Grant /\ ended \subseteq Grant

(* Rotation preserves the grant: every access and refresh token in the       *)
(* database speaks for the subject of its grant, no scope is added and the   *)
(* refresh token never loses one, and a refresh token and its access token   *)
(* name each other (accessToken, createRefreshToken, renewRefreshToken).     *)
RotationKeepsGrant ==
    /\ \A t \in tokens : t.subject = t.grant.subject /\ t.scopes \subseteq t.grant.scopes
    /\ \A r \in refreshTokens :
          /\ r.user = r.grant.subject /\ r.scopes = r.grant.scopes
          /\ \A t \in tokens : t.id = r.access <=> t.refresh = r.id

(* Rotation replaces: as long as the handlers of a grant come one after the  *)
(* other, crashes between their statements included, it has at most one      *)
(* refresh token and at most one access token that a client holds.           *)
OneTokenPairPerGrant ==
    \A g \in {t.grant : t \in tokens} \cup {r.grant : r \in refreshTokens} :
        g \notin overlapped =>
            Cardinality(Live(g)) <= 1 /\ Cardinality(DeliveredLive(g)) <= 1

(* Revoking a refresh token, or logging out, is final: when no other handler *)
(* was at work on the grant and no statement of it failed, nothing a client  *)
(* holds survives it or comes back later (RevokeToken, TerminateSession).    *)
EndedIsFinal == \A g \in ended : Live(g) = {} /\ DeliveredLive(g) = {}

(* A grant is open while it has a refresh token, or a handler that has       *)
(* passed its last look at one (or never needed one) is still to insert.  A  *)
(* refresh exchange before renewRefreshToken has found the row opens nothing. *)
Serving(w) ==
    \/ pc[w] \in {"insertRefresh", "deleteOldRefresh", "deleteOldAccess", "insertRenewed"}
    \/ pc[w] = "insertAccess" /\ job[w].row = NoRow
OpenGrants == {r.grant : r \in refreshTokens}
                \cup {job[w].access.grant : w \in {v \in Worker : Serving(v)}}
HeldTokens == {t \in tokens : t.id \in delivered}

Life == INSTANCE Grants WITH open <- OpenGrants, held <- HeldTokens, fresh <- nextId

(* Whatever handlers interleave, fail or are cut short, also on one grant: a *)
(* client gets a token only for a grant that was authorised and not closed   *)
(* since; a refresh whose token was revoked before it looked at the row      *)
(* again gives none (accessToken, createRefreshToken, renewRefreshToken).    *)
ImplementsGrants == Life!Spec

(* README's "per-client ... token lifetimes": at no time is a renewed        *)
(* refresh token, one beyond the first of its grant, good for longer than    *)
(* the lifetime set for its client.                                          *)
LifetimeHonoured ==
    \A r \in refreshTokens :
        r.access # r.grant.id /\ r.client \in Client /\ RefreshLifetime[r.client] > 0 =>
            r.expires <= clock + RefreshLifetime[r.client]

(* RevokeToken's refusal "token was not issued for this client" is never     *)
(* given to the client the token was issued for.                             *)
IssuedForItsClient == \A t \in tokens : t.client = t.grant.owner
=============================================================================
