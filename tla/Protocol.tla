----------------------------- MODULE Protocol -----------------------------
(***************************************************************************)
(* A request to the protocol endpoints on its way through the middleware:  *)
(* request log, discovery override, mock behaviour, signing algorithm,     *)
(* password grant, and the provider library; while the admin edits the     *)
(* clients and settings that each of them reads on its own.                *)
(*                                                                         *)
(* The simulated latency takes time and changes no state: it is the pause  *)
(* between LoadClient and ForceError.                                      *)
(***************************************************************************)
EXTENDS Clients, RequestLog

CONSTANTS
    Worker,      \* request goroutines
    Override,    \* discovery overrides an admin may save
    NoOverride,  \* no override: the setting is absent or {}
    NoAlg,       \* no algorithm pinned: the provider's current key signs
    Asked,       \* bound: the client ids that requests name
    MaxRequests, \* bound: requests ever served
    MaxSaves     \* bound: settings ever saved

(* What the form sets that these handlers read: whether there is a forced    *)
(* error, the pinned algorithm, and whether the password grant is enabled.   *)
ASSUME ConfigAssumption ==
    \A c \in Config : /\ DOMAIN c = {"error", "alg", "password"}
                      /\ c.error \in BOOLEAN /\ c.password \in BOOLEAN
ASSUME OverrideAssumption == NoOverride \notin Override
ASSUME AskedAssumption == Asked \subseteq ClientId
ASSUME BoundAssumption == MaxRequests \in Nat /\ MaxSaves \in Nat
ASSUME EntryAssumption == 1..MaxRequests \subseteq Entry   \* an entry is a request's number

VARIABLES
    override,  \* setting discovery_override
    arrived,   \* requests so far
    saves,     \* settings saved so far
    pc, job    \* where a request is, and the local variables of its handlers

settings == <<override, saves>>
requestVars == <<pc, job, arrived>>
vars == <<adminVars, logVars, settings, requestVars>>

(* A covered request is one to the authorize or the token endpoint, other    *)
(* than a password grant; the callback ends an implicit login.               *)
Kind == {"covered", "password", "discovery", "callback"}
Location == {"idle", "override", "load", "forceError", "signingAlg", "password",
             "passwordClient", "provider", "end"}
Outcome == {"none", "error", "forced", "served", "document"}
Alg == {c.alg : c \in Config} \cup {NoAlg}

\* The client ids that a request carries: each part may name one of its own, or none.
Part == {"query", "basic", "form", "assertion"}
Request == [Part -> Asked \cup {NoClient}]
FirstOf(i, k) == IF i # NoClient THEN i ELSE k

\* clientIDFromRequest and requestClientID, for the middlewares: query, Basic, form.
RequestClientID(r) == FirstOf(r["query"], FirstOf(r["basic"], r["form"]))

\* clientCredentials, for the password grant: Basic, form.  The query plays no part.
ClientCredentials(r) == FirstOf(r["basic"], r["form"])

(* The two clients of a request: the one that the middlewares take it to     *)
(* name, and the one that is served.  The library authenticates any of the   *)
(* clients that the request carries, one in an assertion too.  A discovery   *)
(* request and a callback name none.                                         *)
PasswordIds == {<<RequestClientID(r), ClientCredentials(r)>> : r \in Request}
LibraryIds == {<<RequestClientID(r), r[p]>> : r \in Request, p \in Part}
Ids(kind) == CASE kind = "password" -> PasswordIds
               [] kind = "covered"  -> LibraryIds
               [] OTHER             -> {<<NoClient, NoClient>>}

(* What the two clients of a request, or for a discovery request the         *)
(* override, are at some moment.                                             *)
Version == [named : Config \cup {NoClient}, served : Config \cup {NoClient},
            override : Override \cup {NoOverride}]

(* The local variables: the two clients, the one the behaviour middleware    *)
(* loaded, the algorithm in the context, the override that was read, the     *)
(* outcome.  Ghost seen: every version since the request arrived.            *)
Job == [req : 0..MaxRequests, kind : Kind,
        named : ClientId \cup {NoClient}, client : ClientId \cup {NoClient},
        loaded : Config \cup {NoClient}, alg : Alg, override : Override \cup {NoOverride},
        outcome : Outcome, seen : Seq(Version)]
NoJob == [req |-> 0, kind |-> "callback", named |-> NoClient, client |-> NoClient,
          loaded |-> NoClient, alg |-> NoAlg, override |-> NoOverride, outcome |-> "none",
          seen |-> <<>>]

-----------------------------------------------------------------------------
Goto(w, l) == pc' = [pc EXCEPT ![w] = l]
Answer(w, o) == Goto(w, "end") /\ job' = [job EXCEPT ![w].outcome = o]

\* The behaviour middleware is done with its client.
Proceed(w) == Goto(w, "signingAlg") /\ job' = [job EXCEPT ![w].loaded = NoClient]

\* GetClient, in the table cs.
FoundIn(i, cs) == IF i = NoClient THEN NoClient ELSE cs[i]

\* The version of request j that the table cs and the override o make.
Watched(j, cs, o) == [named |-> FoundIn(j.named, cs), served |-> FoundIn(j.client, cs),
                      override |-> IF j.kind = "discovery" THEN o ELSE NoOverride]
Now(j) == Watched(j, clients, override)

(* A middleware's GetClient or GetSetting may fail, which it takes for a     *)
(* client or an override that does not exist; to the ghost, it did not for a *)
(* moment.                                                                   *)
Unread(j) == [Now(j) EXCEPT !.named = NoClient, !.override = NoOverride]
Results(j) == {Now(j), Unread(j)}
See(j, v) == IF v = Now(j) THEN j ELSE [j EXCEPT !.seen = @ \o <<v, Now(j)>>]

\* What a step of the admin shows to the requests in flight.
Observe ==
    job' = [w \in Worker |->
        LET j == job[w]
            now == Watched(j, clients', override')
        IN  IF pc[w] \in {"idle", "end"} \/ now = j.seen[Len(j.seen)] THEN j
            ELSE [j EXCEPT !.seen = Append(@, now)]]

Init ==
    /\ AdminInit /\ LogInit /\ override = NoOverride /\ saves = 0
    /\ arrived = 0 /\ pc = [w \in Worker |-> "idle"] /\ job = [w \in Worker |-> NoJob]

\* Mutant: the password grant is intercepted before the mock behaviour.
EntrancePasswordFirst(kind) == CASE kind = "discovery" -> "override"
                                 [] kind = "callback"  -> "provider"
                                 [] kind = "password"  -> "password"
                                 [] OTHER              -> "load"

(* The middleware's view of a path: the authorize and token endpoints go     *)
(* through mock behaviour and signing algorithm; the authorize callback,     *)
(* which issues the tokens of the implicit flow, goes straight to the        *)
(* library.                                                                  *)
Entrance(kind) == CASE kind = "discovery" -> "override"
                    [] kind = "callback"  -> "provider"
                    [] OTHER              -> "load"

\* A request arrives, with its two clients.
Arrive(w, kind, ids) ==
    LET j == [NoJob EXCEPT !.req = arrived + 1, !.kind = kind,
                           !.named = ids[1], !.client = ids[2]] IN
      /\ pc[w] = "idle" /\ arrived < MaxRequests
      /\ arrived' = arrived + 1
      /\ job' = [job EXCEPT ![w] = [j EXCEPT !.seen = <<Now(j)>>]]
      /\ Goto(w, Entrance(kind))
      /\ UNCHANGED <<adminVars, logVars, settings>>

(* behavior.Middleware: GetClient.  A request that names no client, and one  *)
(* whose client is not found, go on without mock behaviour.                  *)
LoadClient(w) == \E v \in Results(job[w]) :
      /\ pc[w] = "load"
      /\ Goto(w, IF v.named = NoClient THEN "signingAlg" ELSE "forceError")
      /\ job' = [job EXCEPT ![w] = [See(@, v) EXCEPT !.loaded = v.named]]
      /\ UNCHANGED <<adminVars, logVars, settings, arrived>>

\* behavior.Middleware: after the latency, the forced error of the client loaded before.
ForceError(w) ==
    /\ pc[w] = "forceError"
    /\ IF job[w].loaded.error THEN Answer(w, "forced") ELSE Proceed(w)
    /\ UNCHANGED <<adminVars, logVars, settings, arrived>>

\* SigningAlgMiddleware: GetClient once more, for the algorithm (all in Alg are supported).
SigningAlg(w) == \E v \in Results(job[w]) :
      /\ pc[w] = "signingAlg"
      /\ job' = [job EXCEPT ![w] =
            [See(@, v) EXCEPT !.alg = IF v.named = NoClient THEN NoAlg ELSE v.named.alg]]
      /\ Goto(w, IF job[w].kind = "password" THEN "password" ELSE "provider")
      /\ UNCHANGED <<adminVars, logVars, settings, arrived>>

(* ropcExchange: GetClient; there must be credentials, and the client must   *)
(* exist and have the grant.  A wrong secret or an unknown user are refused  *)
(* too.                                                                      *)
PasswordGrant(w) ==
    LET found == FoundIn(job[w].client, clients) IN
      /\ pc[w] = "password"
      /\ \/ Answer(w, "error")
         \/ found # NoClient /\ found.password /\ Goto(w, "passwordClient") /\ UNCHANGED job
      /\ UNCHANGED <<adminVars, logVars, settings, arrived>>

\* ropcExchange: GetClientByClientID, then the library makes the tokens; both may fail.
PasswordTokens(w) ==
    /\ pc[w] = "passwordClient"
    /\ \/ Answer(w, "error")
       \/ FoundIn(job[w].client, clients) # NoClient /\ Answer(w, "served")
    /\ UNCHANGED <<adminVars, logVars, settings, arrived>>

(* The library serves a request, with a redirect to the login page or with   *)
(* tokens, if its client is found and all else is in order.  The callback    *)
(* answers with tokens, signed without a pinned algorithm.                   *)
Provider(w) ==
    LET j == job[w] IN
      /\ pc[w] = "provider" /\ j.kind # "discovery"
      /\ \/ Answer(w, "error")
         \/ /\ j.kind = "callback" \/ FoundIn(j.client, clients) # NoClient
            /\ Answer(w, "served")
      /\ UNCHANGED <<adminVars, logVars, settings, arrived>>

\* DiscoveryOverride: GetSetting, before the library writes its document.
ReadOverride(w) == \E v \in Results(job[w]) :
      /\ pc[w] = "override" /\ Goto(w, "provider")
      /\ job' = [job EXCEPT ![w] = [See(@, v) EXCEPT !.override = v.override]]
      /\ UNCHANGED <<adminVars, logVars, settings, arrived>>

\* The library's document, with the override that was read merged over it.
Document(w) ==
    /\ pc[w] = "provider" /\ job[w].kind = "discovery" /\ Answer(w, "document")
    /\ UNCHANGED <<adminVars, logVars, settings, arrived>>

\* Log.Middleware: the entry is added when the handlers inside have returned.
End(w) ==
    /\ pc[w] = "end" /\ Add(job[w].req)
    /\ Goto(w, "idle") /\ job' = [job EXCEPT ![w] = NoJob]
    /\ UNCHANGED <<adminVars, settings, arrived>>

Admin == AdminNext /\ UNCHANGED <<logVars, settings, pc, arrived>> /\ Observe

\* saveSettings: an override that is not a JSON object is refused and changes nothing.
SaveSettings(o) ==
    /\ saves < MaxSaves /\ saves' = saves + 1
    /\ o # override /\ override' = o
    /\ UNCHANGED <<adminVars, logVars, pc, arrived>>
    /\ Observe

\* The process stops and starts again: tables and settings stay, and pages in browsers.
Restart ==
    /\ AdminCrash /\ LogRestart
    /\ pc' = [w \in Worker |-> "idle"] /\ job' = [w \in Worker |-> NoJob]
    /\ UNCHANGED <<settings, arrived>>

Next ==
    \/ \E w \in Worker :
          \/ \E k \in Kind : \E ids \in Ids(k) : Arrive(w, k, ids)
          \/ LoadClient(w) \/ ForceError(w) \/ SigningAlg(w)
          \/ PasswordGrant(w) \/ PasswordTokens(w) \/ Provider(w)
          \/ ReadOverride(w) \/ Document(w) \/ End(w)
    \/ Admin \/ (\E o \in Override \cup {NoOverride} : SaveSettings(o))
    \/ Restart

Spec == Init /\ [][Next]_vars

-----------------------------------------------------------------------------
(* The values every variable may take. *)
TypeOK ==
    /\ AdminTypeOK
    /\ buf \in Seq(Entry) /\ Len(buf) <= MaxLog
    /\ override \in Override \cup {NoOverride}
    /\ saves \in 0..MaxSaves
    /\ arrived \in 0..MaxRequests /\ pc \in [Worker -> Location] /\ job \in [Worker -> Job]

(* A request is answered by what the admin had configured while it ran (what *)
(* could not be read counts as absent at that moment), and its reads never   *)
(* go back in time: a forced error was set at some point on the client that  *)
(* the middlewares take the request to name; a served request means that     *)
(* this client was at some point without one, that the algorithm the tokens  *)
(* are signed with was pinned to it then or later, and that the client       *)
(* served, who may be another, then or later existed, with the password      *)
(* grant enabled if it is asked for; a discovery document carries an         *)
(* override that was saved at some point (the order of the middlewares in    *)
(* server.New, behavior.Middleware, SigningAlgMiddleware, ropcExchange,      *)
(* DiscoveryOverride).  Of callbacks nothing is said: they read no client.   *)
AnswerFollowsConfiguration ==
    \A w \in Worker : pc[w] = "end" /\ job[w].kind # "callback" =>
        LET j == job[w]
            s == j.seen
            ByClients == \E a, b, c \in DOMAIN s :
                /\ a <= b /\ b <= c
                /\ s[a].named # NoClient => ~s[a].named.error
                /\ j.alg = IF s[b].named = NoClient THEN NoAlg ELSE s[b].named.alg
                /\ s[c].served # NoClient
                /\ j.kind = "password" =>
                      \E d \in b..c : s[d].served # NoClient /\ s[d].served.password
        IN  /\ j.outcome = "forced" =>
                  \E a \in DOMAIN s : s[a].named # NoClient /\ s[a].named.error
            /\ j.outcome = "served" => ByClients
            /\ j.outcome = "document" => \E a \in DOMAIN s : s[a].override = j.override
=============================================================================
