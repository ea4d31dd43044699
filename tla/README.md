# A TLA+ model of oidc-test-idp

This directory holds specifications of the identity provider in `src/`: what
its handlers do to the database and to the process's memory, statement by
statement, how they interleave, and what survives a stop in between. TLC checks
the modules on small instances. TLAPS proves, for every instance, every safety
property that the runs check; what is left to TLC alone is liveness.

The program is one Go process over one SQLite database. The HTTP side of OAuth2
and OIDC is a library (`github.com/zitadel/oidc`, not in the repository) that
calls the repository's `Storage`; around it the repository adds a login, a
consent and a device page, an administration UI, middleware, and a boot that
migrates and seeds the database. **No handler uses a transaction**: the
connection pool has one connection, so single statements are atomic and that is
all. Nearly everything that is hard here follows from that.

## Inventory

| Part | State | Operations | What makes it correct |
|---|---|---|---|
| Signing keys (`storage/keys.go`, `storage.go`, `oidc/signing.go`) | table `signing_keys`; `key`, `keysByAlg` behind `keyMu` | load or create on boot, look up or generate for a client's algorithm, rotate, publish the key set | every issued token stays verifiable; cache and current key agree; one key made on demand per algorithm; no lost lock; all of it as if keys were handed out by one atomic ring |
| Auth requests, login, consent (`storage.go`, `auth/auth.go`) | tables `auth_requests`, `auth_codes` | create, pick a user, complete, allow, deny, callback, save a code, exchange, delete | a token is one login's; consent comes first; answers go to open requests and agreed subjects; what is closed stays closed |
| Token store (`storage.go`, `oidc/ropc.go`) | tables `tokens`, `refresh_tokens` | grants, refresh rotation, revocation, logout | rotation keeps identity and scopes; one pair per grant; an end is final |
| Device flow (`storage.go`, `auth/device.go`) | table `device_codes` | store, offer, approve, deny, poll | one device per code; only approved subjects; a denial is final; polling ends |
| Startup (`cmd/idp`, `storage/db.go`, `seed`, `oidc/provider.go`) | `schema_migrations`, `users`, `clients`, `settings` | migrate, seed, crypto key, serve | no half schema; one crypto key; deleted rows stay away; the boot comes up |
| Admin UI (`admin`, `storage/repo.go`) | users, clients, settings; forms open in browser tabs | open, save, rename, delete, save settings, rotate | a client keeps one row whatever its id; a refused form changes nothing |
| Users and claims (`models.go`, `repo.go`, `storage.go`) | users with pinned subjects, claim rules | resolve a subject, evaluate rules, merge | claims are the token owner's or nobody's; the most specific source wins |
| Mock behaviour, signing algorithm, discovery override (`behavior`, `oidc/signing.go`) | the rows and the setting each reads on its own | delay, force an error, pin an algorithm, merge a document | an answer follows what was configured while its request ran |
| Request log (`reqlog`) | a ring buffer of 200 entries behind a mutex | add when a request has ended, list | shows exactly the requests that ended last, newest first |
| Server (`server/server.go`) | none | the order of the middlewares, routing | the order is the one the properties above rest on |
| Configuration, rendering, pages, container | none | environment, HTML | - |

They interact through the database and `Storage`. A request passes the request
log, the discovery override, the mock behaviour, the signing algorithm and the
password grant before the library sees it, and each of them looks up the client
or the setting again; the middlewares, the password grant and the library do not
even take the client id from the same place. The library's callback calls
`AuthRequestByID` and either saves a code or issues tokens; an exchange reads
the request by its code, stores the tokens, then deletes the request; every
token is signed with what `SigningKey` returns; userinfo and introspection
search a token's user anew. The admin UI writes the tables the protocol handlers
read. A restart keeps the tables and loses `key`, `keysByAlg`, the request log
and every handler in flight.

The hard behaviours are: statements of several handlers that interleave; rows
read, then written back later; the same row read twice with an edit in between;
stops between two statements; retries that race their first attempt; ties of
the one-second clock; errors taken for "not there". `PROJECT.json` lists them
under `hazards`, each at its line with the properties that would catch it.

## Plan

Done, the most important behaviour first:

1. `SigningKeys`; `AuthRequests`, `TokenStore`, `DeviceFlow`, `Startup`.
2. `Clients` (the admin's client form) and `Protocol`, which composes it and
   `RequestLog` with the requests that pass the middlewares.
3. `Subjects` and `Claims`.
4. Statements that fail, in every module in which a handler treats a failure
   differently from a stop.
5. Refinements: `SigningKeys` implements `KeyRing`, `AuthRequests` implements
   `Logins`, `TokenStore` implements `Grants`, `RequestLog` implements
   `RecentRequests`.
6. Proofs of the safety properties and refinements of all modules.

Left:

- `CodeGrant`: `AuthRequests` and `TokenStore` composed, so that the exchange
  that deletes a request and the tokens it stored are seen together (one code,
  one grant).

The modules are written for that: constants carry named assumptions, one
action is one statement or critical section, nothing is `RECURSIVE`, and the
properties are state predicates over the variables.

## The modules and the code

`PROJECT.json`'s `map` names the lines of every definition. The common scheme: a
table is a set or a function of rows, a goroutine is a `Worker`, `Process` or
`Device` with a location `pc` and the local variables of its handler, and an
action runs from one SQL statement (or lock operation) to the next. Where a
handler first reads and then acts on what it read, the two are two actions.
`Crash`, `Stop` or `Restart` puts every goroutine back to its start and keeps
the tables. A failing statement is an action or a disjunct of its own where the
handler goes on, and `StatementFails` where it just ends. Variables called
ghosts only record what happened, for the properties; no action reads them in a
guard. A definition whose comment begins with *Mutant* is not part of any
specification: it is the bug that the property named in `PROJECT.json` must
catch.

**SigningKeys.** `rows` is `signing_keys`; `created` counts seconds, so keys may
tie and `Newest` returns all of them. `key`, `keysByAlg` and `keyMu` are the
fields of `Storage`. A token request carries an algorithm in its context
(`ctx`): its client's, or none, also at the endpoints that the middleware does
not cover. `ensureKeyForAlg` is `CacheHit`/`CacheMiss` under the read lock, then
`LockKeys`, `LoadActive`, `Generate` under the write lock. `Rotate` stores its
key outside the lock, `Publish` makes it current. The SELECTs and INSERTs on
these paths may fail at any time; a failed SELECT leads to a new key and a
failed INSERT to the current one. `failed` remembers that it happened, for the
two properties that are promised only until then. A response of the key set
whose own SELECT fails is not modelled. The `active` column is left out, because
nothing clears it.

**KeyRing** is what the module above promises, without goroutines, locks or a
clock: a ring of published keys that only grows, a current key, one active key
per algorithm, all changed atomically. `SigningKeys` instantiates it
(`Ring == INSTANCE KeyRing WITH ring <- rows, current <- key, ...`); between the
two steps of a rotation its key is in the ring and not yet in use.

**AuthRequests.** A row has the columns `user` and `done` and, of its JSON data,
the client, the flow and whose ACR and AMR it carries. `Load` and `Save` serve
`SetAuthRequestUser` and `CompleteAuthRequest`: a save writes the whole row that
was loaded, whatever happened since. The login form's user id is not looked at
before it is saved, and `CompleteAuthRequest` takes any error of its `GetUser`
for a user who is not there: it then completes the request with the bare id, and
leaves the ACR and AMR an earlier login put there (`Completed` with `found`
false; the ghost `missed` remembers it). A request may begin with the subject of
an id_token_hint. `Consent` may be sent for any request, since the handler does
not ask whether the client wants consent. `Callback`, `Exchange` and `Issue`
stand for the library. A denial goes through the same two DELETEs as the end of
an exchange and shows its page whether they succeed or not (`StatementFails`).
The consent page, the account page and prompt=none change no state and have no
action.

**Logins** is what these tables promise of a request whatever overlaps: it is
asked once, with a client and a flow that do not change; somebody agrees to be its
subject; while it is open it may be answered for a subject agreed on for this
very request; a closed one stays closed. In the refinement mapping
(`Signin == INSTANCE Logins WITH open <- OpenRequests, ...`) a request is open
while it has a row, or a handler that has loaded one and will write it back or
answer with it. Picking a user agrees to that user's row id and subject
(`SetAuthRequestUser` writes the one, `CompleteAuthRequest` the other), Allow to
the subject it saves, which may have been recorded by another login.

**TokenStore.** Ids are drawn in order from 1. A grant (who authorised which
client for what) is a ghost carried by every row that descends from it. A
refresh token gets its client's lifetime if `GetClient` finds the client and the
lifetime is above 0, else five hours (`DefaultLifetime`); a renewed one always
five hours. `BeginGrant` is the common way of all grants into
`CreateAccessToken` and `CreateAccessAndRefreshTokens`; its callers differ in
the application id that ends up in the rows: the client's for a login, a
password grant and client credentials, none for the device grant
(`ApplicationOfDevice`), and the first audience of the assertion for the JWT
profile grant (`StartProfileGrant`), which may name any client or none.
`StartRefresh` is the library's refresh exchange, which may narrow the scopes.
`delivered` holds the access tokens that a response carried to a client: an
access token whose refresh failed after its INSERT stays in the table and nobody
has it. `overlapped` remembers the grants two handlers worked on at the same
time; two properties are only promised for the others. `RevokeRefreshFails` and
`StatementFails` are the DELETEs whose errors `RevokeToken` ignores.

**Grants** is what the token store promises of a grant whatever overlaps: it is
opened once, when somebody authorises it, tokens that speak for it reach a client
while it is open, and a closed grant stays closed. In the refinement mapping
(`Life == INSTANCE Grants WITH open <- OpenGrants, ...`) a grant is open while it
has a refresh token or a handler that has passed its last look at one is still
to insert (`Serving`). So a refresh that is on its way when its token is revoked
gives nothing if the revocation comes before `LoadRenew`; if it comes after, the
grant is still open and the client may get a pair. That is where the code draws
the line, and `overlapped` is what `EndedIsFinal` excludes for it.

**DeviceFlow.** One device per device code; user codes are drawn from a small
set so that they collide. A COUNT that fails reads as zero, so only the unique
index stands between two devices and one code. The page's approve and deny go by
the user code and look at neither its existence nor its expiry; a denial that
fails changes nothing. Polling is the library's order: denied, then done, then
expired, else pending; a device may poll again after any answer, because its row
is never consumed. The page that offers a code only reads. Device codes are
never deleted, so a user code is never free again.

**Startup.** Migrations are numbered files with a number of statements each;
`Repeatable` ones say IF NOT EXISTS and the others are ALTER TABLEs that fail
the second time. The boot then counts, seeds row by row (either part of the seed
may be empty), reads or writes the crypto key, and serves. The read of the key
may fail, which the code takes for an absent one; `misread` remembers it. A
failed boot exits; starting again is `Start`.

**Clients.** `clients` maps an id to a configuration or to nothing. A browser
tab shows a form (`OpenForm`) with the row as it then was; `PostForm` is the
first half of `saveClient`, with the DELETE of a renamed client's old row, and
`SaveClient` or `RefuseSave` the second. A client as the admin knows it is a
`Line`: the seeded id, or the form it was entered in, whatever its id becomes.
The ghost `line` says which of them a row is, `saved` and `removed` which ones
there ought to be, and `excused` collects those of which nothing is promised
(`Excuse`): two forms or a form and a deletion on one client at the same time,
one saved over another, or a rename cut short. What is left is what a careful
admin relies on.

**Protocol** extends `Clients` and `RequestLog`. A request is `covered`
(authorize and token endpoint), a `password` grant, a `discovery` request or a
`callback`; `Entrance` and the `Goto`s are the order of the middlewares in
`server.New`. A request carries a client id in its query, in Basic, in its form,
in an assertion, or in several of them. The middlewares take the first of query,
Basic and form (`RequestClientID`), the password grant the first of Basic and
form (`ClientCredentials`), the library any of the four; so a request has a
client it is taken to name (`job.named`) and one it is served as (`job.client`),
or either or none. `LoadClient` and `SigningAlg` read the first,
`PasswordGrant`, `PasswordTokens` and `Provider` the second, each for itself. A
failed read is taken for an absent row by the middlewares, and so it is here.
The simulated latency takes time and changes nothing: it is the pause between
`LoadClient` and `ForceError`. The ghost `seen` of a request is everything its
two clients (or the override) have been since it arrived; the property asks for
versions in `seen`, in an order, that explain the answer.

**RequestLog** is the buffer of `reqlog.Log`; **RecentRequests** is its promise,
over the history of all requests that have ended. `RequestLog` instantiates it
with what the page shows (`shown <- Entries`).

**Subjects.** A user row has a pinned subject or none; a token stores the
subject its user had when it was issued. `BySubject` and `ById` are the two
SELECTs of `GetUserBySubject`, and an admin may edit, delete and re-create users
between any two steps, and pin any text, also another user's row id. The ghost
`owner` is the user a token was issued for; `strayed` holds the tokens whose
subject has stopped being their owner's alone, and `blind` says that the owner
was away, or a SELECT failed, while the answer was made.

**Claims.** The merge of static, conditional and client claims. A userinfo has
two parts: the claims appended to it, and its field `Address`, which is the
user's static address under the address scope, if it is an object (`HasAddress`,
`ToAddress`); that address is not appended. A JWT access token has the merged
claims, address and all. An answer for which no user is found has only the
client's claims, and nothing to merge. Any inputs are asked for once (`Ask`);
the action `EvaluateConditionalClaims` is one pass of the loop over the user's
rules, with its local `out` as a variable, so that the loop can be proved about
by an invariant; the copies of one source over another are operators.
`ClaimPrecedence` is the reference definition: it names the source of each claim
without looping or copying anything.

## Runs

All bounds are constants named in the modules - `MaxKey`, `MaxClock`,
`MaxTick`, `MaxId`, `MaxStops`, `MaxForms`, `MaxRequests`, `MaxLog`, `MaxSaves`,
`MaxRules`, `Asked`, and in `MCAuthRequests` `MaxChoices`, `MaxMissed`, `Hint` -
and the sizes of the sets.

| Run | Shows | Instance |
|---|---|---|
| `signing_keys` | types, `IssuedTokensVerify`, `CurrentIsCached`, `ContextAlgHonoured`, `OnDemandOnce`, `OnlyRotationReplaces`, the refinement `ImplementsKeyRing`, `RequestsEnd` | 2 algorithms, 2 goroutines, 3 ids before rotations and faults stop, 2 values of the one-second clock, which stops when 2 ids are in use (`MaxTick`) |
| `auth_requests` | types, `TokenIsOneLogin`, `SomeoneAllowed`, `ClosedForGood`, the refinement `ImplementsLogins` | one request, of a client with or without required consent; 2 users, 2 goroutines, one code; begun with no user or with one user's subject as hint; 3 choices of a user or an Allow, of which one login may miss its user |
| `token_store` | types, `RotationKeepsGrant`, `OneTokenPairPerGrant`, `EndedIsFinal`, the refinement `ImplementsGrants` | one client and user, one scope beside openid that every grant but the JWT profile's asks for, 2 goroutines, 3 pairs of ids of which the last is for a refresh, 3 clock values, a lifetime of 1 where the default is 2 |
| `device_flow` | types, `OneDevicePerCode`, `TokenSubjectApproved`, `DeniedIsFinal`, `PollingEnds` | 2 devices, 2 codes, 2 subjects, 4 clock values |
| `startup` | types, `ServesOnFullSchema`, `OneCryptoKey`, `DeletedStaysDeleted`, `ComesUp` | 3 migrations in the repository's shapes, 2 users, 2 clients, 3 stops |
| `protocol` | types, `EveryClientOnce`, `AnswerFollowsConfiguration`, the refinement `LogShowsRecent` | 2 client ids, 3 configurations, 2 tabs, 2 forms, 3 requests, of which the first may carry two ids, one saved setting, a log of 2 entries; 2 goroutines, see below |
| `claims` | types, `TokenSpeaksForItsUser`, `ClaimPrecedence` | 3 users and one client's token or a user's; all questions over 2 claim names, one of them the address, with 2 values of which one is an object, 2 rules, the scopes profile and address, 2 clients |

The bounds are enough for the cases that matter. Two goroutines give every race
of two handlers, and each may run any number of handlers in turn; races that
need three concurrent handlers are outside the runs, and covered by the proofs.
Two algorithms distinguish "the current one" from "another one". Three keys
allow a boot key, an on-demand key and a rotation; on-demand keys are not
stopped by `MaxKey`. Three pairs of token ids allow a login and two refreshes,
concurrent or one after the other, or two grants and a refresh of one: `MCSpec`
keeps the last pair for a refresh. Three clock values let a refresh token expire
by its client's lifetime before one with the default lifetime does. Three stops
allow a stop in each phase of the boot. Two forms are what it takes for one to
overwrite, rename or re-create what the other shows; one of them may be for a
client that is new. Three requests fill a log of two entries and push one out.
Three users are a token's owner, one who takes its subject and one whose row id
is taken.

In `auth_requests`, three choices are two overlapping logins and an Allow, or
three logins, one of which may find no user; `MCSpec` counts them in the ghosts
`chosen` and `allowed`. The run of `ConsentBeforeToken` has one goroutine: its
logins come one after the other, and the trace is short and plain.

In `protocol`, requests share nothing but the log: `MCSpec` lets two of them
overlap, and end in another order than they began, where the admin changes
nothing, and runs one request where forms, deletions and settings interleave
with its steps; a request that carries two ids (c2 or none to the middlewares,
c1 served) meets one form at most. The proofs are about `Spec`, without these
limits. In `claims`, `Subjects` and `Claims` share no state: a behaviour of
`MCSpec` is one of either.

Symmetry is used only over sets that no action tells apart, and not where
liveness is checked. Deadlock is checked except in `protocol` and `claims`,
where a behaviour ends once the bounded requests are served or the one question
is answered.

### Disagreements found

Five runs are expected to end in a violation; each states what a comment, a
message or the README of the repository says, and TLC shows what the code does.

| Run | The text | The code |
|---|---|---|
| `signing_keys_newest` | `Storage.key` is the "current (newest) signing key" (storage.go:25) | an on-demand key is newer (the trace ends there; by `NewStorage`, `Boot` in the model, the next restart then changes the default key and algorithm) |
| `auth_requests_consent` | the user is recorded "without marking it done" before consent (storage.go:147) | alice logs in and presses Allow; bob's login then writes his id into the row, which stays done, and the token is bob's, who allowed nothing, with alice's ACR |
| `token_store_lifetime` | per-client "token lifetimes" (README) | a renewed refresh token always gets five hours, also where the client has a lifetime set |
| `token_store_device` | "token was not issued for this client" (storage.go:345) | device tokens carry no client, and their own client is refused |
| `startup_wedged` | Open "applies all embedded migrations" (storage/db.go:22) | a stop after an ALTER TABLE and before its record fails every later boot |

Others were seen while modelling and are visible as the exceptions in the
properties that hold; no run is kept for them:

- a client's algorithm is not in the context at the authorize callback, where
  implicit tokens are issued (oidc/signing.go:36; `StartToken`);
- a login that loaded a request before it was denied writes it back
  (`AboutToSave` in `ClosedForGood`);
- a login whose `GetUser` fails, or whose user was deleted since the page was
  shown, completes all the same: its token carries the bare id, and the ACR and
  AMR of an earlier login, where the comment speaks of "the selected user's
  ACR/AMR" (storage.go:167-174; `missed` in `TokenIsOneLogin`);
- a `client_id` in the query decides whose forced error and algorithm apply,
  while the password grant serves the client in Basic or the form and the
  library may serve the one in an assertion, so that a client's forced error
  or algorithm can be passed by (behavior.go:87, signing.go:41, ropc.go:103;
  `named` and `served` in `AnswerFollowsConfiguration`);
- a refresh token that a refresh inserts while its grant is being revoked, or
  between the two DELETEs of a logout, survives (storage.go:322, 358;
  `overlapped` in `EndedIsFinal`);
- an approval of a code that has expired is honoured by the next poll, since the
  library asks for done before it asks for the expiry (storage.go:685; `Poll`);
- two concurrent refreshes of one token insert two successors (`overlapped` in
  `OneTokenPairPerGrant`);
- the application id of a JWT profile grant is the assertion's first audience,
  not the client's id as the comment at storage.go:188 has it (`StartProfileGrant`);
- the device page offers expired codes, although its message speaks of "unknown
  or expired" ones (auth/device.go:25; `Approve`), and says that a code was
  denied when the UPDATE failed (auth/device.go:57; `Deny`);
- a stop in the middle of the seed leaves part of it for ever (seed.go:67;
  `CountConfig`);
- a failed read of the crypto key overwrites it (provider.go:57; `misread` in
  `OneCryptoKey`);
- a refused rename has already deleted the client (admin.go:268; `RefuseSave`),
  and forms that overlap overwrite or resurrect rows (`excused` in
  `EveryClientOnce`);
- a request that meets a client in the middle of its rename, or whose SELECT
  fails, passes without the forced error and the pinned algorithm (`Results`);
- the admin settings page shows the key id of the time the server was built,
  also after a rotation (admin.go:83).

### Fairness

`SigningKeys`: strong fairness of each goroutine's steps. Go schedules
goroutines fairly and `sync.RWMutex` starves neither readers nor writers, so a
goroutine that finds the lock free again and again gets it; weak fairness would
not say so, since the lock is taken in between. `DeviceFlow`: weak fairness of
the device's insert, polls and answers (a device that gives up is not waiting
for an answer) and of time; none for the people at the page. `Startup`: weak
fairness of the boot's steps, which includes being started again. That is an
assumption about the operator, who starts a process that has exited: the
`restart: unless-stopped` of docker-compose.yml belongs to the `client` service,
and nothing in the repository restarts `idp`. The others state no liveness: a user may
always walk away, a client may never ask, and an admin may leave a form open.

## Proofs

Every theorem holds for any values of the constants that satisfy the named
assumptions of its module, and no set is assumed finite. None of the properties
is inductive by itself. Each proof module begins with the inductive invariant
`IndInv` (that of `SigningKeys` is in its module, where TLC can check it), has a
lemma for its initial states and one per action or group of actions, combines
them into `Spec => []IndInv`, and derives each theorem from it with one temporal
step.

**SigningKeysProofs**: `TypeOK`, `IssuedTokensVerify`, `CurrentIsCached`,
`OnDemandOnce`, `ContextAlgHonoured` and the action property
`OnlyRotationReplaces`. Assumed: the default algorithm is one of `Alg`; the
absent values are none of the present ones; the bounds are natural numbers.
`IndInv` adds to `TypeOK`:

- `LockInv`: a goroutine between the write lock and its release is the holder of
  `keyMu`, so there is at most one;
- `DownInv`, `RequestInv`: a stopped process has no memory, and a goroutine at
  an on-demand location carries an algorithm;
- `StoredInv`: every key held anywhere - current, cached, local, issued - is a
  stored row, and a cached key has the algorithm it is cached for, which gives
  `IssuedTokensVerify`;
- `CacheInv`: the current key is cached, and the holder of the lock works for an
  algorithm still absent from the cache, so that what it caches replaces nothing;
  this gives `CurrentIsCached` and `OnlyRotationReplaces`;
- `EnsureInv`: until a statement fails, the holder of the lock that is about to
  generate finds no on-demand key of its algorithm in the table, which gives
  `OnDemandOnce`;
- `SignInv`, `FallbackInv`: the key in hand matches the context's algorithm, and
  only a failed statement leads a request that carries one to the current key;
- `RotationInv`: what a rotation is about to publish was made by a rotation.

The module also proves `ImplementsKeyRing`. Each action is matched with one of the
ring's, or with a stutter: `LoadActive` and `Generate` with `Provide`,
`Rotate` with `Store`, `Publish` with the ring's `Rotate`. `CacheInv` is what makes
`Provide` apply, since the algorithm has no active key; `StoredInv` and
`RotationInv` put the published key in the ring.

**AuthRequestsProofs**: `TypeOK`, `TokenIsOneLogin`, `SomeoneAllowed`,
`ClosedForGood`. Assumed: clients with consent are clients, and the absent
values are absent. `UsedInv` says that an id not yet given out is nowhere in use,
`JobInv` what a handler knows at each location, and `SoundInv` that a row which
is done is one login or was allowed, wherever a copy of it is: in the
table, in a handler or in a token. One login means that the ACR is that of a
picked user and the subject is this user's; or that the login missed its user, the
subject is the bare id that was picked, and the ACR is anybody's who was picked,
or nobody's (`OneLogin`). The difficulty is `ClientInv`. The row that a
code leads to need not be done: a second login for a client with consent may have
written an older, undone copy over it. But then the request was done when its
code was saved, so somebody had allowed it, and `Earned` says just that: a code
stands for an allowed request, or for one of a client without consent whose row, if
it exists, is done. To say so after the row is gone, `ClientInv` keeps the client
of every request in a function `f` that no step changes for a request in use.

The module also proves `ImplementsLogins`, for which `NamedInv` is proved
inductive on top of `IndInv`: whatever may be answered names an agreed subject. It
speaks of rows that are done, and of rows a code leads to whether done or not, for the
reason above; it holds of them because every save writes a subject that was picked or
allowed (`SavedNamed`). A login and an Allow are the abstract `Agree`
(`AgreeStep`), a new request is `Ask`, `Issue` is `Answer`, and everything else
closes requests at most (`CloseStep`), since a handler has a copy only of
a request that was open when it read it (`OpenAfter`). Assumed besides: the absent
token is no token.

**TokenStoreProofs**: `TypeOK`, `RotationKeepsGrant`, `OneTokenPairPerGrant`,
`EndedIsFinal`. Assumed: lifetimes and bounds are natural numbers, `NoClient` is
no client, `NoRow` no row. `RowsInv` says that rows are well made, with unique
ids that pair up; `JobsInv` that the token a handler makes is new, and that the
row it has loaded is the table's, if that is still there; `ApartInv` that two
handlers never make one token; `OverlapInv` that two handlers of one grant have
been noticed. `PairsInv` says what is left of a grant that was not overlapped,
at each location of the handler that has it: nothing after the two DELETEs of a
rotation, the loaded pair before them, at most one pair when nobody works on it.
`EndInv` extends "nothing left" to all time after an end, which works because
nobody makes a token for an ended grant. `ClientInv` says that all rows of a
grant carry one application id, so that a logout, which selects by that id,
takes all of a grant or none of it. Actions that only remove rows share one
lemma (`QuietStep`). `IndInv` quantifies over all grants and cannot be evaluated
by TLC.

The module also proves `ImplementsGrants`, for handlers that overlap too. A new grant
is the abstract `Open` (`OpenStep`), an answer with a token is `Give` (`GiveStep`),
and everything else closes grants at most (`CloseStep`), since no step of a
handler opens a grant it does not insert for (`OpenAfter`). The step that could is
`LoadRenew`, which makes its handler one that will insert: by `JobsInv` the row it
finds is of the grant of the token it makes, so that grant is open already.
`JobsInv` also says that no client has the token yet when `Give` takes place.

**DeviceFlowProofs**: `TypeOK`, `OneDevicePerCode`, `TokenSubjectApproved`,
`DeniedIsFinal`. The unique index on the user code (`UniqueCodes`) makes codes
and rows one to one; rows are never deleted (`KeptInv`), so a device that has tokens
keeps its code for ever; an approved row names an approved subject and the row
of a denied code is denied (`RowsInv`), so a poll after a denial sees it.

**StartupProofs**: `TypeOK`, `ServesOnFullSchema`, `OneCryptoKey`,
`DeletedStaysDeleted`. `RecordedInv` (a recorded migration has run to its last
statement) and `LoopInv` (what is behind the loop is recorded, what is
before it in the file has run) give the first. `KeyInv` says that until a
read fails the stored key is the one in use and the only one ever used, also
between its INSERT and its use. `RemovedInv` says that nothing was deleted
where a seed is still to come.

**SubjectsProofs**: `TypeOK`, `TokenSpeaksForItsUser`, and `ClaimPrecedence` of
`Claims`. `StrayInv` says that a
token whose subject is not its owner's alone is known to have strayed, also in
the middle of a search during which the owner was away. `ByIdInv` is the step
between the two SELECTs: if the first did not find an owner who was there
throughout, the subject is the owner's row id, which the second will find.
`LoopInv` is the loop's invariant: after any number of rules, a claim is what
the last of them says that says something of it, and missing if none does
(`Latest`). A rule that matches becomes the last for its claims, any other
leaves them alone; `CopiesAgree` then puts the client's claims over these and
these over the user's. The field `Address` is read off the static claims alone,
and no rule or client claim reaches it.

**RequestLogProofs**: `LogShowsRecent`. `TailInv`: the buffer is the tail of the
history, as long as `MaxLog` allows. One lemma shows that an append which cuts
the front keeps it so, another that reading it backwards is what
`RecentRequests` shows.

**ProtocolProofs**: `TypeOK`, `EveryClientOnce`, `AnswerFollowsConfiguration`,
and `LogShowsRecent` of the server as a whole. Assumed: ids are not numbers of
forms, the absent values are none of the present ones, bounds are natural
numbers, a request's number can be noted in the log, and requests name ids that
a client may have. The invariant has two halves.

- `AdminInv` is about the forms. `KnownInv` says that what is saved, removed,
  excused or on a form is a client there has been, so that a new form's client
  is new everywhere (`FreshLine`). `FormInv`: a form whose client is not excused
  is alone with it, and the id it was opened for is the client's only row; none
  while the form is renaming it or before it was first saved. `OnceInv`: a
  client without a form has one row, or none if it was removed. Together they
  give `EveryClientOnce`; neither is inductive alone, because closing a form
  turns the first into the second and opening one the second into the first. A
  step that writes or deletes a row of one client touches only excused clients
  besides it (`OnlyTouches`, `Displaced`), and leaves all others as they are
  (`Elsewhere`).
- `JobInv` is about the requests: what a request in flight has seen ends with
  what its two clients are now, and `Learnt` says at each location what its
  reads have established - the client it loaded is one it saw (`forceError`), it
  saw the client it names without a forced error (`signingAlg`), the algorithm
  was pinned to that client then or later (`Pinned`), and the client it is
  served as had the password grant then or later (`Granted`). Nothing is assumed
  about which two clients a request has (`IdsTyped` only says that they are
  clients or none). All of these survive when the admin changes the client,
  because what a request has seen only grows (`PastStays`, `ObserveStep`). A
  read then adds its conjunct at the end of what was seen (`SeeFound`,
  `FoundNow`), which is why the order of the middlewares is the order of the
  property.

The last theorem shows that every step of the server is a step of the log or
leaves it alone, and cites `LogImplemented`.

Only model-checked: liveness (`RequestsEnd`, `PollingEnds`, `ComesUp`), since the
prover handles neither fairness nor ENABLED. No module has a RECURSIVE operator.

## Not modelled

- The key material, the encodings and the HTTP layer: they do not change
  which rows exist.
- `zitadel/oidc`: its endpoints are actions written from how the storage is
  called, marked external in the map. What it validates (assertions, PKCE,
  redirect URIs, client secrets) is its own.
- The standard claims of a scope (name, email, ...): copies of columns.
- Columns that the admin's forms reset because they have no field for them
  (application type, clock skew, `phone_verified`, `is_admin`): nothing that
  is modelled reads them, so a property about them would restate the form.
- A key set whose own SELECT fails: it publishes the current key alone, and the
  property would fail by construction.
- Pages that only read: lists, the claims preview, the account page.
- Routing, configuration, templates, static files, container and CI files.
