---------------------------- MODULE SigningKeys ----------------------------
(***************************************************************************)
(* The signing keys of the identity provider: the signing_keys table, the  *)
(* current key and the per-algorithm cache that Storage keeps in memory    *)
(* behind keyMu, and the goroutines that read, create and rotate them.     *)
(*                                                                         *)
(* One action is one SQL statement, one critical section of keyMu or one   *)
(* step outside both; goroutines interleave between them.  The process     *)
(* may stop at any point and boot again from the table.                    *)
(***************************************************************************)
EXTENDS Integers, FiniteSets

CONSTANTS
    Alg,         \* SupportedSignatureAlgorithms
    DefaultAlg,  \* the algorithm of the key made on first boot (RS256)
    Process,     \* HTTP request goroutines: token requests and admin rotations
    NoAlg,       \* the empty algorithm: nothing pinned, nothing in the context
    NoKey,       \* no key: an absent map entry, the memory of a stopped process
    NoOwner,     \* keyMu is not write-locked
    MaxKey,      \* bound: rotations and faults stop once this many ids are used
    MaxClock,    \* bound: seconds the database clock advances
    MaxTick      \* bound: ids in use when the clock stops

ASSUME AlgAssumption == DefaultAlg \in Alg /\ NoAlg \notin Alg
ASSUME OwnerAssumption == NoOwner \notin Process
ASSUME NumberAssumption == MaxKey \in Nat /\ MaxClock \in Nat /\ MaxTick \in Nat

(***************************************************************************)
(* A row of signing_keys.  created has a resolution of one second; made    *)
(* records, for the properties only, which code path inserted the row.     *)
(* The code never clears the active column, so it is left out.             *)
(***************************************************************************)
Origin == {"boot", "rotate", "ensure"}
Key == [id : Nat, alg : Alg, created : Nat, made : Origin]

ASSUME NoKeyAssumption == NoKey \notin Key

VARIABLES
    rows,       \* table signing_keys
    nextId,     \* the ids below are taken (uuid.NewString never repeats one)
    clock,      \* the database's clock, in seconds
    up,         \* whether the process is running
    key,        \* Storage.key
    keysByAlg,  \* Storage.keysByAlg
    keyMu,      \* the writer that holds Storage.keyMu, or NoOwner
    pc,         \* where each goroutine is
    ctx,        \* the algorithm the request's context carries
    got,        \* the key the goroutine holds in a local variable
    issued,     \* keys that have signed a token
    failed      \* whether a SQL statement has failed so far (for the properties only)

memory == <<key, keysByAlg, keyMu>>
table == <<rows, nextId>>
env == <<clock, failed>>
vars == <<rows, nextId, clock, failed, up, key, keysByAlg, keyMu, pc, ctx, got, issued>>

Location == {"idle", "current", "lookup", "lock", "load", "generate", "sign", "publish"}

-----------------------------------------------------------------------------
\* ORDER BY created_at DESC LIMIT 1: rows of the same second tie, in any order.
Newest(S) == {k \in S : \A j \in S : j.created <= k.created}

\* loadActiveKeyByAlg: the rows its SELECT may return.
ActiveByAlg(a) == Newest({k \in rows : k.alg = a})

(* KeySet: the keys the jwks endpoint publishes when its SELECT succeeds.  A *)
(* response whose SELECT fails carries the current key alone.                *)
KeySet == IF rows = {} THEN {key} ELSE rows

\* SignatureAlgorithms: the algorithms discovery advertises.
SignatureAlgorithms == {k.alg : k \in KeySet}

\* generateSigningKey's row, inserted by the given code path.
NewKey(a, origin) == [id |-> nextId, alg |-> a, created |-> clock, made |-> origin]

\* generateSigningKey: a fresh key of algorithm a, persisted before it is returned.
Insert(k) == /\ rows' = rows \cup {k}
             /\ nextId' = nextId + 1

\* keysByAlg[k.algorithm] = k, with or without replacing the current key.
Cache(k) == keysByAlg' = [keysByAlg EXCEPT ![k.alg] = k]

\* RLock and Lock both wait for the writer; read sections are single steps.
KeyMuFree == keyMu = NoOwner

Goto(p, l) == pc' = [pc EXCEPT ![p] = l]
Hold(p, k) == got' = [got EXCEPT ![p] = k]
At(p, l) == up /\ pc[p] = l

-----------------------------------------------------------------------------
Init ==
    /\ rows = {} /\ nextId = 0 /\ clock = 0
    /\ up = FALSE
    /\ key = NoKey /\ keysByAlg = [a \in Alg |-> NoKey] /\ keyMu = NoOwner
    /\ pc = [p \in Process |-> "idle"]
    /\ ctx = [p \in Process |-> NoAlg]
    /\ got = [p \in Process |-> NoKey]
    /\ issued = {} /\ failed = FALSE

(* SigningAlgMiddleware: the algorithm the client is configured with, if any. *)
(* Only /authorize and the token endpoint are covered: a token issued at      *)
(* /authorize/callback carries no algorithm whatever its client says.         *)
StartToken(p) ==
    /\ At(p, "idle")
    /\ \E alg \in Alg \cup {NoAlg} :
          /\ ctx' = [ctx EXCEPT ![p] = alg]
          /\ Goto(p, IF alg = NoAlg THEN "current" ELSE "lookup")
    /\ UNCHANGED <<table, env, up, memory, got, issued>>

\* currentKey
CurrentKey(p) ==
    /\ At(p, "current") /\ KeyMuFree
    /\ Hold(p, key) /\ Goto(p, "sign")
    /\ UNCHANGED <<table, env, up, memory, ctx, issued>>

\* ensureKeyForAlg, first lookup, under the read lock
CacheHit(p) ==
    /\ At(p, "lookup") /\ KeyMuFree
    /\ keysByAlg[ctx[p]] # NoKey
    /\ Hold(p, keysByAlg[ctx[p]]) /\ Goto(p, "sign")
    /\ UNCHANGED <<table, env, up, memory, ctx, issued>>

CacheMiss(p) ==
    /\ At(p, "lookup") /\ KeyMuFree
    /\ keysByAlg[ctx[p]] = NoKey
    /\ Goto(p, "lock")
    /\ UNCHANGED <<table, env, up, memory, ctx, got, issued>>

\* Mutant: the re-check under the write lock is dropped.
LockKeysNoRecheck(p) ==
    /\ At(p, "lock") /\ KeyMuFree
    /\ keyMu' = p /\ Goto(p, "load")
    /\ UNCHANGED <<table, env, up, key, keysByAlg, ctx, got, issued>>

\* ensureKeyForAlg, second lookup, under the write lock
LockKeys(p) ==
    /\ At(p, "lock") /\ KeyMuFree
    /\ IF keysByAlg[ctx[p]] # NoKey
       THEN /\ Hold(p, keysByAlg[ctx[p]]) /\ Goto(p, "sign")
            /\ UNCHANGED keyMu
       ELSE /\ keyMu' = p /\ Goto(p, "load")
            /\ UNCHANGED got
    /\ UNCHANGED <<table, env, up, key, keysByAlg, ctx, issued>>

\* Mutant: the SELECT forgets its algorithm filter.
LoadActiveAnyAlg(p) ==
    /\ At(p, "load")
    /\ \E k \in Newest(rows) :
          /\ keysByAlg' = [keysByAlg EXCEPT ![ctx[p]] = k]
          /\ Hold(p, k) /\ Goto(p, "sign") /\ keyMu' = NoOwner
    /\ UNCHANGED <<table, env, up, key, ctx, issued>>

\* Mutant: the lock is released before a missing key is generated.
LoadActiveUnlocks(p) ==
    /\ At(p, "load") /\ keyMu' = NoOwner
    /\ \/ \E k \in ActiveByAlg(ctx[p]) : Cache(k) /\ Hold(p, k) /\ Goto(p, "sign")
       \/ /\ \A k \in rows : k.alg # ctx[p]
          /\ Goto(p, "generate")
          /\ UNCHANGED <<keysByAlg, got>>
    /\ UNCHANGED <<table, env, up, key, ctx, issued>>

\* ensureKeyForAlg: loadActiveKeyByAlg, still under the write lock
LoadActive(p) ==
    /\ At(p, "load")
    /\ \/ \E k \in ActiveByAlg(ctx[p]) :
             Cache(k) /\ Hold(p, k) /\ Goto(p, "sign") /\ keyMu' = NoOwner
       \/ /\ \A k \in rows : k.alg # ctx[p]
          /\ Goto(p, "generate")
          /\ UNCHANGED <<keysByAlg, keyMu, got>>
    /\ UNCHANGED <<table, env, up, key, ctx, issued>>

\* Every error of the SELECT reads as "there is no such key".
LoadActiveFails(p) ==
    /\ nextId < MaxKey
    /\ At(p, "load") /\ Goto(p, "generate") /\ failed' = TRUE
    /\ UNCHANGED <<table, clock, up, memory, ctx, got, issued>>

\* Mutant: the error-free path returns without unlocking keyMu.
GenerateKeepsLock(p) ==
    /\ At(p, "generate")
    /\ LET k == NewKey(ctx[p], "ensure") IN
         Insert(k) /\ Cache(k) /\ Hold(p, k) /\ Goto(p, "sign")
    /\ UNCHANGED <<env, up, key, keyMu, ctx, issued>>

\* ensureKeyForAlg: generateSigningKey, cached before keyMu is released
Generate(p) ==
    /\ At(p, "generate")
    /\ LET k == NewKey(ctx[p], "ensure") IN
         Insert(k) /\ Cache(k) /\ Hold(p, k) /\ Goto(p, "sign")
    /\ keyMu' = NoOwner
    /\ UNCHANGED <<env, up, key, ctx, issued>>

\* SigningKey falls back to the current key when ensureKeyForAlg fails.
GenerateFails(p) ==
    /\ At(p, "generate") /\ Goto(p, "current") /\ keyMu' = NoOwner /\ failed' = TRUE
    /\ UNCHANGED <<table, clock, up, key, keysByAlg, ctx, got, issued>>

\* The provider library signs with the key SigningKey returned.
Sign(p) ==
    /\ At(p, "sign")
    /\ issued' = issued \cup {got[p]}
    /\ Goto(p, "idle") /\ Hold(p, NoKey)
    /\ ctx' = [ctx EXCEPT ![p] = NoAlg]
    /\ UNCHANGED <<table, env, up, memory>>

\* Mutant: the rotated key is only kept in memory.
RotateUnstored(p) ==
    /\ At(p, "idle") /\ nextId < MaxKey
    /\ \E a \in Alg : Hold(p, NewKey(a, "rotate"))
    /\ nextId' = nextId + 1 /\ rows' = rows /\ Goto(p, "publish")
    /\ UNCHANGED <<env, up, memory, ctx, issued>>

\* RotateSigningKey: the key is generated and persisted outside keyMu.
Rotate(p) ==
    /\ At(p, "idle") /\ nextId < MaxKey
    /\ \E a \in Alg : Insert(NewKey(a, "rotate")) /\ Hold(p, NewKey(a, "rotate"))
    /\ Goto(p, "publish")
    /\ UNCHANGED <<env, up, memory, ctx, issued>>

\* Mutant: the rotation leaves the cache alone.
PublishKeyOnly(p) ==
    /\ At(p, "publish") /\ KeyMuFree
    /\ key' = got[p] /\ Goto(p, "idle") /\ Hold(p, NoKey)
    /\ UNCHANGED <<table, env, up, keysByAlg, keyMu, ctx, issued>>

\* RotateSigningKey: the key becomes current, under the write lock.
Publish(p) ==
    /\ At(p, "publish") /\ KeyMuFree
    /\ key' = got[p] /\ Cache(got[p])
    /\ Goto(p, "idle") /\ Hold(p, NoKey)
    /\ UNCHANGED <<table, env, up, keyMu, ctx, issued>>

-----------------------------------------------------------------------------
\* Mutant: an empty table boots a process without a key.
BootWithoutKey ==
    /\ ~up /\ up' = TRUE
    /\ UNCHANGED <<table, env, memory, pc, ctx, got, issued>>

\* Mutant: the key loaded at boot is not put into the cache.
BootEmptyCache ==
    /\ ~up /\ up' = TRUE
    /\ \E k \in rows \cup {NewKey(DefaultAlg, "boot")} :
          /\ \/ k \in Newest(rows) /\ UNCHANGED <<table, failed>>
             \/ rows = {} /\ k = NewKey(DefaultAlg, "boot") /\ Insert(k) /\ UNCHANGED failed
          /\ key' = k
    /\ UNCHANGED <<keysByAlg, clock, keyMu, pc, ctx, got, issued>>

(* NewStorage: loadOrCreateSigningKey loads the newest key, and generates one *)
(* when the table is empty or its SELECT fails.                              *)
Boot ==
    /\ ~up /\ up' = TRUE
    /\ \E k \in rows \cup {NewKey(DefaultAlg, "boot")} :
          /\ \/ k \in Newest(rows) /\ UNCHANGED <<table, failed>>
             \/ /\ k = NewKey(DefaultAlg, "boot") /\ Insert(k)
                /\ \/ rows = {} /\ UNCHANGED failed
                   \/ nextId < MaxKey /\ failed' = TRUE
          /\ key' = k
          /\ keysByAlg' = [a \in Alg |-> IF a = k.alg THEN k ELSE NoKey]
    /\ UNCHANGED <<clock, keyMu, pc, ctx, got, issued>>

\* The process stops: its goroutines and its memory are gone, the table stays.
Crash ==
    /\ up /\ up' = FALSE
    /\ key' = NoKey /\ keysByAlg' = [a \in Alg |-> NoKey] /\ keyMu' = NoOwner
    /\ pc' = [p \in Process |-> "idle"] /\ got' = [p \in Process |-> NoKey]
    /\ ctx' = [p \in Process |-> NoAlg]
    /\ UNCHANGED <<table, env, issued>>

\* Only the order of creation counts: the clock starts with the first key.
Tick ==
    /\ rows # {} /\ clock < MaxClock /\ nextId < MaxTick
    /\ clock' = clock + 1
    /\ UNCHANGED <<table, failed, up, memory, pc, ctx, got, issued>>

-----------------------------------------------------------------------------
\* What a goroutine does once its request or rotation has begun.
Step(p) ==
    \/ CurrentKey(p) \/ CacheHit(p) \/ CacheMiss(p) \/ LockKeys(p)
    \/ LoadActive(p) \/ Generate(p) \/ Sign(p) \/ Publish(p)

Next ==
    \/ \E p \in Process :
          \/ StartToken(p) \/ Rotate(p) \/ Step(p)
          \/ LoadActiveFails(p) \/ GenerateFails(p)
    \/ Boot \/ Crash \/ Tick

Spec == Init /\ [][Next]_vars

(* Strong fairness: a goroutine waiting for keyMu is served eventually,    *)
(* because sync.RWMutex lets neither readers nor writers starve.           *)
Fairness == \A p \in Process : SF_vars(Step(p))
FairSpec == Spec /\ Fairness

-----------------------------------------------------------------------------
(* The values every variable may take.  A running process has a current key, *)
(* a stopped one has no memory.                                             *)
TypeOK ==
    /\ rows \subseteq Key /\ nextId \in Nat /\ clock \in Nat
    /\ up \in BOOLEAN
    /\ key \in IF up THEN Key ELSE {NoKey}
    /\ keysByAlg \in [Alg -> Key \cup {NoKey}]
    /\ keyMu \in Process \cup {NoOwner}
    /\ pc \in [Process -> Location]
    /\ ctx \in [Process -> Alg \cup {NoAlg}]
    /\ got \in [Process -> Key \cup {NoKey}]
    /\ issued \subseteq Key /\ failed \in BOOLEAN

(* A token validates for ever: the key of every token ever issued is         *)
(* published in the JWKS and its algorithm advertised, through rotations,    *)
(* on-demand keys, restarts and statements that failed before (KeySet).      *)
IssuedTokensVerify ==
    up => \A k \in issued : k \in KeySet /\ k.alg \in SignatureAlgorithms

(* The cache agrees with the current key: a client pinned to the current     *)
(* key's algorithm signs with the current key, whatever the order of         *)
(* rotations and on-demand keys (RotateSigningKey, ensureKeyForAlg).         *)
CurrentIsCached == up => keysByAlg[key.alg] = key

(* A request whose context names an algorithm signs with a key of that       *)
(* algorithm, unless a failed statement makes SigningKey fall back.          *)
ContextAlgHonoured ==
    \A p \in Process :
        At(p, "sign") /\ ctx[p] # NoAlg /\ ~failed => got[p].alg = ctx[p]

(* On-demand generation happens at most once per algorithm in the life of    *)
(* the database: concurrent first requests share one key (the double check   *)
(* of ensureKeyForAlg) and a restart finds the stored one.                   *)
OnDemandOnce ==
    ~failed => \A j, k \in rows :
        j.made = "ensure" /\ k.made = "ensure" /\ j.alg = k.alg => j = k

(* Only a rotation replaces a cached key: between two rotations every client *)
(* pinned to an algorithm keeps signing with one key.                        *)
OnlyRotationReplaces ==
    [][\A a \in Alg :
          keysByAlg[a] # NoKey /\ keysByAlg'[a] \notin {NoKey, keysByAlg[a]}
          => \E p \in Process : At(p, "publish") /\ got[p] = keysByAlg'[a]]_vars

(* Every request for a key and every rotation comes to an end: no goroutine  *)
(* waits for keyMu for ever.                                                 *)
RequestsEnd == \A p \in Process : pc[p] # "idle" ~> pc[p] = "idle"

(* The abstract key ring: the table is the ring, Storage.key its current key *)
(* and keysByAlg the active ones; goroutines, keyMu and the clock are gone.  *)
Ring == INSTANCE KeyRing WITH ring <- rows, current <- key, active <- keysByAlg,
                              signed <- issued, faulty <- failed

(* The locked cache, the two-step rotation and the restart together behave   *)
(* like one atomic key ring: whatever the interleaving, a goroutine's step   *)
(* is one of its operations or none (Storage.SigningKey, RotateSigningKey).  *)
ImplementsKeyRing == Ring!Spec

(* The comment on Storage.key, "current (newest) signing key": with no       *)
(* rotation under way the current key is one of the newest stored keys.      *)
CurrentIsNewest ==
    up /\ (\A p \in Process : pc[p] # "publish") => key \in Newest(rows)

-----------------------------------------------------------------------------
(* The inductive invariant: what holds between any two steps, and makes the  *)
(* properties above hold after every step.                                   *)

\* keyMu is held exactly while its holder loads or generates a key.
LockInv ==
    \A p \in Process : pc[p] \in {"load", "generate"} => keyMu = p

\* A stopped process has neither goroutines nor a cache.
DownInv == ~up => /\ \A p \in Process : pc[p] = "idle"
                  /\ \A a \in Alg : keysByAlg[a] = NoKey

\* A request enters ensureKeyForAlg only with an algorithm in its context.
RequestInv ==
    \A p \in Process :
        pc[p] \in {"lookup", "lock", "load", "generate"} => ctx[p] \in Alg

\* Every key a goroutine, the memory or a token relies on is in the table.
StoredInv ==
    /\ issued \subseteq rows
    /\ up => key \in rows
    /\ \A a \in Alg : keysByAlg[a] # NoKey => keysByAlg[a] \in rows /\ keysByAlg[a].alg = a
    /\ \A p \in Process : pc[p] \in {"sign", "publish"} => got[p] \in rows

\* The lock holder looks for a key that is still absent from the cache, so
\* what it caches never replaces the current key.
CacheInv ==
    /\ CurrentIsCached
    /\ \A p \in Process : pc[p] \in {"load", "generate"} => keysByAlg[ctx[p]] = NoKey

\* The lock holder about to generate is the first ever to do so.
EnsureInv ==
    /\ OnDemandOnce
    /\ \A p \in Process : ~failed /\ pc[p] = "generate" =>
          \A k \in rows : k.alg = ctx[p] => k.made # "ensure"

\* The key a goroutine signs with has the algorithm its context names.
SignInv ==
    \A p \in Process :
        ~failed /\ pc[p] = "sign" /\ ctx[p] # NoAlg => got[p].alg = ctx[p]

\* With no failing statement, the fallback to the current key means no algorithm.
FallbackInv ==
    \A p \in Process : ~failed /\ pc[p] = "current" => ctx[p] = NoAlg

\* What a rotation is about to publish was made by a rotation.
RotationInv == \A p \in Process : pc[p] = "publish" => got[p].made = "rotate"

IndInv ==
    /\ TypeOK /\ LockInv /\ DownInv /\ RequestInv /\ StoredInv
    /\ CacheInv /\ EnsureInv /\ SignInv /\ FallbackInv /\ RotationInv
=============================================================================
