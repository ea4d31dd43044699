------------------------- MODULE SigningKeysProofs -------------------------
(***************************************************************************)
(* Proofs about SigningKeys, for every set of algorithms and goroutines    *)
(* and every value of the bounds, with and without failing statements.     *)
(* One lemma per part of the inductive invariant, one step per action;     *)
(* then the refinement of the abstract key ring.                           *)
(***************************************************************************)
EXTENDS SigningKeys, TLAPS

(* The invariant holds of the empty database of a process yet to boot. *)
LEMMA InitInd == Init => IndInv
<1> SUFFICES ASSUME Init PROVE IndInv
  OBVIOUS
<1>1. TypeOK
  BY DEF Init, TypeOK, Location
<1>2. LockInv /\ DownInv /\ RequestInv /\ StoredInv
  BY DEF Init, LockInv, DownInv, RequestInv, StoredInv
<1>3. CacheInv /\ EnsureInv /\ SignInv /\ FallbackInv /\ RotationInv
  BY DEF Init, CacheInv, EnsureInv, SignInv, FallbackInv, RotationInv, CurrentIsCached,
         OnDemandOnce
<1> QED
  BY <1>1, <1>2, <1>3 DEF IndInv

(* A step keeps every variable in its type: a signed or published key is a
   key because it is a row, a generated one because its algorithm is supported. *)
LEMMA TypeStep == IndInv /\ [Next]_vars => TypeOK'
<1> SUFFICES ASSUME IndInv, [Next]_vars PROVE TypeOK'
  OBVIOUS
<1> USE AlgAssumption, NoKeyAssumption
    DEF IndInv, TypeOK, RequestInv, StoredInv,
        At, Goto, Hold, Insert, Cache, NewKey, Key, Origin, Location,
        memory, table, env
<1>1. ASSUME NEW p \in Process, StartToken(p) PROVE TypeOK'
  BY <1>1 DEF StartToken
<1>2. ASSUME NEW p \in Process, Rotate(p) PROVE TypeOK'
  BY <1>2 DEF Rotate
<1>3. ASSUME NEW p \in Process, CurrentKey(p) PROVE TypeOK'
  BY <1>3 DEF CurrentKey
<1>4. ASSUME NEW p \in Process, CacheHit(p) PROVE TypeOK'
  BY <1>4 DEF CacheHit
<1>5. ASSUME NEW p \in Process, CacheMiss(p) PROVE TypeOK'
  BY <1>5 DEF CacheMiss
<1>6. ASSUME NEW p \in Process, LockKeys(p) PROVE TypeOK'
  BY <1>6 DEF LockKeys
<1>7. ASSUME NEW p \in Process, LoadActive(p) PROVE TypeOK'
  BY <1>7 DEF LoadActive, ActiveByAlg, Newest
<1>8. ASSUME NEW p \in Process, Generate(p) PROVE TypeOK'
  BY <1>8 DEF Generate
<1>9. ASSUME NEW p \in Process, Sign(p) PROVE TypeOK'
  BY <1>9 DEF Sign
<1>10. ASSUME NEW p \in Process, Publish(p) PROVE TypeOK'
  BY <1>10 DEF Publish
<1>11. ASSUME NEW p \in Process, LoadActiveFails(p) PROVE TypeOK'
  BY <1>11 DEF LoadActiveFails
<1>12. ASSUME NEW p \in Process, GenerateFails(p) PROVE TypeOK'
  BY <1>12 DEF GenerateFails
<1>13. CASE Boot
  <2>1. PICK k \in rows \cup {NewKey(DefaultAlg, "boot")} :
            /\ \/ k \in Newest(rows) /\ UNCHANGED <<table, failed>>
               \/ /\ k = NewKey(DefaultAlg, "boot") /\ Insert(k)
                  /\ \/ rows = {} /\ UNCHANGED failed
                     \/ nextId < MaxKey /\ failed' = TRUE
            /\ key' = k
            /\ keysByAlg' = [a \in Alg |-> IF a = k.alg THEN k ELSE NoKey]
    BY <1>13 DEF Boot
  <2>2. k \in Key
    BY <2>1
  <2>3. rows' \subseteq Key /\ nextId' \in Nat
    BY <2>1, <2>2
  <2>4. failed' \in BOOLEAN
    BY <2>1
  <2>5. keysByAlg' \in [Alg -> Key \cup {NoKey}]
    BY <2>1, <2>2
  <2> QED
    BY <1>13, <2>1, <2>2, <2>3, <2>4, <2>5 DEF Boot
<1>14. CASE Crash
  BY <1>14 DEF Crash
<1>15. CASE Tick
  BY <1>15 DEF Tick
<1>16. CASE UNCHANGED vars
  BY <1>16 DEF vars
<1> QED
  BY <1>1, <1>2, <1>3, <1>4, <1>5, <1>6, <1>7, <1>8,
     <1>9, <1>10, <1>11, <1>12, <1>13, <1>14, <1>15, <1>16 DEF Next, Step

(* keyMu excludes: whoever passes the lock of ensureKeyForAlg is its holder. *)
LEMMA LockStep == IndInv /\ [Next]_vars => LockInv'
<1> SUFFICES ASSUME IndInv, [Next]_vars PROVE LockInv'
  OBVIOUS
<1> USE OwnerAssumption
    DEF IndInv, TypeOK, LockInv, DownInv,
        At, Goto, Location, memory, table, env
<1>1. ASSUME NEW p \in Process, StartToken(p) PROVE LockInv'
  BY <1>1 DEF StartToken
<1>2. ASSUME NEW p \in Process, Rotate(p) PROVE LockInv'
  BY <1>2 DEF Rotate
<1>3. ASSUME NEW p \in Process, CurrentKey(p) PROVE LockInv'
  BY <1>3 DEF CurrentKey, KeyMuFree
<1>4. ASSUME NEW p \in Process, CacheHit(p) PROVE LockInv'
  BY <1>4 DEF CacheHit, KeyMuFree
<1>5. ASSUME NEW p \in Process, CacheMiss(p) PROVE LockInv'
  BY <1>5 DEF CacheMiss, KeyMuFree
<1>6. ASSUME NEW p \in Process, LockKeys(p) PROVE LockInv'
  BY <1>6 DEF LockKeys, KeyMuFree
<1>7. ASSUME NEW p \in Process, LoadActive(p) PROVE LockInv'
  BY <1>7 DEF LoadActive, ActiveByAlg, Newest
<1>8. ASSUME NEW p \in Process, Generate(p) PROVE LockInv'
  BY <1>8 DEF Generate
<1>9. ASSUME NEW p \in Process, Sign(p) PROVE LockInv'
  BY <1>9 DEF Sign
<1>10. ASSUME NEW p \in Process, Publish(p) PROVE LockInv'
  BY <1>10 DEF Publish, KeyMuFree
<1>11. ASSUME NEW p \in Process, LoadActiveFails(p) PROVE LockInv'
  BY <1>11 DEF LoadActiveFails
<1>12. ASSUME NEW p \in Process, GenerateFails(p) PROVE LockInv'
  BY <1>12 DEF GenerateFails
<1>13. CASE Boot
  BY <1>13 DEF Boot, Newest
<1>14. CASE Crash
  BY <1>14 DEF Crash
<1>15. CASE Tick
  BY <1>15 DEF Tick
<1>16. CASE UNCHANGED vars
  BY <1>16 DEF vars
<1> QED
  BY <1>1, <1>2, <1>3, <1>4, <1>5, <1>6, <1>7, <1>8,
     <1>9, <1>10, <1>11, <1>12, <1>13, <1>14, <1>15, <1>16 DEF Next, Step

(* A stop clears goroutines and memory; nothing but a boot follows it. *)
LEMMA DownStep == IndInv /\ [Next]_vars => DownInv'
<1> SUFFICES ASSUME IndInv, [Next]_vars PROVE DownInv'
  OBVIOUS
<1> USE DEF IndInv, TypeOK, DownInv,
        At, Goto, Cache, Location, memory, table, env
<1>1. ASSUME NEW p \in Process, StartToken(p) PROVE DownInv'
  BY <1>1 DEF StartToken
<1>2. ASSUME NEW p \in Process, Rotate(p) PROVE DownInv'
  BY <1>2 DEF Rotate
<1>3. ASSUME NEW p \in Process, CurrentKey(p) PROVE DownInv'
  BY <1>3 DEF CurrentKey
<1>4. ASSUME NEW p \in Process, CacheHit(p) PROVE DownInv'
  BY <1>4 DEF CacheHit
<1>5. ASSUME NEW p \in Process, CacheMiss(p) PROVE DownInv'
  BY <1>5 DEF CacheMiss
<1>6. ASSUME NEW p \in Process, LockKeys(p) PROVE DownInv'
  BY <1>6 DEF LockKeys
<1>7. ASSUME NEW p \in Process, LoadActive(p) PROVE DownInv'
  BY <1>7 DEF LoadActive, ActiveByAlg, Newest
<1>8. ASSUME NEW p \in Process, Generate(p) PROVE DownInv'
  BY <1>8 DEF Generate
<1>9. ASSUME NEW p \in Process, Sign(p) PROVE DownInv'
  BY <1>9 DEF Sign
<1>10. ASSUME NEW p \in Process, Publish(p) PROVE DownInv'
  BY <1>10 DEF Publish
<1>11. ASSUME NEW p \in Process, LoadActiveFails(p) PROVE DownInv'
  BY <1>11 DEF LoadActiveFails
<1>12. ASSUME NEW p \in Process, GenerateFails(p) PROVE DownInv'
  BY <1>12 DEF GenerateFails
<1>13. CASE Boot
  BY <1>13 DEF Boot, Newest
<1>14. CASE Crash
  BY <1>14 DEF Crash
<1>15. CASE Tick
  BY <1>15 DEF Tick
<1>16. CASE UNCHANGED vars
  BY <1>16 DEF vars
<1> QED
  BY <1>1, <1>2, <1>3, <1>4, <1>5, <1>6, <1>7, <1>8,
     <1>9, <1>10, <1>11, <1>12, <1>13, <1>14, <1>15, <1>16 DEF Next, Step

(* ensureKeyForAlg is only called with a supported algorithm. *)
LEMMA RequestStep == IndInv /\ [Next]_vars => RequestInv'
<1> SUFFICES ASSUME IndInv, [Next]_vars PROVE RequestInv'
  OBVIOUS
<1> USE AlgAssumption
    DEF IndInv, TypeOK, RequestInv, LockInv, DownInv,
        At, Goto, Location, memory, table, env
<1>1. ASSUME NEW p \in Process, StartToken(p) PROVE RequestInv'
  BY <1>1 DEF StartToken
<1>2. ASSUME NEW p \in Process, Rotate(p) PROVE RequestInv'
  BY <1>2 DEF Rotate
<1>3. ASSUME NEW p \in Process, CurrentKey(p) PROVE RequestInv'
  BY <1>3 DEF CurrentKey
<1>4. ASSUME NEW p \in Process, CacheHit(p) PROVE RequestInv'
  BY <1>4 DEF CacheHit
<1>5. ASSUME NEW p \in Process, CacheMiss(p) PROVE RequestInv'
  BY <1>5 DEF CacheMiss
<1>6. ASSUME NEW p \in Process, LockKeys(p) PROVE RequestInv'
  BY <1>6 DEF LockKeys
<1>7. ASSUME NEW p \in Process, LoadActive(p) PROVE RequestInv'
  BY <1>7 DEF LoadActive, ActiveByAlg, Newest
<1>8. ASSUME NEW p \in Process, Generate(p) PROVE RequestInv'
  BY <1>8 DEF Generate
<1>9. ASSUME NEW p \in Process, Sign(p) PROVE RequestInv'
  BY <1>9 DEF Sign
<1>10. ASSUME NEW p \in Process, Publish(p) PROVE RequestInv'
  BY <1>10 DEF Publish
<1>11. ASSUME NEW p \in Process, LoadActiveFails(p) PROVE RequestInv'
  BY <1>11 DEF LoadActiveFails
<1>12. ASSUME NEW p \in Process, GenerateFails(p) PROVE RequestInv'
  BY <1>12 DEF GenerateFails
<1>13. CASE Boot
  BY <1>13 DEF Boot, Newest
<1>14. CASE Crash
  BY <1>14 DEF Crash
<1>15. CASE Tick
  BY <1>15 DEF Tick
<1>16. CASE UNCHANGED vars
  BY <1>16 DEF vars
<1> QED
  BY <1>1, <1>2, <1>3, <1>4, <1>5, <1>6, <1>7, <1>8,
     <1>9, <1>10, <1>11, <1>12, <1>13, <1>14, <1>15, <1>16 DEF Next, Step

(* Every key in memory, in a goroutine or under a token is in the table. *)
LEMMA StoredStep == IndInv /\ [Next]_vars => StoredInv'
<1> SUFFICES ASSUME IndInv, [Next]_vars PROVE StoredInv'
  OBVIOUS
<1> USE NoKeyAssumption
    DEF IndInv, TypeOK, RequestInv, StoredInv, LockInv, DownInv,
        At, Goto, Hold, Insert, Cache, NewKey, Key, Origin, Location,
        memory, table, env
<1>1. ASSUME NEW p \in Process, StartToken(p) PROVE StoredInv'
  BY <1>1 DEF StartToken
<1>2. ASSUME NEW p \in Process, Rotate(p) PROVE StoredInv'
  BY <1>2 DEF Rotate
<1>3. ASSUME NEW p \in Process, CurrentKey(p) PROVE StoredInv'
  BY <1>3 DEF CurrentKey
<1>4. ASSUME NEW p \in Process, CacheHit(p) PROVE StoredInv'
  BY <1>4 DEF CacheHit
<1>5. ASSUME NEW p \in Process, CacheMiss(p) PROVE StoredInv'
  BY <1>5 DEF CacheMiss
<1>6. ASSUME NEW p \in Process, LockKeys(p) PROVE StoredInv'
  BY <1>6 DEF LockKeys
<1>7. ASSUME NEW p \in Process, LoadActive(p) PROVE StoredInv'
  BY <1>7 DEF LoadActive, ActiveByAlg, Newest
<1>8. ASSUME NEW p \in Process, Generate(p) PROVE StoredInv'
  BY <1>8 DEF Generate
<1>9. ASSUME NEW p \in Process, Sign(p) PROVE StoredInv'
  BY <1>9 DEF Sign
<1>10. ASSUME NEW p \in Process, Publish(p) PROVE StoredInv'
  BY <1>10 DEF Publish
<1>11. ASSUME NEW p \in Process, LoadActiveFails(p) PROVE StoredInv'
  BY <1>11 DEF LoadActiveFails
<1>12. ASSUME NEW p \in Process, GenerateFails(p) PROVE StoredInv'
  BY <1>12 DEF GenerateFails
<1>13. CASE Boot
  BY <1>13 DEF Boot, Newest
<1>14. CASE Crash
  BY <1>14 DEF Crash
<1>15. CASE Tick
  BY <1>15 DEF Tick
<1>16. CASE UNCHANGED vars
  BY <1>16 DEF vars
<1> QED
  BY <1>1, <1>2, <1>3, <1>4, <1>5, <1>6, <1>7, <1>8,
     <1>9, <1>10, <1>11, <1>12, <1>13, <1>14, <1>15, <1>16 DEF Next, Step

(* The current key stays in the cache: only a rotation, which waits for keyMu,
   can fill a slot that the lock holder found empty. *)
LEMMA CacheStep == IndInv /\ [Next]_vars => CacheInv'
<1> SUFFICES ASSUME IndInv, [Next]_vars PROVE CacheInv'
  OBVIOUS
<1> USE AlgAssumption, OwnerAssumption, NoKeyAssumption
    DEF IndInv, TypeOK, RequestInv, StoredInv, LockInv, DownInv, CacheInv, CurrentIsCached,
        At, Goto, Hold, Insert, Cache, NewKey, Key, Origin, Location,
        memory, table, env
<1>1. ASSUME NEW p \in Process, StartToken(p) PROVE CacheInv'
  BY <1>1 DEF StartToken
<1>2. ASSUME NEW p \in Process, Rotate(p) PROVE CacheInv'
  BY <1>2 DEF Rotate
<1>3. ASSUME NEW p \in Process, CurrentKey(p) PROVE CacheInv'
  BY <1>3 DEF CurrentKey, KeyMuFree
<1>4. ASSUME NEW p \in Process, CacheHit(p) PROVE CacheInv'
  BY <1>4 DEF CacheHit, KeyMuFree
<1>5. ASSUME NEW p \in Process, CacheMiss(p) PROVE CacheInv'
  BY <1>5 DEF CacheMiss, KeyMuFree
<1>6. ASSUME NEW p \in Process, LockKeys(p) PROVE CacheInv'
  BY <1>6 DEF LockKeys, KeyMuFree
<1>7. ASSUME NEW p \in Process, LoadActive(p) PROVE CacheInv'
  BY <1>7 DEF LoadActive, ActiveByAlg, Newest
<1>8. ASSUME NEW p \in Process, Generate(p) PROVE CacheInv'
  BY <1>8 DEF Generate
<1>9. ASSUME NEW p \in Process, Sign(p) PROVE CacheInv'
  BY <1>9 DEF Sign
<1>10. ASSUME NEW p \in Process, Publish(p) PROVE CacheInv'
  BY <1>10 DEF Publish, KeyMuFree
<1>11. ASSUME NEW p \in Process, LoadActiveFails(p) PROVE CacheInv'
  BY <1>11 DEF LoadActiveFails
<1>12. ASSUME NEW p \in Process, GenerateFails(p) PROVE CacheInv'
  BY <1>12 DEF GenerateFails
<1>13. CASE Boot
  BY <1>13 DEF Boot, Newest
<1>14. CASE Crash
  BY <1>14 DEF Crash
<1>15. CASE Tick
  BY <1>15 DEF Tick
<1>16. CASE UNCHANGED vars
  BY <1>16 DEF vars
<1> QED
  BY <1>1, <1>2, <1>3, <1>4, <1>5, <1>6, <1>7, <1>8,
     <1>9, <1>10, <1>11, <1>12, <1>13, <1>14, <1>15, <1>16 DEF Next, Step

(* An on-demand key is made once: its maker holds keyMu and has found no key
   of the algorithm, and only other holders of keyMu could add such a one. *)
LEMMA EnsureStep == IndInv /\ [Next]_vars => EnsureInv'
<1> SUFFICES ASSUME IndInv, [Next]_vars PROVE EnsureInv'
  OBVIOUS
<1> USE AlgAssumption
    DEF IndInv, TypeOK, RequestInv, LockInv, DownInv, EnsureInv, OnDemandOnce,
        At, Goto, Hold, Insert, Cache, NewKey, Key, Origin, Location,
        memory, table, env
<1>1. ASSUME NEW p \in Process, StartToken(p) PROVE EnsureInv'
  BY <1>1 DEF StartToken
<1>2. ASSUME NEW p \in Process, Rotate(p) PROVE EnsureInv'
  BY <1>2 DEF Rotate
<1>3. ASSUME NEW p \in Process, CurrentKey(p) PROVE EnsureInv'
  BY <1>3 DEF CurrentKey
<1>4. ASSUME NEW p \in Process, CacheHit(p) PROVE EnsureInv'
  BY <1>4 DEF CacheHit
<1>5. ASSUME NEW p \in Process, CacheMiss(p) PROVE EnsureInv'
  BY <1>5 DEF CacheMiss
<1>6. ASSUME NEW p \in Process, LockKeys(p) PROVE EnsureInv'
  BY <1>6 DEF LockKeys
<1>7. ASSUME NEW p \in Process, LoadActive(p) PROVE EnsureInv'
  BY <1>7 DEF LoadActive, ActiveByAlg, Newest
<1>8. ASSUME NEW p \in Process, Generate(p) PROVE EnsureInv'
  BY <1>8 DEF Generate
<1>9. ASSUME NEW p \in Process, Sign(p) PROVE EnsureInv'
  BY <1>9 DEF Sign
<1>10. ASSUME NEW p \in Process, Publish(p) PROVE EnsureInv'
  BY <1>10 DEF Publish
<1>11. ASSUME NEW p \in Process, LoadActiveFails(p) PROVE EnsureInv'
  BY <1>11 DEF LoadActiveFails
<1>12. ASSUME NEW p \in Process, GenerateFails(p) PROVE EnsureInv'
  BY <1>12 DEF GenerateFails
<1>13. CASE Boot
  BY <1>13 DEF Boot, Newest
<1>14. CASE Crash
  BY <1>14 DEF Crash
<1>15. CASE Tick
  BY <1>15 DEF Tick
<1>16. CASE UNCHANGED vars
  BY <1>16 DEF vars
<1> QED
  BY <1>1, <1>2, <1>3, <1>4, <1>5, <1>6, <1>7, <1>8,
     <1>9, <1>10, <1>11, <1>12, <1>13, <1>14, <1>15, <1>16 DEF Next, Step

(* What a goroutine holds at "sign" has the algorithm its context names. *)
LEMMA SignStep == IndInv /\ [Next]_vars => SignInv'
<1> SUFFICES ASSUME IndInv, [Next]_vars PROVE SignInv'
  OBVIOUS
<1> USE NoKeyAssumption
    DEF IndInv, TypeOK, RequestInv, StoredInv, SignInv, LockInv, DownInv, FallbackInv,
        At, Goto, Hold, Insert, Cache, NewKey, Key, Origin, Location,
        memory, table, env
<1>1. ASSUME NEW p \in Process, StartToken(p) PROVE SignInv'
  BY <1>1 DEF StartToken
<1>2. ASSUME NEW p \in Process, Rotate(p) PROVE SignInv'
  BY <1>2 DEF Rotate
<1>3. ASSUME NEW p \in Process, CurrentKey(p) PROVE SignInv'
  BY <1>3 DEF CurrentKey
<1>4. ASSUME NEW p \in Process, CacheHit(p) PROVE SignInv'
  BY <1>4 DEF CacheHit
<1>5. ASSUME NEW p \in Process, CacheMiss(p) PROVE SignInv'
  BY <1>5 DEF CacheMiss
<1>6. ASSUME NEW p \in Process, LockKeys(p) PROVE SignInv'
  BY <1>6 DEF LockKeys
<1>7. ASSUME NEW p \in Process, LoadActive(p) PROVE SignInv'
  BY <1>7 DEF LoadActive, ActiveByAlg, Newest
<1>8. ASSUME NEW p \in Process, Generate(p) PROVE SignInv'
  BY <1>8 DEF Generate
<1>9. ASSUME NEW p \in Process, Sign(p) PROVE SignInv'
  BY <1>9 DEF Sign
<1>10. ASSUME NEW p \in Process, Publish(p) PROVE SignInv'
  BY <1>10 DEF Publish
<1>11. ASSUME NEW p \in Process, LoadActiveFails(p) PROVE SignInv'
  BY <1>11 DEF LoadActiveFails
<1>12. ASSUME NEW p \in Process, GenerateFails(p) PROVE SignInv'
  BY <1>12 DEF GenerateFails
<1>13. CASE Boot
  BY <1>13 DEF Boot, Newest
<1>14. CASE Crash
  BY <1>14 DEF Crash
<1>15. CASE Tick
  BY <1>15 DEF Tick
<1>16. CASE UNCHANGED vars
  BY <1>16 DEF vars
<1> QED
  BY <1>1, <1>2, <1>3, <1>4, <1>5, <1>6, <1>7, <1>8,
     <1>9, <1>10, <1>11, <1>12, <1>13, <1>14, <1>15, <1>16 DEF Next, Step

(* Without failing statements only a request with no algorithm uses the current key. *)
LEMMA FallbackStep == IndInv /\ [Next]_vars => FallbackInv'
<1> SUFFICES ASSUME IndInv, [Next]_vars PROVE FallbackInv'
  OBVIOUS
<1> USE AlgAssumption
    DEF IndInv, TypeOK, RequestInv, LockInv, DownInv, FallbackInv,
        At, Goto, Location, memory, table, env
<1>1. ASSUME NEW p \in Process, StartToken(p) PROVE FallbackInv'
  BY <1>1 DEF StartToken
<1>2. ASSUME NEW p \in Process, Rotate(p) PROVE FallbackInv'
  BY <1>2 DEF Rotate
<1>3. ASSUME NEW p \in Process, CurrentKey(p) PROVE FallbackInv'
  BY <1>3 DEF CurrentKey
<1>4. ASSUME NEW p \in Process, CacheHit(p) PROVE FallbackInv'
  BY <1>4 DEF CacheHit
<1>5. ASSUME NEW p \in Process, CacheMiss(p) PROVE FallbackInv'
  BY <1>5 DEF CacheMiss
<1>6. ASSUME NEW p \in Process, LockKeys(p) PROVE FallbackInv'
  BY <1>6 DEF LockKeys
<1>7. ASSUME NEW p \in Process, LoadActive(p) PROVE FallbackInv'
  BY <1>7 DEF LoadActive, ActiveByAlg, Newest
<1>8. ASSUME NEW p \in Process, Generate(p) PROVE FallbackInv'
  BY <1>8 DEF Generate
<1>9. ASSUME NEW p \in Process, Sign(p) PROVE FallbackInv'
  BY <1>9 DEF Sign
<1>10. ASSUME NEW p \in Process, Publish(p) PROVE FallbackInv'
  BY <1>10 DEF Publish
<1>11. ASSUME NEW p \in Process, LoadActiveFails(p) PROVE FallbackInv'
  BY <1>11 DEF LoadActiveFails
<1>12. ASSUME NEW p \in Process, GenerateFails(p) PROVE FallbackInv'
  BY <1>12 DEF GenerateFails
<1>13. CASE Boot
  BY <1>13 DEF Boot, Newest
<1>14. CASE Crash
  BY <1>14 DEF Crash
<1>15. CASE Tick
  BY <1>15 DEF Tick
<1>16. CASE UNCHANGED vars
  BY <1>16 DEF vars
<1> QED
  BY <1>1, <1>2, <1>3, <1>4, <1>5, <1>6, <1>7, <1>8,
     <1>9, <1>10, <1>11, <1>12, <1>13, <1>14, <1>15, <1>16 DEF Next, Step

(* Only Rotate sends a goroutine to publish, with the key it has just made. *)
LEMMA RotationStep == IndInv /\ [Next]_vars => RotationInv'
<1> SUFFICES ASSUME IndInv, [Next]_vars PROVE RotationInv'
  OBVIOUS
<1> USE AlgAssumption
    DEF IndInv, TypeOK, RequestInv, LockInv, DownInv, RotationInv,
        At, Goto, Hold, NewKey, Location, memory, table, env
<1>1. ASSUME NEW p \in Process, StartToken(p) PROVE RotationInv'
  BY <1>1 DEF StartToken
<1>2. ASSUME NEW p \in Process, Rotate(p) PROVE RotationInv'
  BY <1>2 DEF Rotate, Insert
<1>3. ASSUME NEW p \in Process, CurrentKey(p) PROVE RotationInv'
  BY <1>3 DEF CurrentKey
<1>4. ASSUME NEW p \in Process, CacheHit(p) PROVE RotationInv'
  BY <1>4 DEF CacheHit
<1>5. ASSUME NEW p \in Process, CacheMiss(p) PROVE RotationInv'
  BY <1>5 DEF CacheMiss
<1>6. ASSUME NEW p \in Process, LockKeys(p) PROVE RotationInv'
  BY <1>6 DEF LockKeys
<1>7. ASSUME NEW p \in Process, LoadActive(p) PROVE RotationInv'
  BY <1>7 DEF LoadActive, ActiveByAlg, Newest
<1>8. ASSUME NEW p \in Process, Generate(p) PROVE RotationInv'
  BY <1>8 DEF Generate
<1>9. ASSUME NEW p \in Process, Sign(p) PROVE RotationInv'
  BY <1>9 DEF Sign
<1>10. ASSUME NEW p \in Process, Publish(p) PROVE RotationInv'
  BY <1>10 DEF Publish
<1>11. ASSUME NEW p \in Process, LoadActiveFails(p) PROVE RotationInv'
  BY <1>11 DEF LoadActiveFails
<1>12. ASSUME NEW p \in Process, GenerateFails(p) PROVE RotationInv'
  BY <1>12 DEF GenerateFails
<1>13. CASE Boot
  BY <1>13 DEF Boot, Newest
<1>14. CASE Crash
  BY <1>14 DEF Crash
<1>15. CASE Tick
  BY <1>15 DEF Tick
<1>16. CASE UNCHANGED vars
  BY <1>16 DEF vars
<1> QED
  BY <1>1, <1>2, <1>3, <1>4, <1>5, <1>6, <1>7, <1>8,
     <1>9, <1>10, <1>11, <1>12, <1>13, <1>14, <1>15, <1>16 DEF Next, Step

(* The inductive invariant holds in every reachable state. *)
THEOREM Inductive == Spec => []IndInv
<1>1. IndInv /\ [Next]_vars => IndInv'
  BY TypeStep, LockStep, DownStep, RequestStep, StoredStep, CacheStep, EnsureStep, SignStep,
     FallbackStep, RotationStep DEF IndInv
<1> QED
  BY <1>1, InitInd, PTL DEF Spec

-----------------------------------------------------------------------------
(* Type correctness: a running process always has a current key, and every  *)
(* slot of the cache holds a key or nothing (NewStorage, ensureKeyForAlg).  *)
THEOREM TypeCorrect == Spec => []TypeOK
<1>1. IndInv => TypeOK
  BY DEF IndInv
<1> QED
  BY <1>1, Inductive, PTL

(* No token is ever orphaned: its key is published and its algorithm is     *)
(* advertised, through rotations, failing statements and restarts (KeySet). *)
THEOREM IssuedTokensAlwaysVerify == Spec => []IssuedTokensVerify
<1>1. IndInv => IssuedTokensVerify
  <2> SUFFICES ASSUME IndInv, NEW k \in issued
               PROVE  k \in KeySet /\ k.alg \in SignatureAlgorithms
    BY DEF IssuedTokensVerify
  <2>1. k \in KeySet
    BY DEF IndInv, StoredInv, KeySet
  <2> QED
    BY <2>1 DEF SignatureAlgorithms
<1> QED
  BY <1>1, Inductive, PTL

(* The current key is the cached key of its algorithm (RotateSigningKey). *)
THEOREM CurrentAlwaysCached == Spec => []CurrentIsCached
<1>1. IndInv => CurrentIsCached
  BY DEF IndInv, CacheInv
<1> QED
  BY <1>1, Inductive, PTL

(* At most one key per algorithm is ever generated on demand (ensureKeyForAlg). *)
THEOREM OnDemandAtMostOnce == Spec => []OnDemandOnce
<1>1. IndInv => OnDemandOnce
  BY DEF IndInv, EnsureInv
<1> QED
  BY <1>1, Inductive, PTL

(* A request signs with the algorithm its context names (SigningKey). *)
THEOREM ContextAlgAlwaysHonoured == Spec => []ContextAlgHonoured
<1>1. IndInv => ContextAlgHonoured
  BY DEF IndInv, SignInv, ContextAlgHonoured, At
<1> QED
  BY <1>1, Inductive, PTL

(* A cached key is replaced by a rotation and by nothing else: what          *)
(* ensureKeyForAlg caches goes to an empty slot, a boot starts from an empty *)
(* cache, and a crash empties it.                                            *)
THEOREM OnlyRotationReplacesKeys == Spec => OnlyRotationReplaces
<1> DEFINE Replaced(a) == keysByAlg[a] # NoKey /\ keysByAlg'[a] \notin {NoKey, keysByAlg[a]}
           ByRotation(a) == \E p \in Process : At(p, "publish") /\ got[p] = keysByAlg'[a]
<1>1. IndInv /\ [Next]_vars => [\A a \in Alg : Replaced(a) => ByRotation(a)]_vars
  <2> SUFFICES ASSUME IndInv, Next, NEW a \in Alg, Replaced(a) PROVE ByRotation(a)
    OBVIOUS
  <2>1. ASSUME NEW p \in Process, Publish(p) PROVE ByRotation(a)
    BY <2>1 DEF Publish, Cache, IndInv, TypeOK, StoredInv, At
  <2>2. ASSUME NEW p \in Process, LoadActive(p) PROVE FALSE
    BY <2>2, NoKeyAssumption
    DEF LoadActive, ActiveByAlg, Newest, Cache, IndInv, TypeOK, CacheInv, At, Key
  <2>3. ASSUME NEW p \in Process, Generate(p) PROVE FALSE
    BY <2>3, NoKeyAssumption DEF Generate, NewKey, Cache, IndInv, TypeOK, CacheInv, At
  <2>4. CASE Boot
    BY <2>4 DEF Boot, IndInv, TypeOK, DownInv
  <2>5. CASE Crash
    BY <2>5 DEF Crash
  <2>6. ASSUME NEW p \in Process,
               StartToken(p) \/ Rotate(p) \/ CurrentKey(p) \/ CacheHit(p) \/ CacheMiss(p)
                 \/ LockKeys(p) \/ Sign(p) \/ LoadActiveFails(p) \/ GenerateFails(p)
        PROVE  FALSE
    BY <2>6 DEF StartToken, Rotate, CurrentKey, CacheHit, CacheMiss, LockKeys, Sign,
                LoadActiveFails, GenerateFails, memory
  <2>7. CASE Tick
    BY <2>7 DEF Tick, memory
  <2> QED
    BY <2>1, <2>2, <2>3, <2>4, <2>5, <2>6, <2>7 DEF Next, Step
<1>2. IndInv /\ [Next]_vars =>
        [\A a \in Alg :
          keysByAlg[a] # NoKey /\ keysByAlg'[a] \notin {NoKey, keysByAlg[a]}
          => \E p \in Process : At(p, "publish") /\ got[p] = keysByAlg'[a]]_vars
  BY <1>1
<1> QED
  BY <1>2, Inductive, PTL DEF Spec, OnlyRotationReplaces

-----------------------------------------------------------------------------
(* The signing keys implement the abstract key ring.                       *)


(* An empty database and a process yet to boot are an empty ring that is down. *)
LEMMA RingInit == Init => Ring!Init
BY DEF Init, Ring!Init, Ring!NoneActive

(* Every step of a goroutine, of the process or of the clock is one          *)
(* operation of the ring, or leaves it alone.                                *)
LEMMA RingStep == IndInv /\ [Next]_vars => [Ring!Next]_(Ring!vars)
<1> SUFFICES ASSUME IndInv, [Next]_vars PROVE [Ring!Next]_(Ring!vars)
  OBVIOUS
<1> USE DEF IndInv, TypeOK, Ring!vars, memory, table, env
<1>1. ASSUME NEW p \in Process,
             StartToken(p) \/ CurrentKey(p) \/ CacheHit(p) \/ CacheMiss(p) \/ LockKeys(p)
      PROVE  UNCHANGED Ring!vars
  BY <1>1 DEF StartToken, CurrentKey, CacheHit, CacheMiss, LockKeys
<1>2. ASSUME NEW p \in Process, LoadActive(p) PROVE [Ring!Next]_(Ring!vars)
  <2>1. CASE \A k \in rows : k.alg # ctx[p]
    <3>1. ~\E k \in ActiveByAlg(ctx[p]) : TRUE
      BY <2>1 DEF ActiveByAlg, Newest
    <3> QED
      BY <1>2, <3>1 DEF LoadActive
  <2>2. CASE \E k \in ActiveByAlg(ctx[p]) : Cache(k) /\ UNCHANGED <<table, env, key, issued>>
    <3>1. PICK k \in ActiveByAlg(ctx[p]) : Cache(k) /\ UNCHANGED <<table, env, key, issued>>
      BY <2>2
    <3>2. k \in rows /\ k.alg = ctx[p]
      BY DEF ActiveByAlg, Newest
    <3>3. keysByAlg[k.alg] = NoKey
      BY <1>2, <3>2 DEF LoadActive, At, CacheInv
    <3>4. Ring!Provide
      BY <3>1, <3>2, <3>3 DEF Ring!Provide, Ring!Grow, Cache
    <3> QED
      BY <3>4 DEF Ring!Next
  <2> QED
    BY <1>2, <2>1, <2>2 DEF LoadActive
<1>3. ASSUME NEW p \in Process, Generate(p) PROVE [Ring!Next]_(Ring!vars)
  <2> DEFINE k == NewKey(ctx[p], "ensure")
  <2>1. rows' = rows \cup {k} /\ Cache(k) /\ UNCHANGED <<env, key, issued>>
    BY <1>3 DEF Generate, Insert
  <2>2. k.alg = ctx[p] /\ k.made = "ensure" /\ ctx[p] \in Alg
    BY <1>3 DEF Generate, NewKey, At, RequestInv
  <2>3. keysByAlg[k.alg] = NoKey
    BY <1>3, <2>2 DEF Generate, At, CacheInv
  <2>4. k \notin rows /\ ~failed => \A j \in rows : ~(j.made = "ensure" /\ j.alg = k.alg)
    BY <1>3, <2>2 DEF Generate, At, EnsureInv
  <2>5. Ring!Grow
    BY <2>1 DEF Ring!Grow
  <2>6. Ring!Provide
    BY <2>1, <2>3, <2>4, <2>5 DEF Ring!Provide, Cache
  <2> QED
    BY <2>6 DEF Ring!Next
<1>4. ASSUME NEW p \in Process, LoadActiveFails(p) \/ GenerateFails(p) PROVE Ring!Fail
  BY <1>4 DEF LoadActiveFails, GenerateFails, Ring!Fail
<1>5. ASSUME NEW p \in Process, Sign(p) PROVE Ring!Sign
  BY <1>5 DEF Sign, At, StoredInv, Ring!Sign
<1>6. ASSUME NEW p \in Process, Rotate(p) PROVE Ring!Store
  <2>1. PICK a \in Alg : Insert(NewKey(a, "rotate"))
    BY <1>6 DEF Rotate
  <2>2. Ring!GrowUnasked
    BY <2>1 DEF Insert, NewKey, Ring!GrowUnasked, Ring!Grow
  <2> QED
    BY <1>6, <2>2 DEF Rotate, Ring!Store
<1>7. ASSUME NEW p \in Process, Publish(p) PROVE Ring!Rotate
  BY <1>7 DEF Publish, Cache, At, StoredInv, RotationInv, Ring!Rotate
<1>8. CASE Boot
  <2> DEFINE fresh == NewKey(DefaultAlg, "boot")
  <2>1. PICK k \in rows \cup {fresh} :
            /\ \/ k \in Newest(rows) /\ UNCHANGED <<table, failed>>
               \/ /\ k = fresh /\ Insert(k)
                  /\ \/ rows = {} /\ UNCHANGED failed
                     \/ nextId < MaxKey /\ failed' = TRUE
            /\ key' = k
            /\ keysByAlg' = [a \in Alg |-> IF a = k.alg THEN k ELSE NoKey]
    BY <1>8 DEF Boot
  <2>2. k \in rows' /\ k.alg \in Alg
    BY <2>1, AlgAssumption DEF Newest, Insert, NewKey, Key
  <2>3. Ring!GrowUnasked
    BY <2>1 DEF Insert, NewKey, Ring!GrowUnasked, Ring!Grow
  <2>4. key = NoKey /\ keysByAlg = Ring!NoneActive
    BY <1>8 DEF Boot, DownInv, Ring!NoneActive
  <2>5. keysByAlg' = Ring!Only(k)
    BY <2>1, <2>2 DEF Ring!Only, Ring!NoneActive
  <2>6. (rows # {} /\ k \notin rows => failed') /\ (failed => failed')
    BY <2>1 DEF Newest
  <2>7. key' = k /\ UNCHANGED issued
    BY <1>8, <2>1 DEF Boot
  <2>8. Ring!Start
    BY <2>2, <2>3, <2>4, <2>5, <2>6, <2>7 DEF Ring!Start
  <2> QED
    BY <2>8 DEF Ring!Next
<1>9. CASE Crash
  BY <1>9 DEF Crash, Ring!Next, Ring!Stop, Ring!NoneActive
<1>10. CASE Tick
  BY <1>10 DEF Tick
<1>11. CASE UNCHANGED vars
  BY <1>11 DEF vars
<1> QED
  BY <1>1, <1>2, <1>3, <1>4, <1>5, <1>6, <1>7, <1>8, <1>9, <1>10, <1>11
  DEF Next, Step, Ring!Next

(* Storage behaves like an atomic key ring: keys are never withdrawn, only a *)
(* rotation replaces an active key, each algorithm gets at most one key on   *)
(* demand, and tokens are signed with keys of the ring (SigningKey,          *)
(* ensureKeyForAlg, RotateSigningKey, NewStorage).                           *)
THEOREM KeyRingImplemented == Spec => ImplementsKeyRing
<1>1. IndInv /\ [Next]_vars => [Ring!Next]_(Ring!vars)
  BY RingStep
<1> QED
  BY <1>1, RingInit, Inductive, PTL DEF Spec, ImplementsKeyRing, Ring!Spec
=============================================================================
