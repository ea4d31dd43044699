--------------------------- MODULE StartupProofs ---------------------------
(***************************************************************************)
(* Proofs about Startup, for any migrations and any seed, and any number   *)
(* of stops: no half schema is served, one key encrypts all tokens, and    *)
(* what was deleted stays away.  One lemma per phase of the boot.          *)
(***************************************************************************)
EXTENDS Startup, FiniteSetTheorems, TLAPS

-----------------------------------------------------------------------------
(* The inductive invariant.                                                *)

\* A migration that is recorded has run to its last statement.
Applied(m) == \A i \in 1..Statements[m] : <<m, i>> \in executed
RecordedInv == \A m \in recorded : Applied(m)

\* The loop of migrate: what is behind it is recorded, what is before it has begun.
LoopInv ==
    /\ pc \in {"check", "apply", "record"} => 1..(migration - 1) \subseteq recorded
    /\ pc \in {"apply", "record"} => migration \in 1..Migrations
    /\ pc = "apply" => /\ item \in 1..Statements[migration]
                       /\ \A i \in 1..(item - 1) : <<migration, i>> \in executed
    /\ pc = "record" => Applied(migration)

\* The loops of the seed stay inside it.
SeedInv ==
    /\ pc = "seedUsers" => item \in 1..Users + 1
    /\ pc = "seedClients" => item \in 1..Clients + 1

\* Until a read fails, the stored key is the one in use and the only one ever used.
KeyInv ==
    ~misread =>
        /\ served \subseteq {cryptoKey}
        /\ pc = "writeKey" => cryptoKey = NoKey
        /\ pc = "serving" => used = cryptoKey

\* Nothing was deleted where the seed is still to come.
RemovedInv ==
    ~emptied =>
        /\ pc \in {"seedUsers", "seedClients"} => removed = {}
        /\ users = {} /\ clients = {} => removed = {}

IndInv == /\ TypeOK /\ RecordedInv /\ LoopInv /\ SeedInv /\ ServesOnFullSchema
          /\ KeyInv /\ RemovedInv /\ DeletedStaysDeleted

-----------------------------------------------------------------------------
\* The statements of a migration are among those of all migrations.
LEMMA StatementOfMigration ==
    ASSUME NEW m \in 1..Migrations, NEW i \in 1..Statements[m]
    PROVE  <<m, i>> \in AllStatements
BY DEF AllStatements

LEMMA InitInv == Init => IndInv
<1> SUFFICES ASSUME Init PROVE IndInv
  OBVIOUS
<1>1. TypeOK
  <2>1. 1 \in 1..Migrations + 1 /\ 0 \in 0..MaxStops
    BY MigrationAssumption, StopAssumption
  <2>2. used \in IF pc = "serving" THEN Nat ELSE {NoKey}
    BY DEF Init
  <2>3. emptied \in BOOLEAN /\ misread \in BOOLEAN
    BY DEF Init
  <2>4. /\ executed = {} /\ recorded = {} /\ users = {} /\ clients = {} /\ served = {}
        /\ removed = {} /\ cryptoKey = NoKey /\ keys = 0 /\ pc = "down" /\ migration = 1
        /\ item = 1 /\ stops = 0
    BY DEF Init
  <2> QED BY <2>1, <2>2, <2>3, <2>4 DEF TypeOK, Phase
<1>2. RecordedInv /\ LoopInv /\ SeedInv /\ ServesOnFullSchema /\ KeyInv
  BY DEF Init, RecordedInv, LoopInv, SeedInv, ServesOnFullSchema, KeyInv
<1>3. RemovedInv /\ DeletedStaysDeleted
  BY DEF Init, RemovedInv, DeletedStaysDeleted
<1> QED BY <1>1, <1>2, <1>3 DEF IndInv

(* The process is opened: migrate begins with the first file. *)
LEMMA StartStep == IndInv /\ Start => IndInv'
BY MigrationAssumption
DEF Start, schema, config, setting, ghosts, IndInv, TypeOK, RecordedInv, Applied, LoopInv,
    SeedInv, ServesOnFullSchema, KeyInv, RemovedInv, DeletedStaysDeleted, Phase

(* The loop passes a recorded file, begins one that is not, or has reached   *)
(* the end: then every file is recorded, and all its statements have run.    *)
LEMMA CheckStep == IndInv /\ CheckMigration => IndInv'
<1> SUFFICES ASSUME IndInv, CheckMigration PROVE IndInv'
  OBVIOUS
<1> USE MigrationAssumption
    DEF CheckMigration, schema, config, setting, ghosts, loop, IndInv
<1>1. TypeOK'
  <2>1. /\ pc = "check" /\ pc' \in {"count", "check", "apply"} /\ item' \in {item, 1}
        /\ \/ migration' = migration
           \/ migration \in 1..Migrations /\ migration' = migration + 1
        /\ UNCHANGED <<schema, config, setting, used, stops, ghosts>>
    BY DEF TypeOK
  <2> HIDE DEF CheckMigration, IndInv
  <2>2. TypeOK
    BY DEF IndInv
  <2>3. migration' \in 1..Migrations + 1
    BY <2>1, <2>2 DEF TypeOK
  <2> QED BY <2>1, <2>2, <2>3 DEF TypeOK, Phase
<1>2. RecordedInv' /\ SeedInv' /\ KeyInv' /\ RemovedInv' /\ DeletedStaysDeleted'
  BY DEF RecordedInv, Applied, SeedInv, KeyInv, RemovedInv, DeletedStaysDeleted
<1>3. LoopInv'
  BY DEF LoopInv, Applied, TypeOK
<1>4. ServesOnFullSchema'
  <2> SUFFICES ASSUME migration > Migrations
               PROVE  executed = AllStatements /\ recorded = 1..Migrations
    BY DEF ServesOnFullSchema
  <2>1. recorded = 1..Migrations
    <3>1. migration - 1 = Migrations /\ recorded \subseteq 1..Migrations
      BY DEF TypeOK
    <3> QED BY <3>1 DEF LoopInv
  <2>2. AllStatements \subseteq executed
    BY <2>1 DEF AllStatements, RecordedInv, Applied
  <2> QED BY <2>1, <2>2 DEF TypeOK
<1> QED BY <1>1, <1>2, <1>3, <1>4

(* One more statement of the file has run, or the boot fails. *)
LEMMA ApplyStep == IndInv /\ ApplyStatement => IndInv'
<1> SUFFICES ASSUME IndInv, ApplyStatement PROVE IndInv'
  OBVIOUS
<1> USE MigrationAssumption
    DEF ApplyStatement, config, setting, ghosts, IndInv
<1>1. /\ migration \in 1..Migrations /\ item \in 1..Statements[migration]
      /\ Statements[migration] \in Nat \ {0}
  BY DEF LoopInv
<1>2. TypeOK'
  <2>1. executed' \subseteq AllStatements
    BY <1>1, StatementOfMigration DEF TypeOK
  <2>2. item' \in Nat \ {0} /\ pc' \in {"apply", "record", "down"}
    BY <1>1
  <2> QED BY <2>1, <2>2 DEF TypeOK, Phase
<1>3. executed \subseteq executed'
  OBVIOUS
<1>4. RecordedInv' /\ SeedInv' /\ KeyInv' /\ RemovedInv' /\ DeletedStaysDeleted'
      /\ ServesOnFullSchema'
  BY <1>3 DEF RecordedInv, Applied, SeedInv, KeyInv, RemovedInv, DeletedStaysDeleted,
              ServesOnFullSchema
<1>5. LoopInv'
  BY <1>1 DEF LoopInv, Applied, TypeOK
<1> QED BY <1>2, <1>4, <1>5

(* The file is recorded: all its statements have run. *)
LEMMA RecordStep == IndInv /\ RecordMigration => IndInv'
<1> SUFFICES ASSUME IndInv, RecordMigration PROVE IndInv'
  OBVIOUS
<1> USE MigrationAssumption
    DEF RecordMigration, config, setting, ghosts, IndInv
<1>1. TypeOK'
  BY DEF TypeOK, Phase, LoopInv
<1>2. RecordedInv' /\ LoopInv'
  BY DEF RecordedInv, Applied, LoopInv, TypeOK
<1>3. SeedInv' /\ KeyInv' /\ RemovedInv' /\ DeletedStaysDeleted' /\ ServesOnFullSchema'
  BY DEF SeedInv, KeyInv, RemovedInv, DeletedStaysDeleted, ServesOnFullSchema
<1> QED BY <1>1, <1>2, <1>3

(* The seed begins only where both tables are empty, and adds to them. *)
LEMMA SeedStep == IndInv /\ (CountConfig \/ SeedUser \/ SeedClient) => IndInv'
<1> SUFFICES ASSUME IndInv, CountConfig \/ SeedUser \/ SeedClient PROVE IndInv'
  OBVIOUS
<1> USE MigrationAssumption, SeedAssumption
    DEF CountConfig, SeedUser, SeedClient, schema, setting, ghosts, IndInv
<1>1. TypeOK'
  <2>1. CASE CountConfig
    BY <2>1 DEF TypeOK, Phase, config
  <2>2. CASE SeedUser
    <3>1. pc = "seedUsers" /\ item \in Nat \ {0} /\ users \subseteq 1..Users
      BY <2>2 DEF TypeOK
    <3>2. item <= Users => item \in 1..Users
      BY <3>1
    <3>3. users' \subseteq 1..Users
      <4>1. CASE item <= Users
        <5>1. users' = users \cup {item}
          BY <2>2, <3>1, <4>1
        <5> QED BY <3>1, <3>2, <4>1, <5>1
      <4>2. CASE ~(item <= Users)
        <5>1. users' = users
          BY <2>2, <3>1, <4>2
        <5> QED BY <3>1, <5>1
      <4> QED BY <4>1, <4>2
    <3>4. item' \in Nat \ {0} /\ pc' \in {"seedUsers", "seedClients"}
      BY <2>2, <3>1
    <3> QED BY <2>2, <3>1, <3>3, <3>4 DEF TypeOK, Phase
  <2>3. CASE SeedClient
    <3>1. pc = "seedClients" /\ item \in Nat \ {0} /\ clients \subseteq 1..Clients
      BY <2>3 DEF TypeOK
    <3>2. item <= Clients => item \in 1..Clients
      BY <3>1
    <3>3. clients' \subseteq 1..Clients
      <4>1. CASE item <= Clients
        <5>1. clients' = clients \cup {item}
          BY <2>3, <3>1, <4>1
        <5> QED BY <3>1, <3>2, <4>1, <5>1
      <4>2. CASE ~(item <= Clients)
        <5>1. clients' = clients
          BY <2>3, <3>1, <4>2
        <5> QED BY <3>1, <5>1
      <4> QED BY <4>1, <4>2
    <3>4. item' \in Nat \ {0} /\ pc' \in {"seedClients", "readKey"}
      BY <2>3, <3>1
    <3> QED BY <2>3, <3>1, <3>3, <3>4 DEF TypeOK, Phase
  <2> QED BY <2>1, <2>2, <2>3
<1>2. RecordedInv' /\ LoopInv' /\ ServesOnFullSchema' /\ KeyInv'
  BY DEF RecordedInv, LoopInv, Applied, ServesOnFullSchema, KeyInv
<1>3. SeedInv'
  BY DEF SeedInv, TypeOK
<1>4. RemovedInv' /\ DeletedStaysDeleted'
  BY DEF RemovedInv, DeletedStaysDeleted, config
<1> QED BY <1>1, <1>2, <1>3, <1>4

(* The key is read, or generated and stored before it is used; then tokens   *)
(* are handed out under it.                                                  *)
LEMMA KeyStep == IndInv /\ (ReadKey \/ WriteKey \/ ServeToken) => IndInv'
<1> SUFFICES ASSUME IndInv, ReadKey \/ WriteKey \/ ServeToken PROVE IndInv'
  OBVIOUS
<1> USE StopAssumption
    DEF ReadKey, WriteKey, ServeToken, schema, config, setting, loop, ghosts, IndInv
<1>1. TypeOK'
  <2>1. CASE ReadKey
    BY <2>1 DEF TypeOK, Phase
  <2>2. CASE WriteKey
    BY <2>2 DEF TypeOK, Phase
  <2>3. CASE ServeToken
    BY <2>3 DEF TypeOK, Phase
  <2> QED BY <2>1, <2>2, <2>3
<1>2. RecordedInv' /\ LoopInv' /\ ServesOnFullSchema' /\ SeedInv' /\ RemovedInv'
      /\ DeletedStaysDeleted'
  BY DEF RecordedInv, LoopInv, Applied, ServesOnFullSchema, SeedInv, RemovedInv,
         DeletedStaysDeleted
<1>3. KeyInv'
  <2>1. CASE ReadKey
    BY <2>1 DEF KeyInv
  <2>2. CASE WriteKey
    BY <2>2 DEF KeyInv, TypeOK
  <2>3. CASE ServeToken
    BY <2>3 DEF KeyInv
  <2> QED BY <2>1, <2>2, <2>3
<1> QED BY <1>1, <1>2, <1>3

(* An administrator deletes a row, or the process stops. *)
LEMMA OutsideStep == IndInv /\ (AdminDelete \/ Stop) => IndInv'
<1> SUFFICES ASSUME IndInv, AdminDelete \/ Stop PROVE IndInv'
  OBVIOUS
<1> USE StopAssumption
    DEF AdminDelete, Stop, schema, setting, loop, ghosts, IndInv
<1>1. TypeOK'
  <2>1. CASE AdminDelete
    <3>1. emptied \in BOOLEAN /\ emptied' \in BOOLEAN
      BY <2>1 DEF TypeOK
    <3>2. users' \subseteq 1..Users /\ clients' \subseteq 1..Clients
      BY <2>1 DEF TypeOK
    <3>3. removed' \subseteq ({"user"} \X (1..Users)) \cup ({"client"} \X (1..Clients))
      BY <2>1 DEF TypeOK
    <3>4. UNCHANGED <<executed, recorded, cryptoKey, keys, pc, migration, item, used, stops,
                      served, misread>>
      BY <2>1
    <3> QED BY <3>1, <3>2, <3>3, <3>4 DEF TypeOK
  <2>2. CASE Stop
    BY <2>2 DEF TypeOK, Phase, config
  <2> QED BY <2>1, <2>2
<1>2. RecordedInv' /\ LoopInv' /\ ServesOnFullSchema' /\ SeedInv' /\ KeyInv'
  BY DEF RecordedInv, LoopInv, Applied, ServesOnFullSchema, SeedInv, KeyInv
<1>3. RemovedInv' /\ DeletedStaysDeleted'
  <2>1. ASSUME NEW u \in users, users' = users \ {u}, UNCHANGED clients,
               removed' = removed \cup {<<"user", u>>},
               emptied' = (emptied \/ (users' = {} /\ clients' = {})), pc = "serving", pc' = pc
        PROVE  RemovedInv' /\ DeletedStaysDeleted'
    <3>1. emptied \in BOOLEAN
      BY DEF TypeOK
    <3>2. RemovedInv'
      BY <2>1, <3>1 DEF RemovedInv
    <3>3. ASSUME ~emptied', NEW x \in removed'
          PROVE  x[2] \notin IF x[1] = "user" THEN users' ELSE clients'
      <4>1. CASE x = <<"user", u>>
        BY <2>1, <4>1
      <4>2. CASE x \in removed
        BY <2>1, <3>1, <3>3, <4>2 DEF DeletedStaysDeleted
      <4> QED BY <2>1, <3>3, <4>1, <4>2
    <3> QED BY <3>2, <3>3 DEF DeletedStaysDeleted
  <2>2. ASSUME NEW c \in clients, clients' = clients \ {c}, UNCHANGED users,
               removed' = removed \cup {<<"client", c>>},
               emptied' = (emptied \/ (users' = {} /\ clients' = {})), pc = "serving", pc' = pc
        PROVE  RemovedInv' /\ DeletedStaysDeleted'
    <3>1. emptied \in BOOLEAN
      BY DEF TypeOK
    <3>2. RemovedInv'
      BY <2>2, <3>1 DEF RemovedInv
    <3>3. ASSUME ~emptied', NEW x \in removed'
          PROVE  x[2] \notin IF x[1] = "user" THEN users' ELSE clients'
      <4>1. CASE x = <<"client", c>>
        BY <2>2, <4>1
      <4>2. CASE x \in removed
        BY <2>2, <3>1, <3>3, <4>2 DEF DeletedStaysDeleted
      <4> QED BY <2>2, <3>3, <4>1, <4>2
    <3> QED BY <3>2, <3>3 DEF DeletedStaysDeleted
  <2>3. CASE Stop
    BY <2>3 DEF RemovedInv, DeletedStaysDeleted, config
  <2> QED BY <2>1, <2>2, <2>3
<1> QED BY <1>1, <1>2, <1>3

LEMMA Invariant == Spec => []IndInv
<1>1. IndInv /\ UNCHANGED vars => IndInv'
  BY DEF vars, schema, config, setting, loop, ghosts, IndInv, TypeOK, RecordedInv, Applied,
         LoopInv, SeedInv, ServesOnFullSchema, KeyInv, RemovedInv, DeletedStaysDeleted
<1>2. IndInv /\ [Next]_vars => IndInv'
  BY <1>1, StartStep, CheckStep, ApplyStep, RecordStep, SeedStep, KeyStep, OutsideStep
  DEF Next, Boot
<1> QED BY InitInv, <1>2, PTL DEF Spec

-----------------------------------------------------------------------------
(* Every variable keeps to its values: the loops of the boot never leave the *)
(* files, statements and rows they run over (migrate, apply).                *)
THEOREM TypeCorrect == Spec => []TypeOK
<1>1. IndInv => TypeOK
  BY DEF IndInv
<1> QED BY Invariant, <1>1, PTL

(* However often the boot was cut short, the process neither seeds nor       *)
(* serves before every statement of every migration has run (migrate).       *)
THEOREM AlwaysFullSchema == Spec => []ServesOnFullSchema
<1>1. IndInv => ServesOnFullSchema
  BY DEF IndInv
<1> QED BY Invariant, <1>1, PTL

(* All tokens are encrypted with one key, over any number of restarts, as    *)
(* long as no read of the stored key failed (cryptoKey, GetSetting).         *)
THEOREM AlwaysOneKey == Spec => []OneCryptoKey
<1>1. IndInv => OneCryptoKey
  <2> SUFFICES ASSUME IndInv, ~misread PROVE Cardinality(served) <= 1
    BY DEF OneCryptoKey
  <2>1. served \subseteq {cryptoKey}
    BY DEF IndInv, KeyInv
  <2>2. IsFiniteSet({cryptoKey}) /\ Cardinality({cryptoKey}) = 1
    BY FS_Singleton
  <2>3. Cardinality(served) <= Cardinality({cryptoKey})
    BY <2>1, <2>2, FS_Subset
  <2> QED BY <2>2, <2>3
<1> QED BY Invariant, <1>1, PTL

(* The seed never brings a deleted user or client back, unless both tables   *)
(* have been emptied (ApplyIfEmpty).                                         *)
THEOREM DeletedForGood == Spec => []DeletedStaysDeleted
<1>1. IndInv => DeletedStaysDeleted
  BY DEF IndInv
<1> QED BY Invariant, <1>1, PTL
=============================================================================
