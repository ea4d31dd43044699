------------------------------ MODULE Startup ------------------------------
(***************************************************************************)
(* The boot of the process: migrations, the first-boot seed, the key that  *)
(* encrypts tokens, then serving.  None of it is transactional, and the    *)
(* process may stop between any two statements and be started again.       *)
(***************************************************************************)
EXTENDS Integers, FiniteSets

CONSTANTS
    Migrations,   \* number of migration files, applied in the order of their names
    Statements,   \* how many SQL statements each of them has
    Repeatable,   \* the migrations whose statements say IF NOT EXISTS
    Users, Clients,  \* number of users and of clients in the seed file
    NoKey,        \* no setting, or no key in use
    MaxStops      \* bound: stops, crashes and failed boots excluded

ASSUME MigrationAssumption ==
    /\ Migrations \in Nat /\ Statements \in [1..Migrations -> Nat \ {0}]
    /\ Repeatable \subseteq 1..Migrations
ASSUME SeedAssumption == Users \in Nat /\ Clients \in Nat
ASSUME StopAssumption == MaxStops \in Nat /\ NoKey \notin Nat

VARIABLES
    executed,   \* migration statements whose effect is in the schema
    recorded,   \* table schema_migrations
    users, clients,  \* the rows of the seed that are in their tables
    cryptoKey,  \* the crypto_key setting
    keys,       \* how many crypto keys have been generated
    pc,         \* the phase of the boot
    migration, item,  \* loop variables: the migration, the statement or seed row
    used,       \* the key the running provider encrypts with
    stops,      \* how often the process has stopped
    served,     \* keys that tokens have been encrypted with
    removed,    \* rows an administrator has deleted
    emptied,    \* the administrator has emptied both tables since
    misread     \* a read of the crypto_key setting has failed although it was there

schema == <<executed, recorded>>
config == <<users, clients>>
setting == <<cryptoKey, keys>>
loop == <<migration, item>>
ghosts == <<served, removed, emptied, misread>>
vars == <<schema, config, setting, pc, loop, used, stops, ghosts>>

Phase == {"down", "check", "apply", "record", "count", "seedUsers", "seedClients",
          "readKey", "writeKey", "serving"}

AllStatements == UNION {{m} \X (1..Statements[m]) : m \in 1..Migrations}

Init ==
    /\ executed = {} /\ recorded = {}
    /\ users = {} /\ clients = {}
    /\ cryptoKey = NoKey /\ keys = 0 /\ used = NoKey
    /\ pc = "down" /\ migration = 1 /\ item = 1
    /\ stops = 0 /\ served = {} /\ removed = {} /\ emptied = FALSE
    /\ misread = FALSE

-----------------------------------------------------------------------------
\* main and Open: the database file is opened and migrate begins.
Start ==
    /\ pc = "down" /\ pc' = "check" /\ migration' = 1 /\ item' = 1
    /\ UNCHANGED <<schema, config, setting, used, stops, ghosts>>

\* Mutant: schema_migrations is not consulted.
CheckMigrationAlways ==
    /\ pc = "check"
    /\ \/ migration > Migrations /\ pc' = "count" /\ UNCHANGED loop
       \/ migration <= Migrations /\ pc' = "apply" /\ item' = 1 /\ UNCHANGED migration
    /\ UNCHANGED <<schema, config, setting, used, stops, ghosts>>

\* Mutant: a file is recorded as soon as its first statement is about to run.
CheckMigrationRecords ==
    /\ pc = "check"
    /\ \/ migration > Migrations /\ pc' = "count" /\ UNCHANGED <<loop, recorded>>
       \/ /\ migration \in recorded
          /\ migration' = migration + 1 /\ UNCHANGED <<pc, item, recorded>>
       \/ /\ migration \in (1..Migrations) \ recorded
          /\ recorded' = recorded \cup {migration}
          /\ pc' = "apply" /\ item' = 1 /\ UNCHANGED migration
    /\ UNCHANGED <<executed, config, setting, used, stops, ghosts>>

\* migrate: SELECT COUNT(*) FROM schema_migrations
CheckMigration ==
    /\ pc = "check"
    /\ \/ migration > Migrations /\ pc' = "count" /\ UNCHANGED loop
       \/ /\ migration \in recorded
          /\ migration' = migration + 1 /\ UNCHANGED <<pc, item>>
       \/ /\ migration \in (1..Migrations) \ recorded
          /\ pc' = "apply" /\ item' = 1 /\ UNCHANGED migration
    /\ UNCHANGED <<schema, config, setting, used, stops, ghosts>>

(* migrate: the file's statements run one by one, each on its own.  A second *)
(* ALTER TABLE ... ADD COLUMN is an error, and main exits on it.             *)
ApplyStatement ==
    /\ pc = "apply"
    /\ IF <<migration, item>> \in executed /\ migration \notin Repeatable
       THEN pc' = "down" /\ UNCHANGED <<executed, item>>
       ELSE /\ executed' = executed \cup {<<migration, item>>}
            /\ IF item < Statements[migration]
               THEN item' = item + 1 /\ UNCHANGED pc
               ELSE pc' = "record" /\ UNCHANGED item
    /\ UNCHANGED <<recorded, config, setting, migration, used, stops, ghosts>>

\* migrate: INSERT INTO schema_migrations
RecordMigration ==
    /\ pc = "record" /\ pc' = "check"
    /\ recorded' = recorded \cup {migration}
    /\ migration' = migration + 1 /\ item' = 1
    /\ UNCHANGED <<executed, config, setting, used, stops, ghosts>>

\* Mutant: the seed is applied unless both tables have rows.
CountConfigBoth ==
    /\ pc = "count" /\ item' = 1
    /\ pc' = IF users # {} /\ clients # {} THEN "readKey" ELSE "seedUsers"
    /\ UNCHANGED <<schema, config, setting, migration, used, stops, ghosts>>

\* ApplyIfEmpty: nothing is seeded once there is a client or a user.
CountConfig ==
    /\ pc = "count" /\ item' = 1
    /\ pc' = IF users # {} \/ clients # {} THEN "readKey" ELSE "seedUsers"
    /\ UNCHANGED <<schema, config, setting, migration, used, stops, ghosts>>

\* apply: SaveUser, one statement per user, and the end of the loop
SeedUser ==
    /\ pc = "seedUsers"
    /\ \/ item <= Users /\ users' = users \cup {item} /\ item' = item + 1 /\ UNCHANGED pc
       \/ item > Users /\ item' = 1 /\ pc' = "seedClients" /\ UNCHANGED users
    /\ UNCHANGED <<schema, clients, setting, migration, used, stops, ghosts>>

\* apply: SaveClient, one statement per client, and the end of the loop
SeedClient ==
    /\ pc = "seedClients"
    /\ \/ item <= Clients /\ clients' = clients \cup {item} /\ item' = item + 1 /\ UNCHANGED pc
       \/ item > Clients /\ item' = 1 /\ pc' = "readKey" /\ UNCHANGED clients
    /\ UNCHANGED <<schema, users, setting, migration, used, stops, ghosts>>

\* cryptoKey: GetSetting, which returns the default for an absent row and for any error.
ReadKey ==
    /\ pc = "readKey"
    /\ \/ cryptoKey # NoKey /\ used' = cryptoKey /\ pc' = "serving" /\ UNCHANGED misread
       \/ /\ pc' = "writeKey" /\ misread' = (misread \/ cryptoKey # NoKey)
          /\ UNCHANGED used
    /\ UNCHANGED <<schema, config, setting, loop, stops, served, removed, emptied>>

\* Mutant: the generated key is only kept in memory.
WriteKeyInMemory ==
    /\ pc = "writeKey" /\ pc' = "serving"
    /\ keys' = keys + 1 /\ used' = keys
    /\ UNCHANGED <<schema, config, cryptoKey, loop, stops, ghosts>>

\* cryptoKey: a generated key is persisted by SetSetting before it is used.
WriteKey ==
    /\ pc = "writeKey" /\ pc' = "serving"
    /\ keys' = keys + 1 /\ cryptoKey' = keys /\ used' = keys
    /\ UNCHANGED <<schema, config, loop, stops, ghosts>>

\* A serving process hands out a token encrypted with its key.
ServeToken ==
    /\ pc = "serving" /\ served' = served \cup {used}
    /\ UNCHANGED <<schema, config, setting, pc, loop, used, stops, removed, emptied, misread>>

\* deleteUser and deleteClient in the admin UI
AdminDelete ==
    /\ pc = "serving"
    /\ \/ \E u \in users : /\ users' = users \ {u} /\ UNCHANGED clients
                           /\ removed' = removed \cup {<<"user", u>>}
       \/ \E c \in clients : /\ clients' = clients \ {c} /\ UNCHANGED users
                             /\ removed' = removed \cup {<<"client", c>>}
    /\ emptied' = (emptied \/ (users' = {} /\ clients' = {}))
    /\ UNCHANGED <<schema, setting, pc, loop, used, stops, served, misread>>

\* Mutant: a failed boot or a stop leaves the provider's key behind.
StopKeepsKey ==
    /\ pc # "down" /\ stops < MaxStops
    /\ pc' = "down" /\ stops' = stops + 1
    /\ UNCHANGED <<schema, config, setting, loop, used, ghosts>>

\* The process stops, between two statements of the boot or while it serves.
Stop ==
    /\ pc # "down" /\ stops < MaxStops
    /\ pc' = "down" /\ used' = NoKey /\ stops' = stops + 1
    /\ UNCHANGED <<schema, config, setting, loop, ghosts>>

Boot == \/ Start \/ CheckMigration \/ ApplyStatement \/ RecordMigration
        \/ CountConfig \/ SeedUser \/ SeedClient \/ ReadKey \/ WriteKey

Next == Boot \/ ServeToken \/ AdminDelete \/ Stop

Spec == Init /\ [][Next]_vars

\* The boot goes on, and whoever runs the process starts it again after a stop.
FairSpec == Spec /\ WF_vars(Boot)

-----------------------------------------------------------------------------
(* The values every variable may take.                                       *)
TypeOK ==
    /\ executed \subseteq AllStatements /\ recorded \subseteq 1..Migrations
    /\ users \subseteq 1..Users /\ clients \subseteq 1..Clients
    /\ cryptoKey \in Nat \cup {NoKey} /\ keys \in Nat
    /\ pc \in Phase /\ migration \in 1..Migrations + 1 /\ item \in Nat \ {0}
    /\ used \in IF pc = "serving" THEN Nat ELSE {NoKey}
    /\ stops \in 0..MaxStops
    /\ served \subseteq Nat /\ emptied \in BOOLEAN /\ misread \in BOOLEAN
    /\ removed \subseteq ({"user"} \X (1..Users)) \cup ({"client"} \X (1..Clients))

(* Whatever stops came before, the process neither seeds nor serves on a     *)
(* schema that lacks a column: every statement of every migration has run    *)
(* (migrate records a file only after it).                                   *)
ServesOnFullSchema ==
    pc \in {"count", "seedUsers", "seedClients", "readKey", "writeKey", "serving"} =>
        executed = AllStatements /\ recorded = 1..Migrations

(* cryptoKey's comment, "so tokens survive restarts": all tokens ever handed *)
(* out are encrypted with one key, as long as no read of a stored key failed *)
(* (GetSetting reports a failure as "absent", and the key is overwritten).   *)
OneCryptoKey == ~misread => Cardinality(served) <= 1

(* A user or client that an administrator has deleted does not come back     *)
(* with a restart, unless the administrator has emptied both tables          *)
(* (ApplyIfEmpty).                                                           *)
DeletedStaysDeleted ==
    ~emptied => \A x \in removed : x[2] \notin IF x[1] = "user" THEN users ELSE clients

(* A migration that cannot be repeated has begun and is not recorded, and    *)
(* the process is down.                                                      *)
Wedged == pc = "down" /\ \E m \in (1..Migrations) \ (recorded \cup Repeatable) :
                            <<m, 1>> \in executed

(* After finitely many stops, none of them inside a migration of ALTER TABLE *)
(* statements, the process comes up and serves for ever.                     *)
ComesUp == []~Wedged => <>[](pc = "serving")

(* Open "applies all embedded migrations": after finitely many stops the     *)
(* process comes up and serves.                                              *)
EventuallyServes == <>[](pc = "serving")
=============================================================================
