SPECIFICATION FairSpec
CONSTANTS
    Migrations = 3
    Statements <- MCStatements
    Repeatable = {1}
    Users = 2
    Clients = 2
    NoKey = NoKey
    MaxStops = 3
INVARIANT TypeOK
INVARIANT ServesOnFullSchema
INVARIANT OneCryptoKey
INVARIANT DeletedStaysDeleted
PROPERTY ComesUp
