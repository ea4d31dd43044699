SPECIFICATION MCSpec
CONSTANTS
    app = app
    Client <- MCClient
    Subject = {alice}
    Scope = {profile}
    Asked = {{profile}}
    Worker = {w1, w2}
    NoClient = NoClient
    NoRow = NoRow
    RefreshLifetime <- MCRefreshLifetime
    DefaultLifetime = 2
    MaxId = 6
    MaxClock = 2
SYMMETRY MCSymmetry
INVARIANT TypeOK
INVARIANT RotationKeepsGrant
INVARIANT OneTokenPairPerGrant
INVARIANT EndedIsFinal
PROPERTY ImplementsGrants
