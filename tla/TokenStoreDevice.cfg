SPECIFICATION Spec
CONSTANTS
    app = app
    Client <- MCClient
    Subject = {alice}
    Scope = {profile}
    Asked = {{profile}}
    Worker = {w1}
    NoClient = NoClient
    NoRow = NoRow
    RefreshLifetime <- MCRefreshLifetime
    DefaultLifetime = 2
    MaxId = 2
    MaxClock = 0
SYMMETRY MCSymmetry
INVARIANT IssuedForItsClient
