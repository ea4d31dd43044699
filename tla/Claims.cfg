SPECIFICATION MCSpec
CONSTANTS
    u1 = u1
    u2 = u2
    u3 = u3
    app = app
    other = other
    UserId = {u1, u2, u3}
    ClientId = {app}
    Pinned <- MCPinned
    NoSubject = NoSubject
    NoUser = NoUser
    TokenId = {t1}
    NoToken = NoToken
    ClaimsObject <- Objects
    Condition <- MCCondition
    MaxRules = 2
    RequestClient = {app, other}
    Scope = {"profile", "address"}
    AnyClient = AnyClient
    ToAddress <- MCToAddress
    NoAddress = NoAddress
    NoQuestion = NoQuestion
CHECK_DEADLOCK FALSE
INVARIANTS TypeOK TokenSpeaksForItsUser ClaimPrecedence
