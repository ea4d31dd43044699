SPECIFICATION MCSpec
CONSTANTS
    c1 = c1
    c2 = c2
    t1 = t1
    t2 = t2
    w1 = w1
    w2 = w2
    ES256 = ES256
    ClientId = {c1, c2}
    Config <- MCConfig
    InitialClients <- MCInitialClients
    Tab = {t1, t2}
    NoClient = NoClient
    MaxForms = 2
    Entry <- MCEntry
    MaxLog = 2
    Worker = {w1, w2}
    Override = {o1}
    NoOverride = NoOverride
    NoAlg = NoAlg
    Asked = {c1, c2}
    MaxRequests = 3
    MaxSaves = 1
SYMMETRY TabSymmetry
CHECK_DEADLOCK FALSE
INVARIANTS TypeOK EveryClientOnce AnswerFollowsConfiguration
PROPERTY LogShowsRecent
