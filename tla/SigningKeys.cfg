SPECIFICATION FairSpec
CONSTANTS
    RS256 = RS256
    ES256 = ES256
    Alg <- MCAlg
    DefaultAlg = RS256
    Process = {p1, p2}
    NoAlg = NoAlg
    NoKey = NoKey
    NoOwner = NoOwner
    MaxKey = 3
    MaxClock = 1
    MaxTick = 2
INVARIANT TypeOK
INVARIANT IssuedTokensVerify
INVARIANT CurrentIsCached
INVARIANT ContextAlgHonoured
INVARIANT OnDemandOnce
PROPERTY OnlyRotationReplaces
PROPERTY ImplementsKeyRing
PROPERTY RequestsEnd
