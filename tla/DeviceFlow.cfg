SPECIFICATION FairSpec
CONSTANTS
    Device = {d1, d2}
    UserCode = {x1, x2}
    Subject = {alice, bob}
    NoSubject = NoSubject
    NoCode = NoCode
    Lifetime = 1
    MaxClock = 3
INVARIANT TypeOK
INVARIANT OneDevicePerCode
INVARIANT TokenSubjectApproved
PROPERTY DeniedIsFinal
PROPERTY PollingEnds
