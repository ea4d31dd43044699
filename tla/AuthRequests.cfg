SPECIFICATION MCSpec
CONSTANTS
    alice = alice
    bob = bob
    alicesSubject = alicesSubject
    User <- MCUser
    SubjectOf <- MCSubjectOf
    RequestId = {r1}
    Code = {k1}
    Worker = {w1, w2}
    Client = {plain, asking}
    ConsentClients = {asking}
    NoUser = NoUser
    NoRequest = NoRequest
    MaxChoices = 3
    MaxMissed = 1
    Hint = {NoUser, alicesSubject}
SYMMETRY MCSymmetry
INVARIANT TypeOK
INVARIANT TokenIsOneLogin
INVARIANT SomeoneAllowed
INVARIANT ClosedForGood
PROPERTY ImplementsLogins
