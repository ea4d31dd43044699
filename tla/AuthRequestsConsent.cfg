SPECIFICATION MCSpec
CONSTANTS
    alice = alice
    bob = bob
    alicesSubject = alicesSubject
    User <- MCUser
    SubjectOf <- MCSubjectOf
    RequestId = {r1}
    Code = {k1}
    Worker = {w1}
    Client = {asking}
    ConsentClients = {asking}
    NoUser = NoUser
    NoRequest = NoRequest
    MaxChoices = 3
    MaxMissed = 0
    Hint = {NoUser}
INVARIANT ConsentBeforeToken
