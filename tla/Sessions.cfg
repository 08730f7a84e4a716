CONSTANTS
    Password = {"a", "b"}
    SessionId = {s1, s2}
    Req = {q1, q2}
    Slots = 1
    MaxOrphans = 1
    NoSession = NoSession
    NoHash = NoHash
SPECIFICATION Spec
INVARIANTS
    ChangeRevokesOthers
    AdmittedByPassword
PROPERTIES
    SessionsOnlyDecline
    EveryRequestEnds
