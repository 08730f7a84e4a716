CONSTANTS
    Password = {"a", "b"}
    SessionId = {s1}
    Req = {q1, q2, q3}
    Slots = 2
    MaxOrphans = 2
    NoSession = NoSession
    NoHash = NoHash
SPECIFICATION Spec
INVARIANTS
    HashWorkBounded
