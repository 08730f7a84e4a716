CONSTANTS
    Url = {"a", "b"}
    Req = {q1, q2, q3}
    Fallback = "a"
SPECIFICATION Spec
INVARIANTS
    InSyncUnlessAbandoned
    LinkUsesCurrentUrl
PROPERTIES
    EveryRequestEnds
