CONSTANTS
    Url = {"a", "b"}
    Req = {q1, q2}
    Fallback = "a"
SPECIFICATION Spec
INVARIANTS
    InSync
