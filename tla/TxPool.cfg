CONSTANTS
    Conn = {c1, c2}
    Req = {q1, q2}
    MaxRev = 2
    NoConn = NoConn
    Free = Free
SPECIFICATION Spec
INVARIANTS
    AllOrNothing
    AnswersAreDurable
    SnapshotReads
    OneDiffAtATime
PROPERTIES
    EveryRequestEnds
