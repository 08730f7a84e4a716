CONSTANTS
    ProjectId = {p1, p2}
    RevisionId = {r1, r2, r3, r4, r5}
    Name = {"a", "b"}
    Bytes = {x, y}
    Page = {g1, g2}
    NoRow = NoRow
    NoRev = NoRev
    NoView = NoView
SYMMETRY Symmetry
SPECIFICATION Spec
INVARIANTS
    TypeOK
    PointersOwned
    LinearHistory
    ServedCheckImplied
PROPERTIES
    ServedAdvances
    ImplementsPublishedLog
CHECK_DEADLOCK FALSE
