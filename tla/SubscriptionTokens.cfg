CONSTANTS
    ProjectId = {p1}
    RevisionId = {r1, r2, r3}
    Name = {"a"}
    Bytes = {x, y}
    Page = {g1, g2}
    TokenId = {t1}
    Client = {c1}
    MaxTime = 1
    NoRow = NoRow
    NoRev = NoRev
    NoView = NoView
    NoTime = NoTime
    NoForm = NoForm
SYMMETRY Symmetry
SPECIFICATION TokenSpec
INVARIANTS
    TokensOwned
    FetchLinearizable
PROPERTIES
    MonotoneFetches
    RevocationFinal
CHECK_DEADLOCK FALSE
