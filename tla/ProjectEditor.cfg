CONSTANTS
    ProjectId = {p1, p2}
    Name = {"a"}
    Bytes = {x, y}
    Call = {c1, c2}
    MaxRev = 2
    None = None
    Empty = Empty
SYMMETRY Symmetry
SPECIFICATION Spec
INVARIANTS
    PageShowsItsRoute
PROPERTIES
    PointersNeverGoBack
    PublishesWhatWasShown
    EditsOutliveAnswers
