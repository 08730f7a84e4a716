SPECIFICATION Spec
CONSTANTS
    Bad = "bad"
    Relative = "relative"
    Beside = "d2"
    Default <- MCDefault
    Service = "service"
    Operator = {"operator"}
    Supervised <- MCSupervised
    Typed <- MCTyped
    Database = {"d1", "d2"}
    Migrations = 3
    Password = {"p1", "p2"}
    Weak = "short"
    None = "none"
    MaxLaunches = 2
    MaxFaults = 1
INVARIANTS
    CreatorIsRight
    ServesWhole
PROPERTIES
    StrongestSource
    ServiceComesUp
CHECK_DEADLOCK FALSE
