SPECIFICATION MCSpec
CONSTANTS
    Requests = {r1, r2, r3, r4}
    NoKey = NoKey
    MaxFaults = 2
    Ids = {1, 2, 3}
    Instants = {1, 2, 3}
    Limits = {1, 2}
    Start = Start
    Done = Done
INVARIANTS
    NoDanglingKey
    StrayObjectsAreAccountedFor
    ListedInOrder
    NothingSkipped
SYMMETRY AnyRequest
