SPECIFICATION Spec
CONSTANTS
    ann = ann
    bob = bob
    trip = trip
    key = key
    NoKey = NoKey
    r1 = r1
    r2 = r2
    r3 = r3
    Requests = {r1, r2, r3}
    Users = {ann, bob}
    Trips = {trip}
    Inputs <- MCInputs
    UserMax = 1
    TripMax = 2
    MaxDrafts = 1
    MaxRolls = 1
    MaxFaults = 2
INVARIANTS
    NothingSentWithoutConsent
    BudgetKept
    NoWorkNoCharge
    SlotMatchesProcess
PROPERTIES
    BatchFilledOnce
SYMMETRY AnyRequest
