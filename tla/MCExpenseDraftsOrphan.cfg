SPECIFICATION Spec
CONSTANTS
    c1 = c1
    c2 = c2
    b1 = b1
    b2 = b2
    Calls <- MCCalls
    Bodies <- MCBodies
    BodyOf <- MCBodyOf
    Null = Null
    MaxEdits = 1
    MaxExpenses = 2
    MaxFaults = 0
INVARIANT NoPendingOrphan
