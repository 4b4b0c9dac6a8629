SPECIFICATION FairSpec
CONSTANTS
    first = first
    retry = retry
    other = other
    body = body
    edited = edited
    Requests = {first, retry, other}
    Hashes = {body, edited}
    HashOf <- MCHashOf
    MaxFaults = 2
    MaxOverruns = 0
CHECK_DEADLOCK FALSE
INVARIANTS
    SingleFlight
    ReplayMatchesBody
    SecondEffectIsExcused
PROPERTY LockEnds
