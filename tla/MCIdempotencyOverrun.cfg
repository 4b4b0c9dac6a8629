SPECIFICATION Spec
CONSTANTS
    first = first
    retry = retry
    other = other
    body = body
    edited = edited
    Requests = {first, retry, other}
    Hashes = {body, edited}
    HashOf <- MCHashOf
    MaxFaults = 0
    MaxOverruns = 1
CHECK_DEADLOCK FALSE
INVARIANT ReplayMatchesBody
