---------------------------- MODULE MCIdempotency ----------------------------
(* Idempotency with three requests: two with one body, one with another.   *)
EXTENDS Idempotency

CONSTANTS first, retry, other, body, edited

MCHashOf == [r \in Requests |-> IF r = other THEN edited ELSE body]
=============================================================================
