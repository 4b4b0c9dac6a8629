---------------------------- MODULE MCUsageImport ----------------------------
(* Two members of one trip; a member's key is retried on the same route    *)
(* and reused on the other.                                                *)
EXTENDS UsageImport, TLC
CONSTANTS ann, bob, trip, key, r1, r2, r3
Ask(u, s, k) == [user |-> u, trip |-> trip, source |-> s, key |-> k]
MCInputs == {Ask(ann, "text", key), Ask(ann, "image", key), Ask(bob, "text", NoKey)}
AnyRequest == Permutations(Requests)
=============================================================================
