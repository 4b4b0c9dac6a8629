------------------------------ MODULE Receipts ------------------------------
(***************************************************************************)
(* The receipt of one expense: receipts.service attach, get and remove,    *)
(* which keep an object in the files server and its key in the expense's   *)
(* row.  There is no transaction over the two: every call to the database  *)
(* or to the files server is a step, and other requests, the deletion of   *)
(* the expense or of its trip, failures and crashes come in between.       *)
(*                                                                         *)
(* attach stores under a key of its own (a uuid), so an object is named by *)
(* the request that uploads it.                                            *)
(***************************************************************************)
EXTENDS Naturals

CONSTANTS
    Requests,
    NoKey,       \* receipt_object_key IS NULL
    MaxFaults    \* bound: failures and crashes

ASSUME BoundsAssumption == MaxFaults \in Nat
ASSUME NoKeyAssumption == NoKey \notin Requests

VARIABLES
    expense,   \* the expenses row: live, soft-deleted, or gone with its trip
    key,       \* expenses.receipt_object_key
    objects,   \* what the files server stores
    op,        \* what each request does
    at,        \* where it is
    read,      \* the key it has read
    outcome,   \* how it ended
    unlinked,  \* history: keys overwritten, or cleared by a remove of another
    faults

vars == <<expense, key, objects, op, at, read, outcome, unlinked, faults>>

Points   == {"look", "put", "set", "fetch", "delete", "clear", "ended"}
Outcomes == {"pending", "ok", "not_found", "failed"}

(* What the variables range over. *)
TypeOK ==
    /\ expense \in {"live", "deleted", "gone"}
    /\ key \in Requests \cup {NoKey}
    /\ objects \subseteq Requests /\ unlinked \subseteq Requests
    /\ op \in [Requests -> {"attach", "get", "remove"}]
    /\ at \in [Requests -> Points]
    /\ read \in [Requests -> Requests \cup {NoKey}]
    /\ outcome \in [Requests -> Outcomes]
    /\ faults \in 0 .. MaxFaults

Init ==
    /\ expense = "live" /\ key = NoKey /\ objects = {} /\ unlinked = {}
    /\ op \in [Requests -> {"attach", "get", "remove"}]
    /\ at = [r \in Requests |-> "look"]
    /\ read = [r \in Requests |-> NoKey]
    /\ outcome = [r \in Requests |-> "pending"]
    /\ faults = 0

Exists == expense # "gone"   \* the repository does not look at deleted_at

GoTo(r, point) == at' = [at EXCEPT ![r] = point] /\ UNCHANGED outcome
End(r, how) ==
    /\ at' = [at EXCEPT ![r] = "ended"] /\ outcome' = [outcome EXCEPT ![r] = how]
Fault == faults < MaxFaults /\ faults' = faults + 1

-----------------------------------------------------------------------------
(* getReceiptKey, the first step of all three. *)
Look(r) ==
    /\ at[r] = "look" /\ read' = [read EXCEPT ![r] = key]
    /\ \/ op[r] = "attach" /\ Exists /\ GoTo(r, "put")
       \/ op[r] = "attach" /\ ~Exists /\ End(r, "not_found")
       \/ op[r] = "get" /\ key # NoKey /\ GoTo(r, "fetch")
       \/ op[r] = "get" /\ key = NoKey /\ End(r, "not_found")
       \/ op[r] = "remove" /\ key # NoKey /\ GoTo(r, "delete")
       \/ op[r] = "remove" /\ key = NoKey /\ End(r, "ok")
    /\ UNCHANGED <<expense, key, objects, op, unlinked, faults>>

(* Mutant: the key is set before the object is stored. *)
SetKeyFirst(r) ==
    /\ at[r] = "put" /\ key' = r
    /\ \/ objects' = objects \cup {r} /\ GoTo(r, "set") /\ UNCHANGED faults
       \/ Fault /\ End(r, "failed") /\ UNCHANGED objects
    /\ UNCHANGED <<expense, op, read, unlinked>>

PutObject(r) ==
    /\ at[r] = "put"
    /\ \/ objects' = objects \cup {r} /\ GoTo(r, "set") /\ UNCHANGED faults
       \/ Fault /\ End(r, "failed") /\ objects' \in {objects, objects \cup {r}}
    /\ UNCHANGED <<expense, key, op, read, unlinked>>

(* The UPDATE may also commit without anybody hearing of it. *)
SetReceiptKey(r) ==
    /\ at[r] = "set"
    /\ \/ /\ Exists /\ key' = r
          /\ unlinked' = unlinked \cup ({key} \ {NoKey})
          /\ \/ End(r, "ok") /\ UNCHANGED faults
             \/ Fault /\ End(r, "failed")
       \/ ~Exists /\ End(r, "not_found") /\ UNCHANGED <<key, unlinked, faults>>
       \/ Fault /\ End(r, "failed") /\ UNCHANGED <<key, unlinked>>
    /\ UNCHANGED <<expense, objects, op, read>>

GetObject(r) ==
    /\ at[r] = "fetch"
    /\ \/ read[r] \in objects /\ End(r, "ok") /\ UNCHANGED faults
       \/ read[r] \notin objects /\ End(r, "failed") /\ UNCHANGED faults
       \/ Fault /\ End(r, "failed")
    /\ UNCHANGED <<expense, key, objects, op, read, unlinked>>

(* Mutant: a file that cannot be deleted does not stop the removal. *)
DeleteBestEffort(r) ==
    /\ at[r] = "delete" /\ GoTo(r, "clear")
    /\ \/ objects' = objects \ {read[r]} /\ UNCHANGED faults
       \/ Fault /\ UNCHANGED objects
    /\ UNCHANGED <<expense, key, op, read, unlinked>>

(* Whether the files server takes the deletion of a missing object for a   *)
(* success is not known here.                                              *)
DeleteObject(r) ==
    /\ at[r] = "delete"
    /\ \/ objects' = objects \ {read[r]} /\ GoTo(r, "clear") /\ UNCHANGED faults
       \/ read[r] \notin objects /\ End(r, "failed") /\ UNCHANGED <<objects, faults>>
       \/ Fault /\ End(r, "failed") /\ objects' \in {objects, objects \ {read[r]}}
    /\ UNCHANGED <<expense, key, op, read, unlinked>>

(* clearReceiptKey, whatever the key is by now, heard of or not. *)
ClearReceiptKey(r) ==
    /\ at[r] = "clear"
    /\ \/ /\ key' = NoKey
          /\ unlinked' = unlinked \cup ({key} \ {read[r], NoKey})
          /\ \/ End(r, "ok") /\ UNCHANGED faults
             \/ Fault /\ End(r, "failed")
       \/ Fault /\ End(r, "failed") /\ UNCHANGED <<key, unlinked>>
    /\ UNCHANGED <<expense, objects, op, read>>

-----------------------------------------------------------------------------
(* expenses.repo softDelete. *)
DeleteExpense ==
    /\ expense = "live" /\ expense' = "deleted"
    /\ UNCHANGED <<key, objects, op, at, read, outcome, unlinked, faults>>

(* trips.repo delete takes the row and its key with it. *)
DeleteTrip ==
    /\ Exists /\ expense' = "gone" /\ key' = NoKey
    /\ UNCHANGED <<objects, op, at, read, outcome, unlinked, faults>>

Crash ==
    /\ Fault
    /\ \E dying \in SUBSET {r \in Requests : at[r] \notin {"look", "ended"}} :
          /\ dying # {}
          /\ at' = [r \in Requests |-> IF r \in dying THEN "ended" ELSE at[r]]
          /\ outcome' = [r \in Requests |-> IF r \in dying THEN "failed" ELSE outcome[r]]
    /\ UNCHANGED <<expense, key, objects, op, read, unlinked>>

AllEnded == \A r \in Requests : at[r] = "ended"

Next ==
    \/ \E r \in Requests :
          \/ Look(r) \/ PutObject(r) \/ SetReceiptKey(r) \/ GetObject(r)
          \/ DeleteObject(r) \/ ClearReceiptKey(r)
    \/ DeleteExpense \/ DeleteTrip \/ Crash
    \/ AllEnded /\ UNCHANGED vars

Spec == Init /\ [][Next]_vars

-----------------------------------------------------------------------------
(* A key is set only once its object is stored and is cleared right after  *)
(* the object is deleted: a receipt that is shown but cannot be fetched is *)
(* one a remove has not finished, or will not, having failed half-way.     *)
NoDanglingKey ==
    key # NoKey /\ key \notin objects =>
        \E r \in Requests :
            /\ op[r] = "remove" /\ read[r] = key
            /\ at[r] = "clear" \/ outcome[r] = "failed"

(* Every object the files server keeps without a row that names it was     *)
(* left there by something known: an upload under way, one that failed or  *)
(* lost its expense, a later upload, a racing remove, a deleted trip.      *)
(* Removing a receipt leaves none.                                         *)
StrayObjectsAreAccountedFor ==
    \A o \in objects \ {key} :
        \/ at[o] = "set" \/ outcome[o] \in {"failed", "not_found"}
        \/ o \in unlinked \/ expense = "gone"

=============================================================================
