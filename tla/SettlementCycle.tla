--------------------------- MODULE SettlementCycle ---------------------------
(***************************************************************************)
(* What a trip promises the people who settle by it.  Bills change only    *)
(* while the trip is open.  Finalizing fixes the plan of payments for the  *)
(* bills as they stand; payments of that plan are recorded and taken back  *)
(* while it is fixed; the trip reopens only when no payment is recorded.   *)
(* TripLedger implements this specification.                               *)
(***************************************************************************)
CONSTANTS
    Inventories,  \* what there may be to settle
    Plan(_)       \* the payments an inventory calls for

VARIABLES
    phase,        \* "open", "finalized" or "deleted"
    bills,        \* the inventory as it stands
    plan,         \* the payments to make, none unless finalized
    paid          \* those recorded as made

vars == <<phase, bills, plan, paid>>

Init ==
    /\ phase = "open"
    /\ bills \in Inventories
    /\ DOMAIN bills = {}
    /\ plan = {}
    /\ paid = {}

ChangeBills ==
    /\ phase = "open"
    /\ bills' \in Inventories
    /\ UNCHANGED <<phase, plan, paid>>

Finalize ==
    /\ phase = "open"
    /\ DOMAIN bills # {}
    /\ phase' = "finalized"
    /\ plan' = Plan(bills)
    /\ UNCHANGED <<bills, paid>>

Pay(t) ==
    /\ t \in plan \ paid
    /\ paid' = paid \cup {t}
    /\ UNCHANGED <<phase, bills, plan>>

TakeBack(t) ==
    /\ t \in paid
    /\ paid' = paid \ {t}
    /\ UNCHANGED <<phase, bills, plan>>

Reopen ==
    /\ phase = "finalized"
    /\ paid = {}
    /\ phase' = "open"
    /\ plan' = {}
    /\ UNCHANGED <<bills, paid>>

Delete ==
    /\ phase # "deleted"
    /\ phase' = "deleted"
    /\ bills' \in Inventories
    /\ DOMAIN bills' = {}
    /\ plan' = {}
    /\ paid' = {}

Next ==
    \/ ChangeBills
    \/ Finalize
    \/ \E t \in plan : Pay(t) \/ TakeBack(t)
    \/ Reopen
    \/ Delete

Spec == Init /\ [][Next]_vars
=============================================================================
