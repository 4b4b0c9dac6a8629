----------------------------- MODULE TripLedger -----------------------------
(***************************************************************************)
(* The rows of one trip as its transactions leave them.                    *)
(*                                                                         *)
(* Every transaction that touches an expense, a settlement or a payment    *)
(* takes the trip row FOR UPDATE first (expenses.repo create, updateMeta,  *)
(* softDelete; settlements.service finalize, unlock, markPaid, markUnpaid; *)
(* trips.repo delete), so each transaction body is one atomic action here. *)
(* What a request read BEFORE its transaction is an arbitrary argument of  *)
(* the action: stale versions, a stale time zone, a stale reviewed set, a  *)
(* role the middleware looked up earlier.  Whatever holds here therefore   *)
(* holds however requests overlap.  A transaction that throws or finds     *)
(* nothing to do changes no row and is a stuttering step.                  *)
(***************************************************************************)
EXTENDS Naturals, Sequences, Functions

CONSTANTS
    ExpenseIds,     \* identifiers the database may draw for expenses
    Members,        \* memberships of the trip
    Bills,          \* contents of an expense, functions from column names:
                    \* amounts, currencies, rates, instants, participants
    OtherStates,    \* settlement states other than "included"
    Zones,          \* time zones a trip may be set to
    Keys,           \* Idempotency-Key values
    NoKey,          \* idempotency_key IS NULL
    NoImage,        \* before_value / after_value IS NULL
    Currencies,     \* currency codes a transfer may carry
    Settle(_),      \* computeSettlement: the transfers due for a set of rows
    CanSettle(_),   \* computeSettlement does not throw on a set of rows
    MaxVersion,     \* bound: edits of one expense
    MaxSettlements, \* bound: finalizations of the trip
    MaxEvents       \* bound: payment events of the trip

(* Of the expense states, "personal" and "record_only" differ from         *)
(* "included" in the same way: they do not count.                          *)
States == {"included"} \cup OtherStates

(* What the settlement of an expense depends on besides its version. *)
Charges == [payer : Members, bill : Bills]

(* An inventory of included expenses, as handed to computeSettlement. *)
Inventories == UNION {[S -> Charges] : S \in SUBSET ExpenseIds}

Transfers == [basis : {"settlement", "local"}, currency : Currencies,
              from : Members, to : Members, amount : Nat \ {0}]

ASSUME BoundsAssumption ==
    MaxVersion \in Nat /\ MaxSettlements \in Nat /\ MaxEvents \in Nat

(* The columns of a bill the audit log quotes.  COLS, which updateMeta and  *)
(* softDelete log, lacks the day (exchange_rate_date).  What create writes *)
(* out by hand also lacks the instant (spent_at) and whether the amount    *)
(* was converted or billed to a card (settlement_amount_source).           *)
COLS == {"source", "local", "ccy", "spent", "parts", "settled", "fx"}
CreateCols == {"local", "ccy", "parts", "settled", "fx"}

Quoted(bill, columns) == Restrict(bill, DOMAIN bill \cap columns)

(* before_value and after_value: of an edit or a deletion, of a creation.  *)
Images == [payer : Members, bill : {Quoted(bill, COLS) : bill \in Bills},
           state : States, creator : Members, version : 0 .. MaxVersion]

CreateImages == [payer : Members, state : States,
                 bill : {Quoted(bill, CreateCols) : bill \in Bills}]

ASSUME SentinelAssumption ==
    /\ NoKey \notin Keys
    /\ NoImage \notin Images \cup CreateImages

(* computeSettlement only produces rows settlement_transfers accepts. *)
ASSUME SettleAssumption ==
    \A inv \in Inventories : CanSettle(inv) => Settle(inv) \subseteq Transfers

VARIABLES
    trip,         \* the trips row: status ("deleted" once it is gone) and time zone
    admin,        \* the trip_members row with role 'admin'
    expenses,     \* the expenses table: id -> row, soft-deleted rows included
    audit,        \* expense_audit_logs: id -> its entries, oldest first
    settlements,  \* the settlements table: the row of version n is settlements[n]
    payments      \* settlement_transfer_events of the trip, oldest first

vars == <<trip, admin, expenses, audit, settlements, payments>>

Rows == [payer : Members, bill : Bills, state : States, creator : Members,
         key : Keys \cup {NoKey}, version : 0 .. MaxVersion, deleted : BOOLEAN]

AuditEntries == [type : {"create", "update", "delete"},
                 before : Images \cup {NoImage},
                 after : Images \cup CreateImages \cup {NoImage}]

Settlements == [status : {"active", "superseded"},
                transfers : SUBSET Transfers, paid : SUBSET Transfers]

PaymentEvents == [version : Nat, transfer : Transfers, type : {"paid", "unpaid"}]

-----------------------------------------------------------------------------
(* Reading the tables. *)

(* jsonSafe of a row read by COLS, with its participants. *)
Image(row) == [payer |-> row.payer, bill |-> Quoted(row.bill, COLS),
               state |-> row.state, creator |-> row.creator,
               version |-> row.version]

(* What create logs of the row it inserts. *)
CreateImage(row) == [payer |-> row.payer, bill |-> Quoted(row.bill, CreateCols),
                     state |-> row.state]

(* listIncludedExpenses: the live rows that count. *)
Included == {e \in DOMAIN expenses :
                ~expenses[e].deleted /\ expenses[e].state = "included"}

Inventory == [e \in Included |-> [payer |-> expenses[e].payer,
                                  bill |-> expenses[e].bill]]

SeenVersions == [e \in Included |-> expenses[e].version]

(* What finalize may be sent as the reviewed set. *)
ReviewedSets == UNION {[S -> 0 .. MaxVersion] : S \in SUBSET ExpenseIds}

(* The row uq_expense_idem and the pre-check of create look for. *)
LiveWithKey(creator, key) ==
    {e \in DOMAIN expenses : /\ ~expenses[e].deleted
                             /\ expenses[e].creator = creator
                             /\ expenses[e].key = key}

ActiveVersions == {n \in DOMAIN settlements : settlements[n].status = "active"}

PayableIn(n) == {t \in settlements[n].transfers : t.basis = "settlement"}

-----------------------------------------------------------------------------
(* Expenses. *)

InsertExpense(e, row) ==
    LET ids == DOMAIN expenses \cup {e}
    IN  /\ expenses' = [x \in ids |-> IF x = e THEN row ELSE expenses[x]]
        /\ audit' = [x \in ids |-> IF x = e
                                   THEN <<[type |-> "create", before |-> NoImage,
                                           after |-> CreateImage(row)]>>
                                   ELSE audit[x]]

NewRow(creator, payer, bill, state, key) ==
    [payer |-> payer, bill |-> bill, state |-> state, creator |-> creator,
     key |-> key, version |-> 0, deleted |-> FALSE]

\* Mutant: the status is not looked at again under the lock.
TxCreateInAnyStatus(e, creator, payer, bill, state, key, zone) ==
    /\ e \notin DOMAIN expenses
    /\ zone = trip.zone
    /\ key = NoKey \/ LiveWithKey(creator, key) = {}
    /\ InsertExpense(e, NewRow(creator, payer, bill, state, key))
    /\ UNCHANGED <<trip, admin, settlements, payments>>

\* Mutant: no pre-check of the key, and no unique index to fall back on.
TxCreateEveryTime(e, creator, payer, bill, state, key, zone) ==
    /\ e \notin DOMAIN expenses
    /\ trip.status = "open"
    /\ zone = trip.zone
    /\ InsertExpense(e, NewRow(creator, payer, bill, state, key))
    /\ UNCHANGED <<trip, admin, settlements, payments>>

\* Mutant: the zone the date was computed with is not verified.
TxCreateInAnyZone(e, creator, payer, bill, state, key, zone) ==
    /\ e \notin DOMAIN expenses
    /\ trip.status = "open"
    /\ key = NoKey \/ LiveWithKey(creator, key) = {}
    /\ InsertExpense(e, NewRow(creator, payer, bill, state, key))
    /\ UNCHANGED <<trip, admin, settlements, payments>>

TxCreate(e, creator, payer, bill, state, key, zone) ==
    /\ e \notin DOMAIN expenses
    /\ trip.status = "open"
    /\ zone = trip.zone
    /\ key = NoKey \/ LiveWithKey(creator, key) = {}
    /\ InsertExpense(e, NewRow(creator, payer, bill, state, key))
    /\ UNCHANGED <<trip, admin, settlements, payments>>

\* Mutant: an edit is let through in a finalized trip.
StillAtInAnyStatus(e, version) ==
    /\ e \in DOMAIN expenses
    /\ ~expenses[e].deleted
    /\ expenses[e].version = version

\* Mutant: the caller's version is not compared with the row's.
StillAtAnyVersion(e, version) ==
    /\ trip.status = "open"
    /\ e \in DOMAIN expenses
    /\ ~expenses[e].deleted
    /\ expenses[e].version < MaxVersion

(* The compare-and-set both updateMeta and softDelete end in: the row the  *)
(* caller edited is still at the version the caller saw.                    *)
StillAt(e, version) ==
    /\ trip.status = "open"
    /\ e \in DOMAIN expenses
    /\ ~expenses[e].deleted
    /\ expenses[e].version = version

Edited(e, version, bill, state) ==
    [expenses[e] EXCEPT !.bill = bill, !.state = state, !.version = version + 1]

\* Mutant: the audit entry's before image is read after the UPDATE.
TxUpdateAuditedLate(e, version, bill, state) ==
    /\ StillAt(e, version)
    /\ version < MaxVersion
    /\ expenses' = [expenses EXCEPT ![e] = Edited(e, version, bill, state)]
    /\ audit' = [audit EXCEPT ![e] =
                    Append(@, [type |-> "update",
                               before |-> Image(Edited(e, version, bill, state)),
                               after |-> Image(Edited(e, version, bill, state))])]
    /\ UNCHANGED <<trip, admin, settlements, payments>>

TxUpdate(e, version, bill, state) ==
    /\ StillAt(e, version)
    /\ version < MaxVersion
    /\ expenses' = [expenses EXCEPT ![e] = Edited(e, version, bill, state)]
    /\ audit' = [audit EXCEPT ![e] =
                    Append(@, [type |-> "update", before |-> Image(expenses[e]),
                               after |-> Image(Edited(e, version, bill, state))])]
    /\ UNCHANGED <<trip, admin, settlements, payments>>

TxSoftDelete(e, version) ==
    /\ StillAt(e, version)
    /\ version < MaxVersion
    /\ expenses' = [expenses EXCEPT ![e] = [@ EXCEPT !.deleted = TRUE,
                                                     !.version = version + 1]]
    /\ audit' = [audit EXCEPT ![e] =
                    Append(@, [type |-> "delete", before |-> Image(expenses[e]),
                               after |-> NoImage])]
    /\ UNCHANGED <<trip, admin, settlements, payments>>

-----------------------------------------------------------------------------
(* The settlement cycle. *)

Superseded(s) == [s EXCEPT !.status = "superseded"]

(* saveSnapshot: the active row is superseded, version max + 1 is inserted. *)
SaveSnapshot(transfers) ==
    settlements' = Append([n \in DOMAIN settlements |->
                              IF settlements[n].status = "active"
                              THEN Superseded(settlements[n])
                              ELSE settlements[n]],
                          [status |-> "active", transfers |-> transfers,
                           paid |-> {}])

\* Mutant: the reviewed rows are compared by their ids only.
TxFinalizeTheSameRows(seen) ==
    /\ trip.status = "open"
    /\ DOMAIN seen = Included
    /\ Included # {}
    /\ CanSettle(Inventory)
    /\ Len(settlements) < MaxSettlements
    /\ SaveSnapshot(Settle(Inventory))
    /\ trip' = [trip EXCEPT !.status = "finalized"]
    /\ UNCHANGED <<admin, expenses, audit, payments>>

TxFinalize(seen) ==
    /\ trip.status = "open"
    /\ seen = SeenVersions
    /\ Included # {}
    /\ CanSettle(Inventory)
    /\ Len(settlements) < MaxSettlements
    /\ SaveSnapshot(Settle(Inventory))
    /\ trip' = [trip EXCEPT !.status = "finalized"]
    /\ UNCHANGED <<admin, expenses, audit, payments>>

\* Mutant: recorded payments do not block the reopening.
TxUnlockAlways ==
    /\ trip.status = "finalized"
    /\ trip' = [trip EXCEPT !.status = "open"]
    /\ UNCHANGED <<admin, expenses, audit, settlements, payments>>

TxUnlock ==
    /\ trip.status = "finalized"
    /\ \A n \in ActiveVersions : settlements[n].paid \cap PayableIn(n) = {}
    /\ trip' = [trip EXCEPT !.status = "open"]
    /\ UNCHANGED <<admin, expenses, audit, settlements, payments>>

(* Only the recipient of a transfer, or an admin, records its payment. *)
MayRecord(actor, role, t) == t.to = actor \/ role = "admin"

(* setTransferPaid or setTransferUnpaid, then insertTransferEvent. *)
RecordPayment(n, t, type) ==
    /\ Len(payments) < MaxEvents
    /\ settlements' = [settlements EXCEPT ![n].paid =
                          IF type = "paid" THEN @ \cup {t} ELSE @ \ {t}]
    /\ payments' = Append(payments, [version |-> n, transfer |-> t, type |-> type])
    /\ UNCHANGED <<trip, admin, expenses, audit>>

\* Mutant: the transfer is looked up in any version.
TxMarkPaidInAnyVersion(n, t, actor, role) ==
    /\ trip.status = "finalized"
    /\ t \in PayableIn(n)
    /\ MayRecord(actor, role, t)
    /\ t \notin settlements[n].paid
    /\ RecordPayment(n, t, "paid")

TxMarkPaid(n, t, actor, role) ==
    /\ trip.status = "finalized"
    /\ n \in ActiveVersions
    /\ t \in PayableIn(n)
    /\ MayRecord(actor, role, t)
    /\ t \notin settlements[n].paid
    /\ RecordPayment(n, t, "paid")

\* Mutant: a retry is not recognised as one.
TxMarkUnpaidAgain(n, t, actor, role) ==
    /\ trip.status = "finalized"
    /\ n \in ActiveVersions
    /\ t \in PayableIn(n)
    /\ MayRecord(actor, role, t)
    /\ RecordPayment(n, t, "unpaid")

TxMarkUnpaid(n, t, actor, role) ==
    /\ trip.status = "finalized"
    /\ n \in ActiveVersions
    /\ t \in PayableIn(n)
    /\ MayRecord(actor, role, t)
    /\ t \in settlements[n].paid
    /\ RecordPayment(n, t, "unpaid")

-----------------------------------------------------------------------------
(* The trip row itself. *)

(* PATCH of a trip: a plain UPDATE, whatever the settlement status. *)
TxUpdateTrip(zone) ==
    /\ trip.status # "deleted"
    /\ trip' = [trip EXCEPT !.zone = zone]
    /\ UNCHANGED <<admin, expenses, audit, settlements, payments>>

TxTransferAdmin(member) ==
    /\ trip.status # "deleted"
    /\ admin' = member
    /\ UNCHANGED <<trip, expenses, audit, settlements, payments>>

(* The caller's role is read again under the lock; the cascades empty the  *)
(* tables.                                                                  *)
TxDeleteTrip(caller) ==
    /\ trip.status # "deleted"
    /\ caller = admin
    /\ trip' = [trip EXCEPT !.status = "deleted"]
    /\ expenses' = [e \in {} |-> {}]
    /\ audit' = [e \in {} |-> {}]
    /\ settlements' = <<>>
    /\ payments' = <<>>
    /\ UNCHANGED admin

-----------------------------------------------------------------------------
Init ==
    /\ trip \in [status : {"open"}, zone : Zones]
    /\ admin \in Members
    /\ expenses = [e \in {} |-> {}]
    /\ audit = [e \in {} |-> {}]
    /\ settlements = <<>>
    /\ payments = <<>>

ExpenseStep ==
    \E e \in ExpenseIds :
        \/ \E creator, payer \in Members, bill \in Bills, state \in States,
              key \in Keys \cup {NoKey}, zone \in Zones :
              TxCreate(e, creator, payer, bill, state, key, zone)
        \/ \E version \in 0 .. MaxVersion, bill \in Bills, state \in States :
              TxUpdate(e, version, bill, state)
        \/ \E version \in 0 .. MaxVersion : TxSoftDelete(e, version)

CycleStep ==
    \/ \E seen \in ReviewedSets : TxFinalize(seen)
    \/ TxUnlock

PaymentStep ==
    \E n \in DOMAIN settlements : \E t \in settlements[n].transfers :
        \E actor \in Members, role \in {"admin", "member"} :
            \/ TxMarkPaid(n, t, actor, role)
            \/ TxMarkUnpaid(n, t, actor, role)

TripStep ==
    \/ \E zone \in Zones : TxUpdateTrip(zone)
    \/ \E member \in Members : TxTransferAdmin(member)
    \/ \E caller \in Members : TxDeleteTrip(caller)

Next == ExpenseStep \/ CycleStep \/ PaymentStep \/ TripStep

Spec == Init /\ [][Next]_vars

-----------------------------------------------------------------------------
(* Properties. *)

(* Every table holds rows of its schema. *)
TypeOK ==
    /\ trip \in [status : {"open", "finalized", "deleted"}, zone : Zones]
    /\ admin \in Members
    /\ DOMAIN expenses \in SUBSET ExpenseIds
    /\ expenses \in [DOMAIN expenses -> Rows]
    /\ audit \in [DOMAIN expenses -> Seq(AuditEntries)]
    /\ settlements \in Seq(Settlements)
    /\ payments \in Seq(PaymentEvents)

(* A finalized trip has exactly one active snapshot, the newest, and what  *)
(* it froze is what a live computation over the expenses would give:       *)
(* netsForMemberships relies on it to report nets of a finalized trip from *)
(* a live computation.                                                     *)
SnapshotIsLive ==
    trip.status = "finalized" =>
        /\ ActiveVersions = {Len(settlements)}
        /\ settlements[Len(settlements)].transfers = Settle(Inventory)

(* At most the newest version is active (uq_settlement_active), so         *)
(* re-finalizing never leaves two plans to pay by.                         *)
OnlyNewestActive ==
    \A n \in DOMAIN settlements :
        settlements[n].status = "active" <=> n = Len(settlements)

(* A recorded payment is never stranded: it belongs to the newest snapshot *)
(* and the trip is still finalized, so no reopening or re-finalizing can   *)
(* ask somebody to pay twice (the guard of unlock is there for this).      *)
NoStrandedPayment ==
    \A n \in DOMAIN settlements :
        settlements[n].paid # {} =>
            trip.status = "finalized" /\ n = Len(settlements)

(* local_not_tracked: only settlement-basis transfers of the snapshot are  *)
(* ever paid.                                                              *)
OnlyPayablePaid ==
    \A n \in DOMAIN settlements : settlements[n].paid \subseteq PayableIn(n)

About(i, n, t) == payments[i].version = n /\ payments[i].transfer = t

LastAbout(i, n, t) ==
    About(i, n, t) /\ \A j \in DOMAIN payments : j > i => ~About(j, n, t)

(* The event log explains the payment column: a transfer is paid exactly   *)
(* when the last event about it says so, and the events about one transfer *)
(* alternate (idempotent retries append nothing).                          *)
LogExplainsPayments ==
    /\ \A n \in DOMAIN settlements : \A t \in settlements[n].transfers :
          t \in settlements[n].paid <=>
              \E i \in DOMAIN payments :
                  LastAbout(i, n, t) /\ payments[i].type = "paid"
    /\ \A i, j \in DOMAIN payments :
          /\ i < j
          /\ About(j, payments[i].version, payments[i].transfer)
          /\ \A k \in i + 1 .. j - 1 :
                ~About(k, payments[i].version, payments[i].transfer)
          => payments[i].type # payments[j].type

(* A creation's image says less than the others: two images agree at       *)
(* place i of the log if they say the same of what is logged there.        *)
AgreeAt(i, logged, image) ==
    IF i > 1 THEN logged = image
    ELSE logged = [payer |-> image.payer, state |-> image.state,
                   bill |-> Quoted(image.bill, CreateCols)]

(* The audit trail replays: one entry per version, the first a creation.   *)
(* Each entry starts from the row of the version before it, as the entry   *)
(* before it left it, and the last one ends in the row as it is (or in     *)
(* nothing, if it was deleted), as far as the log quotes the row: the day  *)
(* of an expense is in no entry, its instant and the source of its amount  *)
(* not before the first edit.                                              *)
AuditReplays ==
    \A e \in DOMAIN expenses :
        LET log  == audit[e]
            last == Len(log)
        IN  /\ last = expenses[e].version + 1
            /\ log[1].before = NoImage
            /\ \A i \in 1 .. last - 1 :
                  /\ log[i + 1].before.version = i - 1
                  /\ AgreeAt(i, log[i].after, log[i + 1].before)
            /\ IF expenses[e].deleted THEN log[last].after = NoImage
               ELSE AgreeAt(last, log[last].after, Image(expenses[e]))

(* However often a creation is retried with its key, one live expense of   *)
(* that creator carries it.                                                *)
OneLivePerKey ==
    \A d, e \in DOMAIN expenses :
        /\ ~expenses[d].deleted /\ ~expenses[e].deleted
        /\ expenses[d].key # NoKey
        /\ expenses[d].key = expenses[e].key
        /\ expenses[d].creator = expenses[e].creator
        => d = e

(* The history only grows: a snapshot's transfers never change, and a      *)
(* superseded snapshot never changes at all, until the trip is deleted.    *)
HistoryIsKept ==
    [][trip'.status # "deleted" =>
          \A n \in DOMAIN settlements :
              /\ n \in DOMAIN settlements'
              /\ settlements'[n].transfers = settlements[n].transfers
              /\ settlements[n].status = "superseded" =>
                    settlements'[n] = settlements[n]]_vars

-----------------------------------------------------------------------------
(* The abstract view: the newest snapshot is the plan while finalized.     *)
PlanFor(inv) == {t \in Settle(inv) : t.basis = "settlement"}

CurrentPlan ==
    IF trip.status = "finalized" THEN PayableIn(Len(settlements)) ELSE {}

CurrentlyPaid ==
    IF trip.status = "finalized" THEN settlements[Len(settlements)].paid ELSE {}

Cycle == INSTANCE SettlementCycle
            WITH Inventories <- Inventories, Plan <- PlanFor,
                 phase <- trip.status, bills <- Inventory,
                 plan <- CurrentPlan, paid <- CurrentlyPaid

(* The transactions implement the settlement cycle: seen from outside a    *)
(* trip goes round open - finalized - paid and back as SettlementCycle     *)
(* says, and stale or racing requests never show.                          *)
ImplementsCycle == Cycle!Spec
=============================================================================
