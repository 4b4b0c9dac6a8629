----------------------------- MODULE TripProofs -----------------------------
(***************************************************************************)
(* Theorems about TripLedger, for any set of expenses, members, bills,     *)
(* keys and zones, any settlement engine and any bounds, and then about    *)
(* TripRequests, for any number of requests, any bodies, any zones, any    *)
(* rates a lookup may find and any conversion.                             *)
(***************************************************************************)
EXTENDS TripRequests, TLAPS

(* The inventory handed to the engine is one it accepts.                   *)
LEMMA InventoryTyped == TypeOK => Inventory \in Inventories
<1> SUFFICES ASSUME TypeOK PROVE Inventory \in Inventories
  OBVIOUS
<1>1. Included \in SUBSET ExpenseIds
  BY DEF TypeOK, Included
<1>2. \A e \in Included : expenses[e] \in Rows
  BY DEF TypeOK, Included
<1>3. Inventory \in [Included -> Charges]
  BY <1>2 DEF Inventory, Rows, Charges
<1> QED
  BY <1>1, <1>3 DEF Inventories

LEMMA InventoryStaysTyped == TypeOK' => (Inventory \in Inventories)'
BY InventoryTyped, PTL

(* What finalize would freeze are rows of settlement_transfers.            *)
LEMMA SettleTyped ==
  TypeOK /\ CanSettle(Inventory) => Settle(Inventory) \in SUBSET Transfers
BY InventoryTyped, SettleAssumption

LEMMA SettlementTyped ==
  TypeOK => \A n \in DOMAIN settlements : settlements[n] \in Settlements
BY DEF TypeOK

LEMMA ImageTyped ==
  ASSUME NEW row \in Rows
  PROVE  Image(row) \in Images /\ CreateImage(row) \in CreateImages
BY DEF Rows, Images, Image, CreateImages, CreateImage

-----------------------------------------------------------------------------
(* Every table keeps its schema.                                           *)
LEMMA InitTypeOK == Init => TypeOK
<1> SUFFICES ASSUME Init PROVE TypeOK
  OBVIOUS
<1>1. DOMAIN expenses = {} /\ DOMAIN audit = {}
  BY DEF Init
<1>2. expenses \in [DOMAIN expenses -> Rows] /\ audit \in [DOMAIN expenses -> Seq(AuditEntries)]
  BY <1>1 DEF Init
<1> QED
  BY <1>1, <1>2 DEF Init, TypeOK

LEMMA ExpenseStepTypeOK == TypeOK /\ ExpenseStep => TypeOK'
<1> SUFFICES ASSUME TypeOK, ExpenseStep PROVE TypeOK'
  OBVIOUS
<1>1. ASSUME NEW e \in ExpenseIds, NEW creator \in Members, NEW payer \in Members,
             NEW bill \in Bills, NEW state \in States,
             NEW key \in Keys \cup {NoKey}, NEW zone \in Zones,
             TxCreate(e, creator, payer, bill, state, key, zone)
      PROVE  TypeOK'
  <2> DEFINE row == [payer |-> payer, bill |-> bill, state |-> state,
                     creator |-> creator, key |-> key, version |-> 0,
                     deleted |-> FALSE]
             ids == DOMAIN expenses \cup {e}
             entry == [type |-> "create", before |-> NoImage, after |-> CreateImage(row)]
  <2>1. row \in Rows
    BY <1>1, BoundsAssumption DEF Rows
  <2>2. entry \in AuditEntries
    BY <2>1, ImageTyped DEF AuditEntries
  <2>3. ids \in SUBSET ExpenseIds
    BY DEF TypeOK
  <2>4. expenses' \in [ids -> Rows] /\ DOMAIN expenses' = ids
    BY <1>1, <2>1 DEF TxCreate, InsertExpense, NewRow, TypeOK
  <2>5. audit' \in [ids -> Seq(AuditEntries)]
    <3>1. <<entry>> \in Seq(AuditEntries)
      BY <2>2
    <3> QED
      BY <1>1, <3>1 DEF TxCreate, InsertExpense, NewRow, TypeOK
  <2> QED
    BY <1>1, <2>3, <2>4, <2>5 DEF TxCreate, InsertExpense, NewRow, TypeOK
<1>2. ASSUME NEW e \in ExpenseIds, NEW version \in 0 .. MaxVersion,
             NEW bill \in Bills, NEW state \in States,
             TxUpdate(e, version, bill, state)
      PROVE  TypeOK'
  <2> DEFINE row == [expenses[e] EXCEPT !.bill = bill, !.state = state,
                                        !.version = version + 1]
             entry == [type |-> "update", before |-> Image(expenses[e]),
                       after |-> Image(row)]
  <2>1. expenses[e] \in Rows /\ version + 1 \in 0 .. MaxVersion /\ e \in DOMAIN expenses
    BY <1>2, BoundsAssumption DEF TxUpdate, Edited, StillAt, TypeOK
  <2>2. row \in Rows
    BY <2>1 DEF Rows
  <2>3. entry \in AuditEntries
    BY <2>1, <2>2, ImageTyped DEF AuditEntries
  <2>4. expenses' \in [DOMAIN expenses -> Rows] /\ DOMAIN expenses' = DOMAIN expenses
    BY <1>2, <2>2 DEF TxUpdate, Edited, TypeOK
  <2>5. audit' \in [DOMAIN expenses -> Seq(AuditEntries)]
    <3>1. Append(audit[e], entry) \in Seq(AuditEntries)
      BY <2>1, <2>3 DEF TypeOK
    <3> QED
      BY <1>2, <3>1 DEF TxUpdate, Edited, TypeOK
  <2> QED
    BY <1>2, <2>4, <2>5 DEF TxUpdate, Edited, TypeOK
<1>3. ASSUME NEW e \in ExpenseIds, NEW version \in 0 .. MaxVersion,
             TxSoftDelete(e, version)
      PROVE  TypeOK'
  <2> DEFINE row == [expenses[e] EXCEPT !.deleted = TRUE, !.version = version + 1]
             entry == [type |-> "delete", before |-> Image(expenses[e]),
                       after |-> NoImage]
  <2>1. expenses[e] \in Rows /\ version + 1 \in 0 .. MaxVersion /\ e \in DOMAIN expenses
    BY <1>3, BoundsAssumption DEF TxSoftDelete, StillAt, TypeOK
  <2>2. row \in Rows
    BY <2>1 DEF Rows
  <2>3. entry \in AuditEntries
    BY <2>1, ImageTyped DEF AuditEntries
  <2>4. expenses' \in [DOMAIN expenses -> Rows] /\ DOMAIN expenses' = DOMAIN expenses
    BY <1>3, <2>2 DEF TxSoftDelete, TypeOK
  <2>5. audit' \in [DOMAIN expenses -> Seq(AuditEntries)]
    <3>1. Append(audit[e], entry) \in Seq(AuditEntries)
      BY <2>1, <2>3 DEF TypeOK
    <3> QED
      BY <1>3, <3>1 DEF TxSoftDelete, TypeOK
  <2> QED
    BY <1>3, <2>4, <2>5 DEF TxSoftDelete, TypeOK
<1> QED
  BY <1>1, <1>2, <1>3 DEF ExpenseStep

LEMMA CycleStepTypeOK == TypeOK /\ CycleStep => TypeOK'
<1> SUFFICES ASSUME TypeOK, CycleStep PROVE TypeOK'
  OBVIOUS
<1>1. ASSUME NEW seen \in ReviewedSets, TxFinalize(seen) PROVE TypeOK'
  <2> DEFINE old == [n \in DOMAIN settlements |->
                        IF settlements[n].status = "active"
                        THEN Superseded(settlements[n])
                        ELSE settlements[n]]
             new == [status |-> "active", transfers |-> Settle(Inventory), paid |-> {}]
  <2>1. new \in Settlements
    BY <1>1, SettleTyped DEF TxFinalize, Settlements
  <2>2. \A n \in DOMAIN settlements : Superseded(settlements[n]) \in Settlements
    BY SettlementTyped DEF Settlements, Superseded
  <2>3. old \in Seq(Settlements)
    BY <2>2 DEF TypeOK
  <2>4. settlements' \in Seq(Settlements)
    BY <1>1, <2>1, <2>3 DEF TxFinalize, SaveSnapshot
  <2> QED
    BY <1>1, <2>4 DEF TxFinalize, TypeOK
<1>2. CASE TxUnlock
  BY <1>2 DEF TxUnlock, TypeOK
<1> QED
  BY <1>1, <1>2 DEF CycleStep

LEMMA PaymentStepTypeOK == TypeOK /\ PaymentStep => TypeOK'
<1> SUFFICES ASSUME TypeOK,
                    NEW n \in DOMAIN settlements,
                    NEW t \in settlements[n].transfers,
                    NEW actor \in Members, NEW role \in {"admin", "member"},
                    TxMarkPaid(n, t, actor, role) \/ TxMarkUnpaid(n, t, actor, role)
             PROVE  TypeOK'
  BY DEF PaymentStep
<1>1. n \in Nat /\ settlements[n] \in Settlements /\ t \in Transfers
  <2>1. n \in Nat /\ settlements[n] \in Settlements
    BY SettlementTyped DEF TypeOK
  <2> QED
    BY <2>1 DEF Settlements
<1>2. \A type \in {"paid", "unpaid"} :
         Append(payments, [version |-> n, transfer |-> t, type |-> type])
            \in Seq(PaymentEvents)
  BY <1>1 DEF TypeOK, PaymentEvents
<1>3. \A paid \in SUBSET Transfers :
         [settlements EXCEPT ![n].paid = paid] \in Seq(Settlements)
  <2> SUFFICES ASSUME NEW paid \in SUBSET Transfers
               PROVE  [settlements EXCEPT ![n].paid = paid] \in Seq(Settlements)
    OBVIOUS
  <2>1. [settlements[n] EXCEPT !.paid = paid] \in Settlements
    BY <1>1 DEF Settlements
  <2> QED
    BY <2>1 DEF TypeOK
<1>4. settlements[n].paid \cup {t} \in SUBSET Transfers
      /\ settlements[n].paid \ {t} \in SUBSET Transfers
  BY <1>1 DEF Settlements
<1>5. CASE TxMarkPaid(n, t, actor, role)
  BY <1>2, <1>3, <1>4, <1>5 DEF RecordPayment, TxMarkPaid, TypeOK
<1>6. CASE TxMarkUnpaid(n, t, actor, role)
  BY <1>2, <1>3, <1>4, <1>6 DEF RecordPayment, TxMarkUnpaid, TypeOK
<1> QED
  BY <1>5, <1>6

LEMMA TripStepTypeOK == TypeOK /\ TripStep => TypeOK'
<1> SUFFICES ASSUME TypeOK, TripStep PROVE TypeOK'
  OBVIOUS
<1>1. ASSUME NEW zone \in Zones, TxUpdateTrip(zone) PROVE TypeOK'
  BY <1>1 DEF TxUpdateTrip, TypeOK
<1>2. ASSUME NEW member \in Members, TxTransferAdmin(member) PROVE TypeOK'
  BY <1>2 DEF TxTransferAdmin, TypeOK
<1>3. ASSUME NEW caller \in Members, TxDeleteTrip(caller) PROVE TypeOK'
  BY <1>3 DEF TxDeleteTrip, TypeOK
<1> QED
  BY <1>1, <1>2, <1>3 DEF TripStep

(* Whatever requests arrive, with whatever they read before, every table   *)
(* holds rows of its schema.                                               *)
THEOREM TypeCorrect == Spec => []TypeOK
<1>1. TypeOK /\ UNCHANGED vars => TypeOK'
  BY DEF vars, TypeOK
<1> QED
  BY InitTypeOK, ExpenseStepTypeOK, CycleStepTypeOK, PaymentStepTypeOK,
     TripStepTypeOK, <1>1, PTL DEF Spec, Next

-----------------------------------------------------------------------------
(* The settlement cycle.  The four parts only hold together: unlock knows  *)
(* that no payment is lost because every payment is in the active snapshot *)
(* and is one it looks at; finalize knows that what it supersedes is       *)
(* unpaid because an open trip has no payments.                            *)
CycleInv ==
    /\ OnlyNewestActive
    /\ SnapshotIsLive
    /\ NoStrandedPayment
    /\ OnlyPayablePaid

LEMMA InitCycleInv == Init => CycleInv
BY DEF Init, CycleInv, OnlyNewestActive, SnapshotIsLive, NoStrandedPayment,
       OnlyPayablePaid

(* A step that keeps the snapshots and the settlement status, and either   *)
(* the expenses too or an open trip, keeps the invariant.                  *)
LEMMA QuietStepCycleInv ==
  ASSUME CycleInv, settlements' = settlements, trip'.status = trip.status,
         expenses' = expenses \/ trip.status = "open"
  PROVE  CycleInv'
<1>1. OnlyNewestActive'
  BY DEF CycleInv, OnlyNewestActive
<1>2. SnapshotIsLive'
  <2>1. CASE expenses' = expenses
    <3>1. Inventory' = Inventory
      BY <2>1 DEF Inventory, Included
    <3>2. ActiveVersions' = ActiveVersions
      BY DEF ActiveVersions
    <3> QED
      BY <3>1, <3>2 DEF CycleInv, SnapshotIsLive
  <2>2. CASE trip.status = "open"
    BY <2>2 DEF SnapshotIsLive
  <2> QED
    BY <2>1, <2>2
<1>3. NoStrandedPayment'
  BY DEF CycleInv, NoStrandedPayment
<1>4. OnlyPayablePaid'
  BY DEF CycleInv, OnlyPayablePaid, PayableIn
<1> QED
  BY <1>1, <1>2, <1>3, <1>4 DEF CycleInv

LEMMA ExpenseStepCycleInv == CycleInv /\ ExpenseStep => CycleInv'
<1> SUFFICES ASSUME CycleInv, ExpenseStep PROVE CycleInv'
  OBVIOUS
<1>1. ASSUME NEW e \in ExpenseIds, NEW creator \in Members, NEW payer \in Members,
             NEW bill \in Bills, NEW state \in States,
             NEW key \in Keys \cup {NoKey}, NEW zone \in Zones,
             TxCreate(e, creator, payer, bill, state, key, zone)
      PROVE  CycleInv'
  BY <1>1, QuietStepCycleInv DEF TxCreate, InsertExpense, NewRow
<1>2. ASSUME NEW e \in ExpenseIds, NEW version \in 0 .. MaxVersion,
             NEW bill \in Bills, NEW state \in States,
             TxUpdate(e, version, bill, state)
      PROVE  CycleInv'
  BY <1>2, QuietStepCycleInv DEF TxUpdate, Edited, StillAt
<1>3. ASSUME NEW e \in ExpenseIds, NEW version \in 0 .. MaxVersion,
             TxSoftDelete(e, version)
      PROVE  CycleInv'
  BY <1>3, QuietStepCycleInv DEF TxSoftDelete, StillAt
<1> QED
  BY <1>1, <1>2, <1>3 DEF ExpenseStep

LEMMA FinalizeCycleInv ==
  ASSUME TypeOK, CycleInv, NEW seen \in ReviewedSets, TxFinalize(seen)
  PROVE  CycleInv'
<1> DEFINE len == Len(settlements)
           new == [status |-> "active", transfers |-> Settle(Inventory), paid |-> {}]
<1>1. len \in Nat /\ DOMAIN settlements = 1 .. len
  BY DEF TypeOK
<1>2. Len(settlements') = len + 1 /\ DOMAIN settlements' = 1 .. len + 1
  BY <1>1 DEF TxFinalize, SaveSnapshot, TypeOK
<1>3. settlements'[len + 1] = new
  BY <1>1 DEF TxFinalize, SaveSnapshot, TypeOK
<1>4. \A n \in 1 .. len :
         settlements'[n] = IF settlements[n].status = "active"
                           THEN Superseded(settlements[n])
                           ELSE settlements[n]
  BY <1>1 DEF TxFinalize, SaveSnapshot, TypeOK
<1>5. \A n \in 1 .. len :
         /\ settlements'[n].status = "superseded"
         /\ settlements'[n].paid = {}
  <2> SUFFICES ASSUME NEW n \in 1 .. len
               PROVE  /\ settlements'[n].status = "superseded"
                      /\ settlements'[n].paid = {}
    OBVIOUS
  <2>1. settlements[n] \in Settlements
    BY <1>1, SettlementTyped
  <2>2. settlements[n].paid = {}
    BY <1>1 DEF CycleInv, NoStrandedPayment, TxFinalize
  <2> QED
    BY <1>4, <2>1, <2>2 DEF Settlements, Superseded
<1>6. trip'.status = "finalized"
  BY DEF TxFinalize, TypeOK
<1>7. OnlyNewestActive'
  BY <1>1, <1>2, <1>3, <1>5 DEF OnlyNewestActive
<1>8. SnapshotIsLive'
  <2>1. Inventory' = Inventory
    BY DEF TxFinalize, Inventory, Included
  <2>2. ActiveVersions' = {len + 1}
    BY <1>1, <1>2, <1>3, <1>5 DEF ActiveVersions
  <2> QED
    BY <1>2, <1>3, <2>1, <2>2 DEF SnapshotIsLive
<1>9. NoStrandedPayment'
  BY <1>1, <1>2, <1>3, <1>5 DEF NoStrandedPayment
<1>10. OnlyPayablePaid'
  BY <1>1, <1>2, <1>3, <1>5 DEF OnlyPayablePaid
<1> QED
  BY <1>7, <1>8, <1>9, <1>10 DEF CycleInv

LEMMA UnlockCycleInv == ASSUME TypeOK, CycleInv, TxUnlock PROVE CycleInv'
<1>1. settlements' = settlements /\ trip'.status = "open"
  BY DEF TxUnlock, TypeOK
<1>2. \A n \in DOMAIN settlements : settlements[n].paid = {}
  <2> SUFFICES ASSUME NEW n \in DOMAIN settlements, settlements[n].paid # {}
               PROVE  FALSE
    OBVIOUS
  <2>1. n = Len(settlements) /\ settlements[n].paid \subseteq PayableIn(n)
    BY DEF CycleInv, NoStrandedPayment, OnlyPayablePaid
  <2>2. n \in ActiveVersions
    BY <2>1 DEF CycleInv, OnlyNewestActive, ActiveVersions
  <2> QED
    BY <2>1, <2>2 DEF TxUnlock
<1> QED
  BY <1>1, <1>2 DEF CycleInv, OnlyNewestActive, SnapshotIsLive,
                    NoStrandedPayment, OnlyPayablePaid, PayableIn

LEMMA PaymentStepCycleInv == TypeOK /\ CycleInv /\ PaymentStep => CycleInv'
<1> SUFFICES ASSUME TypeOK, CycleInv,
                    NEW n \in DOMAIN settlements,
                    NEW t \in settlements[n].transfers,
                    NEW actor \in Members, NEW role \in {"admin", "member"},
                    TxMarkPaid(n, t, actor, role) \/ TxMarkUnpaid(n, t, actor, role)
             PROVE  CycleInv'
  BY DEF PaymentStep
<1>1. /\ trip.status = "finalized" /\ trip' = trip /\ expenses' = expenses
      /\ n = Len(settlements) /\ t \in PayableIn(n)
  BY DEF RecordPayment, TxMarkPaid, TxMarkUnpaid, ActiveVersions, CycleInv, OnlyNewestActive
<1>2. PICK paid : /\ paid \subseteq settlements[n].paid \cup {t}
                  /\ settlements' = [settlements EXCEPT ![n].paid = paid]
  <2>1. CASE TxMarkPaid(n, t, actor, role)
    BY <2>1 DEF RecordPayment, TxMarkPaid
  <2>2. CASE TxMarkUnpaid(n, t, actor, role)
    BY <2>2 DEF RecordPayment, TxMarkUnpaid
  <2> QED
    BY <2>1, <2>2
<1>3. DOMAIN settlements' = DOMAIN settlements /\ Len(settlements') = Len(settlements)
  BY <1>2 DEF TypeOK
<1>4. \A m \in DOMAIN settlements :
         /\ settlements'[m].status = settlements[m].status
         /\ settlements'[m].transfers = settlements[m].transfers
         /\ m # n => settlements'[m].paid = settlements[m].paid
  <2> SUFFICES ASSUME NEW m \in DOMAIN settlements
               PROVE  /\ settlements'[m].status = settlements[m].status
                      /\ settlements'[m].transfers = settlements[m].transfers
                      /\ m # n => settlements'[m].paid = settlements[m].paid
    OBVIOUS
  <2>1. settlements[m] \in Settlements
    BY SettlementTyped
  <2> QED
    BY <1>2, <2>1 DEF Settlements, TypeOK
<1>5. settlements'[n].paid = paid
  <2>1. settlements[n] \in Settlements
    BY SettlementTyped
  <2> QED
    BY <1>2, <2>1 DEF Settlements, TypeOK
<1>6. OnlyNewestActive'
  BY <1>3, <1>4 DEF CycleInv, OnlyNewestActive
<1>7. SnapshotIsLive'
  <2>1. Inventory' = Inventory
    BY <1>1 DEF Inventory, Included
  <2>2. ActiveVersions' = ActiveVersions
    BY <1>3, <1>4 DEF ActiveVersions
  <2> QED
    BY <1>1, <1>3, <1>4, <2>1, <2>2 DEF CycleInv, SnapshotIsLive
<1>8. NoStrandedPayment'
  BY <1>1, <1>3, <1>4 DEF CycleInv, NoStrandedPayment
<1>9. OnlyPayablePaid'
  <2>1. \A m \in DOMAIN settlements : PayableIn(m)' = PayableIn(m)
    BY <1>4 DEF PayableIn
  <2>2. paid \subseteq PayableIn(n)
    BY <1>1, <1>2 DEF CycleInv, OnlyPayablePaid
  <2> QED
    BY <1>3, <1>4, <1>5, <2>1, <2>2 DEF CycleInv, OnlyPayablePaid
<1> QED
  BY <1>6, <1>7, <1>8, <1>9 DEF CycleInv

LEMMA TripStepCycleInv == TypeOK /\ CycleInv /\ TripStep => CycleInv'
<1> SUFFICES ASSUME TypeOK, CycleInv, TripStep PROVE CycleInv'
  OBVIOUS
<1>1. ASSUME NEW zone \in Zones, TxUpdateTrip(zone) PROVE CycleInv'
  BY <1>1, QuietStepCycleInv DEF TxUpdateTrip, TypeOK
<1>2. ASSUME NEW member \in Members, TxTransferAdmin(member) PROVE CycleInv'
  BY <1>2, QuietStepCycleInv DEF TxTransferAdmin
<1>3. ASSUME NEW caller \in Members, TxDeleteTrip(caller) PROVE CycleInv'
  BY <1>3 DEF TxDeleteTrip, TypeOK, CycleInv, OnlyNewestActive, SnapshotIsLive,
              NoStrandedPayment, OnlyPayablePaid
<1> QED
  BY <1>1, <1>2, <1>3 DEF TripStep

LEMMA CycleInvariant == Spec => []CycleInv
<1>1. CycleInv /\ UNCHANGED vars => CycleInv'
  BY QuietStepCycleInv DEF vars
<1>2. TypeOK /\ CycleInv /\ CycleStep => CycleInv'
  BY FinalizeCycleInv, UnlockCycleInv DEF CycleStep
<1> QED
  BY InitCycleInv, ExpenseStepCycleInv, <1>2, PaymentStepCycleInv,
     TripStepCycleInv, <1>1, TypeCorrect, PTL DEF Spec, Next

(* However requests interleave, no recorded payment is left behind in a    *)
(* snapshot that is superseded or reopened: unlock refuses.                *)
THEOREM PaymentsNeverStranded == Spec => []NoStrandedPayment
<1>1. CycleInv => NoStrandedPayment
  BY DEF CycleInv
<1> QED
  BY <1>1, CycleInvariant, PTL

(* While a trip is finalized its snapshot equals the live computation over *)
(* its expenses, whatever edits were in flight when it was finalized.      *)
THEOREM FinalizedIsLive == Spec => []SnapshotIsLive
<1>1. CycleInv => SnapshotIsLive
  BY DEF CycleInv
<1> QED
  BY <1>1, CycleInvariant, PTL

(* At most one settlement of a trip is active, and it is the newest: the   *)
(* partial unique index uq_settlement_active never fires.                  *)
THEOREM NewestIsActive == Spec => []OnlyNewestActive
<1>1. CycleInv => OnlyNewestActive
  BY DEF CycleInv
<1> QED
  BY <1>1, CycleInvariant, PTL

-----------------------------------------------------------------------------
(* The refinement of SettlementCycle: one lemma per group of steps.        *)
LEMMA InitImplements == Init => Cycle!Init
<1> SUFFICES ASSUME Init PROVE Cycle!Init
  OBVIOUS
<1>1. Inventory \in Inventories
  BY InitTypeOK, InventoryTyped
<1>2. DOMAIN Inventory = {}
  BY DEF Init, Inventory, Included
<1> QED
  BY <1>1, <1>2 DEF Init, Cycle!Init, CurrentPlan, CurrentlyPaid

(* Steps under an open trip that keep it open are changes of the bills.    *)
LEMMA OpenStepImplements ==
  ASSUME TypeOK', trip.status = "open", trip'.status = "open"
  PROVE  Cycle!Next
<1>1. Inventory' \in Inventories
  BY InventoryStaysTyped DEF Inventories, Charges
<1> QED
  BY <1>1 DEF Cycle!Next, Cycle!ChangeBills, CurrentPlan, CurrentlyPaid

(* Steps that keep the trip's status, its expenses and its snapshots are   *)
(* not visible.                                                            *)
LEMMA QuietStepImplements ==
  ASSUME trip'.status = trip.status, expenses' = expenses,
         settlements' = settlements
  PROVE  UNCHANGED Cycle!vars
<1>1. Inventory' = Inventory
  BY DEF Inventory, Included
<1> QED
  BY <1>1 DEF Cycle!vars, CurrentPlan, CurrentlyPaid, PayableIn

LEMMA ExpenseStepImplements == TypeOK' /\ ExpenseStep => Cycle!Next
<1> SUFFICES ASSUME TypeOK', ExpenseStep PROVE Cycle!Next
  OBVIOUS
<1>1. ASSUME NEW e \in ExpenseIds, NEW creator \in Members, NEW payer \in Members,
             NEW bill \in Bills, NEW state \in States,
             NEW key \in Keys \cup {NoKey}, NEW zone \in Zones,
             TxCreate(e, creator, payer, bill, state, key, zone)
      PROVE  Cycle!Next
  BY <1>1, OpenStepImplements DEF TxCreate, InsertExpense, NewRow
<1>2. ASSUME NEW e \in ExpenseIds, NEW version \in 0 .. MaxVersion,
             NEW bill \in Bills, NEW state \in States,
             TxUpdate(e, version, bill, state)
      PROVE  Cycle!Next
  BY <1>2, OpenStepImplements DEF TxUpdate, Edited, StillAt
<1>3. ASSUME NEW e \in ExpenseIds, NEW version \in 0 .. MaxVersion,
             TxSoftDelete(e, version)
      PROVE  Cycle!Next
  BY <1>3, OpenStepImplements DEF TxSoftDelete, StillAt
<1> QED
  BY <1>1, <1>2, <1>3 DEF ExpenseStep

LEMMA FinalizeImplements ==
  ASSUME TypeOK, NEW seen \in ReviewedSets, TxFinalize(seen)
  PROVE  Cycle!Next
<1>1. /\ trip.status = "open" /\ trip'.status = "finalized"
      /\ DOMAIN Inventory # {} /\ Inventory' = Inventory
  BY DEF TxFinalize, TypeOK, Inventory, Included
<1>2. Len(settlements') = Len(settlements) + 1
  BY DEF TxFinalize, SaveSnapshot, TypeOK
<1>3. settlements'[Len(settlements) + 1] =
         [status |-> "active", transfers |-> Settle(Inventory), paid |-> {}]
  BY DEF TxFinalize, SaveSnapshot, TypeOK
<1>4. CurrentPlan' = PlanFor(Inventory) /\ CurrentlyPaid' = CurrentlyPaid
  BY <1>1, <1>2, <1>3 DEF CurrentPlan, CurrentlyPaid, PayableIn, PlanFor
<1> QED
  BY <1>1, <1>4 DEF Cycle!Next, Cycle!Finalize

LEMMA UnlockImplements == ASSUME TypeOK, CycleInv, TxUnlock PROVE Cycle!Next
<1>1. trip.status = "finalized" /\ trip'.status = "open" /\ Inventory' = Inventory
  BY DEF TxUnlock, TypeOK, Inventory, Included
<1>2. Len(settlements) \in ActiveVersions
  BY <1>1 DEF CycleInv, SnapshotIsLive
<1>3. CurrentlyPaid = {}
  BY <1>1, <1>2 DEF TxUnlock, CycleInv, OnlyPayablePaid, ActiveVersions, CurrentlyPaid
<1> QED
  BY <1>1, <1>3 DEF Cycle!Next, Cycle!Reopen, CurrentPlan, CurrentlyPaid

LEMMA PaymentStepImplements == TypeOK /\ CycleInv /\ PaymentStep => Cycle!Next
<1> SUFFICES ASSUME TypeOK, CycleInv,
                    NEW n \in DOMAIN settlements,
                    NEW t \in settlements[n].transfers,
                    NEW actor \in Members, NEW role \in {"admin", "member"},
                    TxMarkPaid(n, t, actor, role) \/ TxMarkUnpaid(n, t, actor, role)
             PROVE  Cycle!Next
  BY DEF PaymentStep
<1>1. /\ trip.status = "finalized" /\ trip' = trip /\ expenses' = expenses
      /\ n = Len(settlements) /\ t \in PayableIn(n)
  BY DEF RecordPayment, TxMarkPaid, TxMarkUnpaid, ActiveVersions, CycleInv, OnlyNewestActive
<1>2. Inventory' = Inventory
  BY <1>1 DEF Inventory, Included
<1>3. settlements[n] \in Settlements
  BY SettlementTyped
<1>4. CASE TxMarkPaid(n, t, actor, role)
  <2>1. /\ Len(settlements') = n
        /\ settlements'[n].transfers = settlements[n].transfers
        /\ settlements'[n].paid = settlements[n].paid \cup {t}
    BY <1>1, <1>3, <1>4 DEF RecordPayment, TxMarkPaid, TypeOK, Settlements
  <2>2. CurrentPlan' = CurrentPlan /\ CurrentlyPaid' = CurrentlyPaid \cup {t}
    BY <1>1, <2>1 DEF CurrentPlan, CurrentlyPaid, PayableIn
  <2>3. t \in CurrentPlan \ CurrentlyPaid
    BY <1>1, <1>4 DEF RecordPayment, TxMarkPaid, CurrentPlan, CurrentlyPaid
  <2> QED
    BY <1>1, <1>2, <2>2, <2>3 DEF Cycle!Next, Cycle!Pay
<1>5. CASE TxMarkUnpaid(n, t, actor, role)
  <2>1. /\ Len(settlements') = n
        /\ settlements'[n].transfers = settlements[n].transfers
        /\ settlements'[n].paid = settlements[n].paid \ {t}
    BY <1>1, <1>3, <1>5 DEF RecordPayment, TxMarkUnpaid, TypeOK, Settlements
  <2>2. CurrentPlan' = CurrentPlan /\ CurrentlyPaid' = CurrentlyPaid \ {t}
    BY <1>1, <2>1 DEF CurrentPlan, CurrentlyPaid, PayableIn
  <2>3. t \in CurrentlyPaid /\ t \in CurrentPlan
    BY <1>1, <1>5 DEF RecordPayment, TxMarkUnpaid, CurrentPlan, CurrentlyPaid
  <2> QED
    BY <1>1, <1>2, <2>2, <2>3 DEF Cycle!Next, Cycle!TakeBack
<1> QED
  BY <1>4, <1>5

LEMMA TripStepImplements ==
  TypeOK /\ TypeOK' /\ TripStep => Cycle!Next \/ UNCHANGED Cycle!vars
<1> SUFFICES ASSUME TypeOK, TypeOK', TripStep
             PROVE  Cycle!Next \/ UNCHANGED Cycle!vars
  OBVIOUS
<1>1. ASSUME NEW zone \in Zones, TxUpdateTrip(zone) PROVE UNCHANGED Cycle!vars
  BY <1>1, QuietStepImplements DEF TxUpdateTrip, TypeOK
<1>2. ASSUME NEW member \in Members, TxTransferAdmin(member) PROVE UNCHANGED Cycle!vars
  BY <1>2, QuietStepImplements DEF TxTransferAdmin
<1>3. ASSUME NEW caller \in Members, TxDeleteTrip(caller) PROVE Cycle!Next
  <2>1. trip.status # "deleted" /\ trip'.status = "deleted"
    BY <1>3 DEF TxDeleteTrip, TypeOK
  <2>2. Inventory' \in Inventories
    BY InventoryStaysTyped DEF Inventories, Charges
  <2>3. DOMAIN Inventory' = {}
    BY <1>3 DEF TxDeleteTrip, Inventory, Included
  <2> QED
    BY <2>1, <2>2, <2>3 DEF Cycle!Next, Cycle!Delete, CurrentPlan, CurrentlyPaid
<1> QED
  BY <1>1, <1>2, <1>3 DEF TripStep

(* The transactions of a trip implement the settlement cycle promised to   *)
(* its members, for any number of concurrent and stale requests.           *)
THEOREM LedgerImplementsCycle == Spec => ImplementsCycle
<1>1. TypeOK /\ TypeOK' /\ CycleInv /\ [Next]_vars => [Cycle!Next]_(Cycle!vars)
  <2> SUFFICES ASSUME TypeOK, TypeOK', CycleInv, [Next]_vars
               PROVE  Cycle!Next \/ UNCHANGED Cycle!vars
    OBVIOUS
  <2>1. CASE ExpenseStep
    BY <2>1, ExpenseStepImplements
  <2>2. CASE CycleStep
    BY <2>2, FinalizeImplements, UnlockImplements DEF CycleStep
  <2>3. CASE PaymentStep
    BY <2>3, PaymentStepImplements
  <2>4. CASE TripStep
    BY <2>4, TripStepImplements
  <2>5. CASE UNCHANGED vars
    BY <2>5, QuietStepImplements DEF vars
  <2> QED
    BY <2>1, <2>2, <2>3, <2>4, <2>5 DEF Next
<1> QED
  BY InitImplements, <1>1, TypeCorrect, CycleInvariant, PTL
     DEF Spec, ImplementsCycle, Cycle!Spec

-----------------------------------------------------------------------------
(* The audit trail, row by row.                                            *)
Replays(row, log) ==
    /\ Len(log) = row.version + 1
    /\ log[1].before = NoImage
    /\ \A i \in 1 .. Len(log) - 1 :
          /\ log[i + 1].before.version = i - 1
          /\ AgreeAt(i, log[i].after, log[i + 1].before)
    /\ IF row.deleted THEN log[Len(log)].after = NoImage
       ELSE AgreeAt(Len(log), log[Len(log)].after, Image(row))

LEMMA ReplaysAll ==
  AuditReplays <=> \A e \in DOMAIN expenses : Replays(expenses[e], audit[e])
BY DEF AuditReplays, Replays

(* What create logs and the image of the row it inserted agree.            *)
LEMMA CreationAgrees == ASSUME NEW row PROVE AgreeAt(1, CreateImage(row), Image(row))
<1>1. CreateCols \subseteq COLS
  BY DEF CreateCols, COLS
<1>2. Quoted(Quoted(row.bill, COLS), CreateCols) = Quoted(row.bill, CreateCols)
  BY <1>1 DEF Quoted, Restrict
<1> QED
  BY <1>2 DEF AgreeAt, CreateImage, Image

(* An entry that starts where the log ends prolongs it.                    *)
LEMMA LongerReplay ==
  ASSUME NEW row, row.version \in Nat, ~row.deleted, NEW log \in Seq(AuditEntries),
         Replays(row, log), NEW entry \in AuditEntries, entry.before = Image(row),
         NEW new, new.version = row.version + 1,
         entry.after = IF new.deleted THEN NoImage ELSE Image(new)
  PROVE  Replays(new, Append(log, entry))
<1> DEFINE len == Len(log)
           more == Append(log, entry)
           Joins(i) == /\ more[i + 1].before.version = i - 1
                       /\ AgreeAt(i, more[i].after, more[i + 1].before)
<1>1. len \in Nat /\ len = row.version + 1 /\ len >= 1
  BY DEF Replays
<1>2. Len(more) = len + 1 /\ more[len + 1] = entry /\ \A i \in 1 .. len : more[i] = log[i]
  OBVIOUS
<1>3. ASSUME NEW i \in 1 .. len PROVE Joins(i)
  <2>1. CASE i = len
    <3>1. entry.before.version = i - 1
      BY <1>1, <2>1 DEF Image
    <3>2. AgreeAt(i, log[i].after, entry.before)
      BY <2>1 DEF Replays
    <3> QED
      BY <1>2, <2>1, <3>1, <3>2
  <2>2. CASE i # len
    <3>1. i \in 1 .. len - 1 /\ i + 1 \in 1 .. len
      BY <1>1, <2>2
    <3>2. log[i + 1].before.version = i - 1 /\ AgreeAt(i, log[i].after, log[i + 1].before)
      BY <3>1 DEF Replays
    <3> QED
      BY <1>2, <3>1, <3>2
  <2> QED
    BY <2>1, <2>2
<1>4. more[1].before = NoImage
  BY <1>1, <1>2 DEF Replays
<1>5. Len(more) = new.version + 1 /\ Len(more) - 1 = len
  BY <1>1, <1>2
<1>6. IF new.deleted THEN more[Len(more)].after = NoImage
      ELSE AgreeAt(Len(more), more[Len(more)].after, Image(new))
  BY <1>1, <1>2 DEF AgreeAt
<1>7. \A i \in 1 .. Len(more) - 1 : Joins(i)
  BY <1>3, <1>5
<1> QED
  BY <1>4, <1>5, <1>6, <1>7, Zenon DEF Replays

LEMMA ExpenseStepReplays == TypeOK /\ AuditReplays /\ ExpenseStep => AuditReplays'
<1> SUFFICES ASSUME TypeOK, AuditReplays, ExpenseStep PROVE AuditReplays'
  OBVIOUS
<1> DEFINE ReplaysNow == \A e \in DOMAIN expenses' : Replays(expenses'[e], audit'[e])
<1>1. ASSUME NEW e \in ExpenseIds, NEW creator \in Members, NEW payer \in Members,
             NEW bill \in Bills, NEW state \in States,
             NEW key \in Keys \cup {NoKey}, NEW zone \in Zones,
             TxCreate(e, creator, payer, bill, state, key, zone)
      PROVE  ReplaysNow
  <2> DEFINE row == NewRow(creator, payer, bill, state, key)
             entry == [type |-> "create", before |-> NoImage, after |-> CreateImage(row)]
  <2>1. Replays(row, <<entry>>)
    <3>1. row.version = 0 /\ ~row.deleted
      BY DEF NewRow
    <3>2. Len(<<entry>>) = 1 /\ <<entry>>[1] = entry
      OBVIOUS
    <3> HIDE DEF row
    <3> QED
      BY <3>1, <3>2, CreationAgrees DEF Replays
  <2>2. /\ DOMAIN expenses' = DOMAIN expenses \cup {e}
        /\ expenses'[e] = row /\ audit'[e] = <<entry>>
        /\ \A d \in DOMAIN expenses : expenses'[d] = expenses[d] /\ audit'[d] = audit[d]
    BY <1>1 DEF TxCreate, InsertExpense
  <2> QED
    BY <2>1, <2>2, ReplaysAll
<1>2. ASSUME NEW e \in ExpenseIds, NEW version \in 0 .. MaxVersion,
             NEW row, NEW entry \in AuditEntries, StillAt(e, version),
             row.version = version + 1, entry.before = Image(expenses[e]),
             entry.after = IF row.deleted THEN NoImage ELSE Image(row),
             expenses' = [expenses EXCEPT ![e] = row],
             audit' = [audit EXCEPT ![e] = Append(audit[e], entry)]
      PROVE  ReplaysNow
  <2>1. /\ e \in DOMAIN expenses /\ expenses[e].version = version
        /\ version \in Nat /\ ~expenses[e].deleted
        /\ audit[e] \in Seq(AuditEntries)
    BY <1>2, BoundsAssumption DEF StillAt, TypeOK
  <2>2. Replays(expenses[e], audit[e])
    BY <2>1, ReplaysAll
  <2>3. Replays(row, Append(audit[e], entry))
    BY <1>2, <2>1, <2>2, LongerReplay
  <2>4. /\ DOMAIN expenses' = DOMAIN expenses
        /\ expenses'[e] = row /\ audit'[e] = Append(audit[e], entry)
        /\ \A d \in DOMAIN expenses : d # e =>
              expenses'[d] = expenses[d] /\ audit'[d] = audit[d]
    BY <1>2, <2>1 DEF TypeOK
  <2> QED
    BY <2>3, <2>4, ReplaysAll
<1>3. ASSUME NEW e \in ExpenseIds, NEW version \in 0 .. MaxVersion,
             NEW bill \in Bills, NEW state \in States,
             TxUpdate(e, version, bill, state)
      PROVE  ReplaysNow
  <2> DEFINE row == Edited(e, version, bill, state)
             entry == [type |-> "update", before |-> Image(expenses[e]), after |-> Image(row)]
  <2>1. StillAt(e, version) /\ version < MaxVersion /\ expenses[e] \in Rows
        /\ ~expenses[e].deleted
    BY <1>3 DEF TxUpdate, StillAt, TypeOK
  <2>2. row \in Rows /\ row.version = version + 1 /\ ~row.deleted
    <3>1. version + 1 \in 0 .. MaxVersion
      BY <2>1, BoundsAssumption
    <3> QED
      BY <2>1, <3>1 DEF Rows, Edited
  <2>3. entry \in AuditEntries
    BY <2>1, <2>2, ImageTyped DEF AuditEntries
  <2>4. /\ expenses' = [expenses EXCEPT ![e] = row]
        /\ audit' = [audit EXCEPT ![e] = Append(audit[e], entry)]
    BY <1>3 DEF TxUpdate
  <2> HIDE DEF row
  <2> QED
    BY <1>2, <2>1, <2>2, <2>3, <2>4
<1>4. ASSUME NEW e \in ExpenseIds, NEW version \in 0 .. MaxVersion,
             TxSoftDelete(e, version)
      PROVE  ReplaysNow
  <2> DEFINE row == [expenses[e] EXCEPT !.deleted = TRUE, !.version = version + 1]
             entry == [type |-> "delete", before |-> Image(expenses[e]), after |-> NoImage]
  <2>1. StillAt(e, version) /\ version < MaxVersion /\ expenses[e] \in Rows
    BY <1>4 DEF TxSoftDelete, StillAt, TypeOK
  <2>2. row.version = version + 1 /\ row.deleted
    BY <2>1 DEF Rows
  <2>3. entry \in AuditEntries
    BY <2>1, ImageTyped DEF AuditEntries
  <2>4. /\ expenses' = [expenses EXCEPT ![e] = row]
        /\ audit' = [audit EXCEPT ![e] = Append(audit[e], entry)]
    BY <1>4 DEF TxSoftDelete
  <2> HIDE DEF row
  <2> QED
    BY <1>2, <2>1, <2>2, <2>3, <2>4
<1>5. ReplaysNow
  BY <1>1, <1>3, <1>4 DEF ExpenseStep
<1> QED
  BY <1>5 DEF AuditReplays, Replays

(* Whatever edits and deletions race for a row, its audit entries replay   *)
(* to it as far as they quote it: none is missing, doubled or out of       *)
(* place, and none was taken of another version than it says.              *)
THEOREM AuditIsComplete == Spec => []AuditReplays
<1>1. Init => AuditReplays
  BY DEF Init, AuditReplays
<1>2. TypeOK /\ AuditReplays /\ ~ExpenseStep /\ [Next]_vars => AuditReplays'
  <2> SUFFICES ASSUME AuditReplays, (expenses' = expenses /\ audit' = audit)
                                    \/ DOMAIN expenses' = {}
               PROVE  AuditReplays'
    BY DEF Next, CycleStep, TxFinalize, TxUnlock, PaymentStep, TxMarkPaid, TxMarkUnpaid,
           RecordPayment, TripStep, TxUpdateTrip, TxTransferAdmin, TxDeleteTrip, vars
  <2> QED
    BY DEF AuditReplays
<1> QED
  BY <1>1, <1>2, ExpenseStepReplays, TypeCorrect, PTL DEF Spec, Next

(* A creation retried with its key never leaves a second live expense.     *)
THEOREM RetriesAreHarmless == Spec => []OneLivePerKey
<1>1. Init => OneLivePerKey
  BY DEF Init, OneLivePerKey
<1>2. ASSUME TypeOK, OneLivePerKey, NEW e \in ExpenseIds,
             NEW creator \in Members, NEW payer \in Members, NEW bill \in Bills,
             NEW state \in States, NEW key \in Keys \cup {NoKey}, NEW zone \in Zones,
             TxCreate(e, creator, payer, bill, state, key, zone)
      PROVE  OneLivePerKey'
  <2>1. /\ DOMAIN expenses' = DOMAIN expenses \cup {e}
        /\ expenses'[e].key = key /\ expenses'[e].creator = creator
        /\ \A d \in DOMAIN expenses : d # e /\ expenses'[d] = expenses[d]
    BY <1>2 DEF TxCreate, InsertExpense, NewRow
  <2>2. key # NoKey => \A d \in DOMAIN expenses :
           ~(~expenses[d].deleted /\ expenses[d].creator = creator /\ expenses[d].key = key)
    BY <1>2 DEF TxCreate, LiveWithKey
  <2> QED
    BY <1>2, <2>1, <2>2 DEF OneLivePerKey
<1>3. ASSUME OneLivePerKey, DOMAIN expenses' \subseteq DOMAIN expenses,
             \A e \in DOMAIN expenses' :
                /\ expenses'[e].key = expenses[e].key
                /\ expenses'[e].creator = expenses[e].creator
                /\ ~expenses'[e].deleted => ~expenses[e].deleted
      PROVE  OneLivePerKey'
  BY <1>3 DEF OneLivePerKey
<1>4. ASSUME TypeOK, OneLivePerKey, NEW e \in ExpenseIds, NEW version \in 0 .. MaxVersion,
             \/ TxSoftDelete(e, version)
             \/ \E bill \in Bills, state \in States : TxUpdate(e, version, bill, state)
      PROVE  OneLivePerKey'
  <2>1. e \in DOMAIN expenses /\ expenses[e] \in Rows /\ ~expenses[e].deleted
    BY <1>4 DEF TxSoftDelete, TxUpdate, StillAt, TypeOK
  <2>2. /\ DOMAIN expenses' = DOMAIN expenses
        /\ \A d \in DOMAIN expenses : d # e => expenses'[d] = expenses[d]
    BY <1>4 DEF TxSoftDelete, TxUpdate
  <2>3. expenses'[e].key = expenses[e].key /\ expenses'[e].creator = expenses[e].creator
    <3>1. CASE TxSoftDelete(e, version)
      BY <2>1, <3>1 DEF TxSoftDelete, Rows
    <3>2. ASSUME NEW bill \in Bills, NEW state \in States, TxUpdate(e, version, bill, state)
          PROVE  expenses'[e].key = expenses[e].key /\ expenses'[e].creator = expenses[e].creator
      BY <2>1, <3>2 DEF TxUpdate, Edited, Rows
    <3> QED
      BY <1>4, <3>1, <3>2
  <2> QED
    BY <1>3, <1>4, <2>1, <2>2, <2>3
<1>5. TypeOK /\ OneLivePerKey /\ [Next]_vars => OneLivePerKey'
  <2> SUFFICES ASSUME TypeOK, OneLivePerKey, [Next]_vars PROVE OneLivePerKey'
    OBVIOUS
  <2>1. CASE ExpenseStep
    BY <1>2, <1>4, <2>1 DEF ExpenseStep
  <2>2. CASE ~ExpenseStep
    BY <1>3, <2>2 DEF Next, CycleStep, TxFinalize, TxUnlock, PaymentStep, TxMarkPaid,
           TxMarkUnpaid, RecordPayment, TripStep, TxUpdateTrip, TxTransferAdmin,
           TxDeleteTrip, vars
  <2> QED
    BY <2>1, <2>2
<1> QED
  BY <1>1, <1>5, TypeCorrect, PTL DEF Spec

-----------------------------------------------------------------------------
(* The payment log.  A new snapshot starts without events because no event *)
(* is about a version that does not exist yet.                             *)
EventsKnown == \A i \in DOMAIN payments : payments[i].version \in DOMAIN settlements

(* An event that says the opposite of the payment column is recorded.      *)
LEMMA RecordedPaymentExplained ==
  ASSUME TypeOK, LogExplainsPayments, EventsKnown,
         NEW n \in DOMAIN settlements, NEW t \in settlements[n].transfers,
         NEW type \in {"paid", "unpaid"}, RecordPayment(n, t, type),
         type = "paid" <=> t \notin settlements[n].paid
  PROVE  (LogExplainsPayments /\ EventsKnown)'
<1> DEFINE event == [version |-> n, transfer |-> t, type |-> type]
<1>1. PICK len \in Nat : len = Len(payments) /\ DOMAIN payments = 1 .. len
  <2>1. Len(payments) \in Nat /\ DOMAIN payments = 1 .. Len(payments)
    BY DEF TypeOK
  <2> QED
    BY <2>1
<1>2. /\ DOMAIN payments' = 1 .. len + 1
      /\ payments'[len + 1] = event
      /\ \A i \in 1 .. len : payments'[i] = payments[i]
  <2>1. payments' = Append(payments, event) /\ payments \in Seq(PaymentEvents)
    BY DEF RecordPayment, TypeOK
  <2> QED
    BY <1>1, <2>1
<1>3. /\ DOMAIN settlements' = DOMAIN settlements
      /\ \A m \in DOMAIN settlements :
            /\ settlements'[m].transfers = settlements[m].transfers
            /\ m # n => settlements'[m].paid = settlements[m].paid
      /\ settlements'[n].paid = IF type = "paid" THEN settlements[n].paid \cup {t}
                                                 ELSE settlements[n].paid \ {t}
  <2>1. \A m \in DOMAIN settlements : settlements[m] \in Settlements
    BY SettlementTyped
  <2> QED
    BY <2>1 DEF RecordPayment, TypeOK, Settlements
<1>4. EventsKnown'
  BY <1>1, <1>2, <1>3 DEF EventsKnown
<1>5. ASSUME NEW m \in DOMAIN settlements, NEW u \in settlements[m].transfers
      PROVE  u \in settlements'[m].paid <=>
                \E i \in DOMAIN payments' :
                   LastAbout(i, m, u)' /\ payments'[i].type = "paid"
  <2>1. CASE m = n /\ u = t
    <3>1. \A i \in DOMAIN payments' : LastAbout(i, m, u)' <=> i = len + 1
      BY <1>1, <1>2, <2>1 DEF LastAbout, About
    <3> QED
      BY <1>1, <1>2, <1>3, <2>1, <3>1
  <2>2. CASE ~(m = n /\ u = t)
    <3>1. \A i \in 1 .. len : LastAbout(i, m, u)' <=> LastAbout(i, m, u)
      <4> SUFFICES ASSUME NEW i \in 1 .. len
                   PROVE  LastAbout(i, m, u)' <=> LastAbout(i, m, u)
        OBVIOUS
      <4>1. \A j \in 1 .. len :
               (payments'[j].version = m /\ payments'[j].transfer = u)
                  <=> (payments[j].version = m /\ payments[j].transfer = u)
        BY <1>2
      <4>2. ~(payments'[len + 1].version = m /\ payments'[len + 1].transfer = u)
        BY <1>2, <2>2
      <4>3. \A j \in 1 .. len + 1 : j \in 1 .. len \/ j = len + 1
        OBVIOUS
      <4> QED
        BY <1>1, <1>2, <4>1, <4>2, <4>3 DEF LastAbout, About
    <3>2. ~LastAbout(len + 1, m, u)'
      BY <1>2, <2>2 DEF LastAbout, About
    <3>3. u \in settlements'[m].paid <=> u \in settlements[m].paid
      BY <1>3, <2>2
    <3>4. u \in settlements[m].paid <=>
             \E i \in 1 .. len : LastAbout(i, m, u) /\ payments[i].type = "paid"
      BY <1>1 DEF LogExplainsPayments
    <3> QED
      BY <1>1, <1>2, <3>1, <3>2, <3>3, <3>4
  <2> QED
    BY <2>1, <2>2
<1>6. ASSUME NEW i \in DOMAIN payments', NEW j \in DOMAIN payments', i < j,
             About(j, payments[i].version, payments[i].transfer)',
             \A k \in i + 1 .. j - 1 :
                ~About(k, payments[i].version, payments[i].transfer)'
      PROVE  payments'[i].type # payments'[j].type
  <2>1. i \in 1 .. len
    BY <1>1, <1>2, <1>6
  <2>2. CASE j \in 1 .. len
    <3>1. /\ payments'[i] = payments[i] /\ payments'[j] = payments[j]
          /\ \A k \in i + 1 .. j - 1 : k \in 1 .. len /\ payments'[k] = payments[k]
      BY <1>1, <1>2, <2>1, <2>2
    <3>2. /\ About(j, payments[i].version, payments[i].transfer)
          /\ \A k \in i + 1 .. j - 1 :
                ~About(k, payments[i].version, payments[i].transfer)
      BY <1>6, <3>1 DEF About
    <3>3. payments[i].type # payments[j].type
      BY <1>1, <1>6, <2>1, <2>2, <3>2 DEF LogExplainsPayments
    <3> QED
      BY <3>1, <3>3
  <2>3. CASE j = len + 1
    <3>1. payments[i].version = n /\ payments[i].transfer = t
      BY <1>2, <1>6, <2>1, <2>3 DEF About
    <3>2. LastAbout(i, n, t)
      BY <1>1, <1>2, <1>6, <2>1, <2>3, <3>1 DEF LastAbout, About
    <3>3. \A d \in 1 .. len : LastAbout(d, n, t) => d = i
      BY <1>1, <2>1, <3>1, <3>2 DEF LastAbout, About
    <3>4. t \in settlements[n].paid <=> payments[i].type = "paid"
      BY <1>1, <2>1, <3>2, <3>3 DEF LogExplainsPayments
    <3>5. payments[i].type \in {"paid", "unpaid"}
      <4>1. payments \in Seq(PaymentEvents)
        BY DEF TypeOK
      <4>2. payments[i] \in PaymentEvents
        BY <1>1, <2>1, <4>1
      <4> QED
        BY <4>2 DEF PaymentEvents
    <3> QED
      BY <1>2, <2>1, <2>3, <3>4, <3>5
  <2> QED
    BY <1>1, <1>2, <2>2, <2>3
<1>7. LogExplainsPayments'
  BY <1>3, <1>5, <1>6 DEF LogExplainsPayments
<1> QED
  BY <1>4, <1>7

LEMMA FinalizeExplained ==
  ASSUME TypeOK, LogExplainsPayments, EventsKnown, NEW seen \in ReviewedSets,
         TxFinalize(seen)
  PROVE  (LogExplainsPayments /\ EventsKnown)'
<1> DEFINE len == Len(settlements)
<1>1. len \in Nat /\ DOMAIN settlements = 1 .. len /\ payments' = payments
  BY DEF TypeOK, TxFinalize
<1>2. /\ DOMAIN settlements' = 1 .. len + 1
      /\ settlements'[len + 1].paid = {}
      /\ \A m \in 1 .. len :
            settlements'[m] = IF settlements[m].status = "active"
                              THEN Superseded(settlements[m]) ELSE settlements[m]
  BY <1>1 DEF TxFinalize, SaveSnapshot, TypeOK
<1>3. \A m \in 1 .. len : /\ settlements'[m].paid = settlements[m].paid
                          /\ settlements'[m].transfers = settlements[m].transfers
  <2>1. \A m \in 1 .. len : settlements[m] \in Settlements
    BY <1>1, SettlementTyped
  <2> QED
    BY <1>2, <2>1 DEF Superseded, Settlements
<1>4. \A i \in DOMAIN payments : payments[i].version # len + 1
  BY <1>1 DEF EventsKnown
<1>5. EventsKnown'
  BY <1>1, <1>2 DEF EventsKnown
<1>6. ASSUME NEW m \in DOMAIN settlements', NEW u \in settlements'[m].transfers
      PROVE  u \in settlements'[m].paid <=>
                \E i \in DOMAIN payments : LastAbout(i, m, u) /\ payments[i].type = "paid"
  <2>1. CASE m = len + 1
    BY <1>2, <1>4, <2>1 DEF LastAbout, About
  <2>2. CASE m \in 1 .. len
    BY <1>1, <1>3, <2>2 DEF LogExplainsPayments
  <2> QED
    BY <1>1, <1>2, <2>1, <2>2
<1>7. \A i, j \in DOMAIN payments' :
          /\ i < j
          /\ About(j, payments[i].version, payments[i].transfer)'
          /\ \A k \in i + 1 .. j - 1 :
                ~About(k, payments[i].version, payments[i].transfer)'
          => payments'[i].type # payments'[j].type
  BY <1>1 DEF LogExplainsPayments, About
<1>8. \A m \in DOMAIN settlements' : \A u \in settlements'[m].transfers :
          u \in settlements'[m].paid <=>
              \E i \in DOMAIN payments' :
                  LastAbout(i, m, u)' /\ payments'[i].type = "paid"
  BY <1>1, <1>6 DEF LastAbout, About
<1>9. LogExplainsPayments'
  BY <1>7, <1>8 DEF LogExplainsPayments
<1> QED
  BY <1>5, <1>9

(* The payment column is always what the append-only log last said, and    *)
(* idempotent retries leave no second entry, however they race.            *)
THEOREM LogIsTrue == Spec => []LogExplainsPayments
<1> DEFINE LogInv == LogExplainsPayments /\ EventsKnown
<1>1. Init => LogInv
  BY DEF Init, LogExplainsPayments, EventsKnown
<1>2. ASSUME LogInv, settlements' = settlements, payments' = payments PROVE LogInv'
  BY <1>2 DEF LogExplainsPayments, EventsKnown, LastAbout, About
<1>3. ASSUME TypeOK, LogInv, [Next]_vars PROVE LogInv'
  <2>1. CASE ExpenseStep \/ UNCHANGED vars
    BY <1>2, <1>3, <2>1 DEF ExpenseStep, TxCreate, TxUpdate, TxSoftDelete, vars
  <2>2. CASE CycleStep
    BY <1>2, <1>3, <2>2, FinalizeExplained DEF CycleStep, TxUnlock
  <2>3. ASSUME NEW n \in DOMAIN settlements, NEW t \in settlements[n].transfers,
               NEW actor \in Members, NEW role \in {"admin", "member"},
               TxMarkPaid(n, t, actor, role) \/ TxMarkUnpaid(n, t, actor, role)
        PROVE  LogInv'
    BY <1>3, <2>3, RecordedPaymentExplained DEF TxMarkPaid, TxMarkUnpaid
  <2>4. CASE TripStep
    <3>1. ASSUME NEW caller \in Members, TxDeleteTrip(caller) PROVE LogInv'
      BY <3>1 DEF TxDeleteTrip, LogExplainsPayments, EventsKnown
    <3> QED
      BY <1>2, <1>3, <2>4, <3>1 DEF TripStep, TxUpdateTrip, TxTransferAdmin
  <2> QED
    BY <1>3, <2>1, <2>2, <2>3, <2>4 DEF Next, PaymentStep
<1>4. TypeOK /\ LogInv /\ [Next]_vars => LogInv'
  BY <1>3
<1> QED
  BY <1>1, <1>4, TypeCorrect, PTL DEF Spec

-----------------------------------------------------------------------------
(* What a step may do to the snapshots a trip has.                         *)
Kept ==
    \A n \in DOMAIN settlements :
        /\ n \in DOMAIN settlements'
        /\ settlements'[n].transfers = settlements[n].transfers
        /\ settlements[n].status = "superseded" => settlements'[n] = settlements[n]

(* saveSnapshot touches the status of the active one alone, ...            *)
LEMMA FinalizeKeeps ==
  ASSUME TypeOK, NEW seen \in ReviewedSets, TxFinalize(seen) PROVE Kept
<1>1. Len(settlements) \in Nat /\ DOMAIN settlements = 1 .. Len(settlements)
  BY DEF TypeOK
<1>2. DOMAIN settlements' = 1 .. Len(settlements) + 1
  BY <1>1 DEF TxFinalize, SaveSnapshot, TypeOK
<1>3. SUFFICES ASSUME NEW n \in DOMAIN settlements
               PROVE  /\ settlements'[n].transfers = settlements[n].transfers
                      /\ settlements[n].status = "superseded" =>
                            settlements'[n] = settlements[n]
  BY <1>1, <1>2 DEF Kept
<1>4. settlements[n] \in Settlements
  BY SettlementTyped
<1>5. settlements'[n] = IF settlements[n].status = "active"
                        THEN Superseded(settlements[n])
                        ELSE settlements[n]
  BY <1>1 DEF TxFinalize, SaveSnapshot, TypeOK
<1> QED
  BY <1>4, <1>5 DEF Settlements, Superseded

(* ... and a payment the payments of the active one.                       *)
LEMMA PaymentKeeps == TypeOK /\ PaymentStep => Kept
<1> SUFFICES ASSUME TypeOK,
                    NEW n \in DOMAIN settlements,
                    NEW t \in settlements[n].transfers,
                    NEW actor \in Members, NEW role \in {"admin", "member"},
                    TxMarkPaid(n, t, actor, role) \/ TxMarkUnpaid(n, t, actor, role)
             PROVE  Kept
  BY DEF PaymentStep
<1>1. settlements[n].status = "active"
  BY DEF TxMarkPaid, TxMarkUnpaid, ActiveVersions
<1>2. PICK paid : settlements' = [settlements EXCEPT ![n].paid = paid]
  <2>1. CASE TxMarkPaid(n, t, actor, role)
    BY <2>1 DEF RecordPayment, TxMarkPaid
  <2>2. CASE TxMarkUnpaid(n, t, actor, role)
    BY <2>2 DEF RecordPayment, TxMarkUnpaid
  <2> QED
    BY <2>1, <2>2
<1>3. DOMAIN settlements' = DOMAIN settlements
  BY <1>2 DEF TypeOK
<1>4. \A m \in DOMAIN settlements : settlements[m] \in Settlements
  BY SettlementTyped
<1>5. \A m \in DOMAIN settlements : m # n => settlements'[m] = settlements[m]
  BY <1>2 DEF TypeOK
<1>6. settlements'[n].transfers = settlements[n].transfers
  BY <1>2, <1>4 DEF Settlements, TypeOK
<1> QED
  BY <1>1, <1>3, <1>5, <1>6 DEF Kept

(* A snapshot keeps its transfers for as long as the trip lives, and once  *)
(* superseded keeps everything (HistoryIsKept), whatever is finalized,     *)
(* reopened, paid or taken back after it.                                  *)
THEOREM HistoryAlwaysKept == Spec => HistoryIsKept
<1>1. TypeOK /\ [Next]_vars =>
        [trip'.status # "deleted" =>
            \A n \in DOMAIN settlements :
                /\ n \in DOMAIN settlements'
                /\ settlements'[n].transfers = settlements[n].transfers
                /\ settlements[n].status = "superseded" =>
                      settlements'[n] = settlements[n]]_vars
  <2> SUFFICES ASSUME TypeOK, [Next]_vars, trip'.status # "deleted" PROVE Kept
    BY DEF Kept
  <2>1. settlements' = settlements => Kept
    BY DEF Kept
  <2>2. CASE ExpenseStep
    <3>1. ASSUME NEW e \in ExpenseIds, NEW creator \in Members, NEW payer \in Members,
                 NEW bill \in Bills, NEW state \in States,
                 NEW key \in Keys \cup {NoKey}, NEW zone \in Zones,
                 TxCreate(e, creator, payer, bill, state, key, zone)
          PROVE  Kept
      BY <2>1, <3>1 DEF TxCreate
    <3>2. ASSUME NEW e \in ExpenseIds, NEW version \in 0 .. MaxVersion,
                 NEW bill \in Bills, NEW state \in States,
                 TxUpdate(e, version, bill, state)
          PROVE  Kept
      BY <2>1, <3>2 DEF TxUpdate
    <3>3. ASSUME NEW e \in ExpenseIds, NEW version \in 0 .. MaxVersion,
                 TxSoftDelete(e, version)
          PROVE  Kept
      BY <2>1, <3>3 DEF TxSoftDelete
    <3> QED
      BY <2>2, <3>1, <3>2, <3>3 DEF ExpenseStep
  <2>3. CASE CycleStep
    BY <2>1, <2>3, FinalizeKeeps DEF CycleStep, TxUnlock
  <2>4. CASE PaymentStep
    BY <2>4, PaymentKeeps
  <2>5. CASE TripStep
    <3>1. \A zone \in Zones : TxUpdateTrip(zone) => Kept
      BY <2>1 DEF TxUpdateTrip
    <3>2. \A member \in Members : TxTransferAdmin(member) => Kept
      BY <2>1 DEF TxTransferAdmin
    <3>3. \A caller \in Members : ~TxDeleteTrip(caller)
      BY DEF TxDeleteTrip, TypeOK
    <3> QED
      BY <2>5, <3>1, <3>2, <3>3 DEF TripStep
  <2>6. CASE UNCHANGED vars
    BY <2>1, <2>6 DEF vars
  <2> QED
    BY <2>2, <2>3, <2>4, <2>5, <2>6 DEF Next
<1> QED
  BY <1>1, TypeCorrect, PTL DEF Spec, HistoryIsKept

-----------------------------------------------------------------------------
(* The requests.  The argument is the one optimistic locking rests on:     *)
(* rows only move forward, a call is never ahead of the row it is about,   *)
(* and as long as the row is still at the version the call holds,          *)
(* everything the call read of it is still true.  The operators below take *)
(* the tables as arguments, so that they can be said of the next state of  *)
(* a call that does not move itself.                                       *)

EditCalls == [at : {"authorize", "load", "erase"}, by : Members,
              role : {"admin", "member"}, e : ExpenseIds,
              version : 0 .. MaxVersion, patch : Patches \cup {Erase}]

Behind(call, tr, ex) ==
    \/ tr.status = "deleted"
    \/ call.e \in DOMAIN ex /\ call.version <= ex[call.e].version

Current(call, ex) ==
    call.e \in DOMAIN ex /\ ex[call.e].version = call.version

Entitled(call, tr, ex) ==
    \/ tr.status = "deleted"
    \/ call.role = "admin"
    \/ call.by \in {ex[call.e].creator, ex[call.e].payer}

Creating(s) ==
    s.at = "create" => /\ s.by \in Members /\ s.input \in Inputs
                       /\ s.key \in Keys \cup {NoKey} /\ s.zone \in Zones

Editing(s, tr, ex) ==
    s.at \in {"authorize", "load", "erase"} =>
        /\ s \in EditCalls
        /\ Behind(s, tr, ex)
        /\ s.at # "authorize" => Entitled(s, tr, ex)
        /\ s.at = "load" => s.patch \in Patches /\ EditsRate(s.patch)

Merging(s, tr, ex) ==
    s.at = "merge" =>
        /\ s.call \in EditCalls /\ s.call.patch \in Patches /\ s.row \in Bills
        /\ EditsRate(s.call.patch)
        /\ Behind(s.call, tr, ex) /\ Entitled(s.call, tr, ex)
        /\ Current(s.call, ex) => ex[s.call.e].bill = s.row

(* The columns an edit brings to its transaction come from the row it will *)
(* overwrite, if it will overwrite one.                                    *)
FromRow(columns, patch, bill) ==
    \/ ~EditsRate(patch) /\ columns = patch
    \/ /\ EditsRate(patch) /\ ~ChangesSource(patch, bill)
       /\ \E zone \in Zones : \E fx \in FxOfEdit(patch, bill, zone) :
             columns = ColumnsOf(patch, bill, zone, fx)

Writing(s, tr, ex) ==
    s.at = "write" =>
        /\ s.call \in EditCalls /\ s.call.patch \in Patches
        /\ Behind(s.call, tr, ex) /\ Entitled(s.call, tr, ex)
        /\ Current(s.call, ex) => FromRow(s.columns, s.call.patch, ex[s.call.e].bill)

(* A row that was shown and is still at the version shown is the row shown. *)
SameIfCurrent(s, e, ex) ==
    ex[e].version = s.rows[e].version =>
        /\ ex[e] = s.rows[e]
        /\ s.at # "rows" => s.parts[e] = ex[e].bill.parts

Reviewing(s, tr, ex) ==
    s.at \in {"rows", "shown", "finalize"} =>
        /\ DOMAIN s.rows \in SUBSET ExpenseIds
        /\ s.rows \in [DOMAIN s.rows -> Rows]
        /\ s.at = "rows" => s = [at |-> s.at, rows |-> s.rows]
        /\ s.at # "rows" => s = [at |-> s.at, rows |-> s.rows, parts |-> s.parts]
        /\ \A e \in DOMAIN s.rows :
              \/ tr.status = "deleted"
              \/ /\ e \in DOMAIN ex
                 /\ s.rows[e].version <= ex[e].version
                 /\ SameIfCurrent(s, e, ex)

CallOK(s, tr, ex) ==
    /\ Creating(s)
    /\ Editing(s, tr, ex)
    /\ Merging(s, tr, ex)
    /\ Writing(s, tr, ex)
    /\ Reviewing(s, tr, ex)

CallsOK ==
    /\ calls = [c \in Calls |-> calls[c]]
    /\ \A c \in Calls : CallOK(calls[c], trip, expenses)

-----------------------------------------------------------------------------
(* How rows move: never back, and with a new version whenever they change. *)
Moves ==
    /\ trip.status = "deleted" => trip'.status = "deleted" /\ expenses' = expenses
    /\ trip'.status = "deleted" => expenses' = expenses \/ DOMAIN expenses' = {}
    /\ \A e \in DOMAIN expenses :
          \/ trip'.status = "deleted"
          \/ /\ e \in DOMAIN expenses'
             /\ expenses'[e].creator = expenses[e].creator
             /\ expenses'[e].payer = expenses[e].payer
             /\ \/ expenses'[e] = expenses[e]
                \/ expenses'[e].version > expenses[e].version

LEMMA LedgerTypeOK == TypeOK /\ [Next]_vars => TypeOK'
<1>1. TypeOK /\ UNCHANGED vars => TypeOK'
  BY DEF vars, TypeOK
<1> QED
  BY <1>1, ExpenseStepTypeOK, CycleStepTypeOK, PaymentStepTypeOK,
     TripStepTypeOK DEF Next

LEMMA LedgerMoves == TypeOK /\ [Next]_vars => Moves
<1> SUFFICES ASSUME TypeOK, [Next]_vars PROVE Moves
  OBVIOUS
<1>1. ASSUME expenses' = expenses, trip.status = "deleted" => trip'.status = "deleted"
      PROVE  Moves
  BY <1>1 DEF Moves
<1>2. CASE ExpenseStep
  <2>1. ASSUME NEW e \in ExpenseIds, NEW creator \in Members, NEW payer \in Members,
               NEW bill \in Bills, NEW state \in States,
               NEW key \in Keys \cup {NoKey}, NEW zone \in Zones,
               TxCreate(e, creator, payer, bill, state, key, zone)
        PROVE  Moves
    BY <2>1 DEF TxCreate, InsertExpense, Moves
  <2>2. ASSUME NEW e \in ExpenseIds, NEW version \in 0 .. MaxVersion,
               NEW bill \in Bills, NEW state \in States,
               TxUpdate(e, version, bill, state)
        PROVE  Moves
    <3>1. expenses[e] \in Rows /\ trip.status = "open" /\ trip' = trip
      BY <2>2 DEF TxUpdate, StillAt, TypeOK
    <3>2. \A d \in DOMAIN expenses : d # e => expenses'[d] = expenses[d]
      BY <2>2 DEF TxUpdate
    <3>3. /\ expenses'[e].version = expenses[e].version + 1
          /\ expenses'[e].creator = expenses[e].creator
          /\ expenses'[e].payer = expenses[e].payer
      BY <2>2, <3>1 DEF TxUpdate, StillAt, Edited, Rows
    <3>4. DOMAIN expenses' = DOMAIN expenses
      BY <2>2 DEF TxUpdate
    <3>5. expenses[e].version \in Nat
      BY <3>1, BoundsAssumption DEF Rows
    <3> QED
      BY <3>1, <3>2, <3>3, <3>4, <3>5 DEF Moves
  <2>3. ASSUME NEW e \in ExpenseIds, NEW version \in 0 .. MaxVersion,
               TxSoftDelete(e, version)
        PROVE  Moves
    <3>1. expenses[e] \in Rows /\ trip.status = "open" /\ trip' = trip
      BY <2>3 DEF TxSoftDelete, StillAt, TypeOK
    <3>2. \A d \in DOMAIN expenses : d # e => expenses'[d] = expenses[d]
      BY <2>3 DEF TxSoftDelete
    <3>3. /\ expenses'[e].version = expenses[e].version + 1
          /\ expenses'[e].creator = expenses[e].creator
          /\ expenses'[e].payer = expenses[e].payer
      BY <2>3, <3>1 DEF TxSoftDelete, StillAt, Rows
    <3>4. DOMAIN expenses' = DOMAIN expenses
      BY <2>3 DEF TxSoftDelete
    <3>5. expenses[e].version \in Nat
      BY <3>1, BoundsAssumption DEF Rows
    <3> QED
      BY <3>1, <3>2, <3>3, <3>4, <3>5 DEF Moves
  <2> QED
    BY <1>2, <2>1, <2>2, <2>3 DEF ExpenseStep
<1>3. CASE CycleStep
  <2>1. ASSUME NEW seen \in ReviewedSets, TxFinalize(seen) PROVE Moves
    BY <1>1, <2>1 DEF TxFinalize
  <2>2. CASE TxUnlock
    BY <1>1, <2>2 DEF TxUnlock
  <2> QED
    BY <1>3, <2>1, <2>2 DEF CycleStep
<1>4. CASE PaymentStep
  BY <1>1, <1>4 DEF PaymentStep, TxMarkPaid, TxMarkUnpaid, RecordPayment
<1>5. CASE TripStep
  <2>1. ASSUME NEW zone \in Zones, TxUpdateTrip(zone) PROVE Moves
    BY <1>1, <2>1 DEF TxUpdateTrip
  <2>2. ASSUME NEW member \in Members, TxTransferAdmin(member) PROVE Moves
    BY <1>1, <2>2 DEF TxTransferAdmin
  <2>3. ASSUME NEW caller \in Members, TxDeleteTrip(caller) PROVE Moves
    BY <2>3 DEF TxDeleteTrip, Moves, TypeOK
  <2> QED
    BY <1>5, <2>1, <2>2, <2>3 DEF TripStep
<1>6. CASE UNCHANGED vars
  BY <1>1, <1>6 DEF vars
<1> QED
  BY <1>2, <1>3, <1>4, <1>5, <1>6 DEF Next

(* A call keeps what it knows while others move.                           *)
LEMMA EditCallKept ==
  ASSUME TypeOK, TypeOK', Moves, NEW call \in EditCalls,
         Behind(call, trip, expenses)
  PROVE  /\ Behind(call, trip', expenses')
         /\ Entitled(call, trip, expenses) => Entitled(call, trip', expenses')
         /\ Current(call, expenses') =>
               Current(call, expenses) /\ expenses'[call.e] = expenses[call.e]
<1>1. call.version \in Nat
  BY BoundsAssumption DEF EditCalls
<1>2. /\ \A e \in DOMAIN expenses : expenses[e].version \in Nat
      /\ \A e \in DOMAIN expenses' : expenses'[e].version \in Nat
  BY BoundsAssumption DEF TypeOK, Rows
<1>3. CASE trip'.status = "deleted"
  BY <1>3 DEF Behind, Entitled, Current, Moves
<1>4. CASE trip'.status # "deleted"
  <2>1. call.e \in DOMAIN expenses /\ call.version <= expenses[call.e].version
    BY <1>4 DEF Behind, Moves
  <2> QED
    BY <1>1, <1>2, <1>4, <2>1 DEF Behind, Entitled, Current, Moves
<1> QED
  BY <1>3, <1>4

LEMMA CallKept ==
  ASSUME TypeOK, TypeOK', Moves, NEW s, CallOK(s, trip, expenses)
  PROVE  CallOK(s, trip', expenses')
<1>1. Creating(s)
  BY DEF CallOK
<1>2. Editing(s, trip', expenses')
  BY EditCallKept DEF CallOK, Editing
<1>3. Merging(s, trip', expenses')
  BY EditCallKept DEF CallOK, Merging
<1>4. Writing(s, trip', expenses')
  <2> SUFFICES ASSUME s.at = "write" PROVE Writing(s, trip', expenses')
    BY DEF Writing
  <2> QED
    BY EditCallKept DEF CallOK, Writing
<1>5. Reviewing(s, trip', expenses')
  <2> SUFFICES ASSUME s.at \in {"rows", "shown", "finalize"},
                      NEW e \in DOMAIN s.rows, trip'.status # "deleted"
               PROVE  /\ e \in DOMAIN expenses'
                      /\ s.rows[e].version <= expenses'[e].version
                      /\ SameIfCurrent(s, e, expenses')
    BY DEF CallOK, Reviewing
  <2>1. /\ e \in DOMAIN expenses /\ s.rows[e].version <= expenses[e].version
        /\ SameIfCurrent(s, e, expenses)
    BY DEF CallOK, Reviewing, Moves
  <2>2. s.rows[e].version \in Nat
    BY BoundsAssumption DEF CallOK, Reviewing, Rows
  <2>3. /\ e \in DOMAIN expenses'
        /\ \/ expenses'[e] = expenses[e]
           \/ expenses'[e].version > expenses[e].version
    BY <2>1 DEF Moves
  <2>4. expenses[e].version \in Nat /\ expenses'[e].version \in Nat
    BY <2>1, <2>3, BoundsAssumption DEF TypeOK, Rows
  <2> QED
    BY <2>1, <2>2, <2>3, <2>4 DEF SameIfCurrent
<1> QED
  BY <1>1, <1>2, <1>3, <1>4, <1>5 DEF CallOK

-----------------------------------------------------------------------------
(* One lemma per kind of request: its step is a step of the ledger or none *)
(* of its rows, and leaves the call with what it is entitled to believe.   *)
Steps(c) ==
    /\ calls' = [d \in Calls |-> calls'[d]]
    /\ \A d \in Calls : d # c => calls'[d] = calls[d]
    /\ [Next]_vars
    /\ CallOK(calls'[c], trip', expenses')

LEMMA OneCallSteps ==
  ASSUME TypeOK, CallsOK, NEW c \in Calls, Steps(c) PROVE TypeOK' /\ CallsOK'
<1>1. TypeOK' /\ Moves
  BY LedgerTypeOK, LedgerMoves DEF Steps
<1>2. \A d \in Calls : d # c => CallOK(calls[d], trip', expenses')
  BY <1>1, CallKept DEF CallsOK
<1> QED
  BY <1>1, <1>2 DEF Steps, CallsOK

(* What is left to show of a step that reads.                              *)
LEMMA ReadSteps ==
  ASSUME CallsOK, NEW c \in Calls, NEW s, Goes(c, s), Reads,
         CallOK(s, trip, expenses)
  PROVE  Steps(c)
<1>1. calls'[c] = s /\ calls' = [d \in Calls |-> calls'[d]]
  BY DEF Goes, CallsOK
<1>2. \A d \in Calls : d # c => calls'[d] = calls[d]
  BY DEF Goes, CallsOK
<1>3. trip' = trip /\ expenses' = expenses
  BY DEF Reads, vars
<1> QED
  BY <1>1, <1>2, <1>3 DEF Steps, Reads

(* And of one that ends the call with a transaction.                       *)
LEMMA LastSteps ==
  ASSUME CallsOK, NEW c \in Calls, NEW s, s.at \in {"ended", "answer"},
         Goes(c, s), [Next]_vars
  PROVE  Steps(c)
<1>1. calls'[c] = s /\ calls' = [d \in Calls |-> calls'[d]]
  BY DEF Goes, CallsOK
<1>2. \A d \in Calls : d # c => calls'[d] = calls[d]
  BY DEF Goes, CallsOK
<1>3. CallOK(s, trip', expenses')
  BY DEF CallOK, Creating, Editing, Merging, Writing, Reviewing
<1> QED
  BY <1>1, <1>2, <1>3 DEF Steps

LEMMA EndedOK == CallOK(Ended, trip, expenses)
BY DEF Ended, CallOK, Creating, Editing, Merging, Writing, Reviewing

LEMMA CreateSteps ==
  ASSUME TypeOK, CallsOK, NEW c \in Calls,
         \/ \E by \in Members, input \in Inputs, key \in Keys \cup {NoKey} :
               BeginCreate(c, by, input, key)
         \/ CommitCreate(c)
         \/ CreateNothing(c)
  PROVE  Steps(c)
<1>1. ASSUME NEW by \in Members, NEW input \in Inputs, NEW key \in Keys \cup {NoKey},
             BeginCreate(c, by, input, key)
      PROVE  Steps(c)
  <2> DEFINE s == [at |-> "create", by |-> by, input |-> input, key |-> key,
                   zone |-> trip.zone]
  <2>1. trip.zone \in Zones
    BY DEF TypeOK
  <2>2. CallOK(s, trip, expenses)
    BY <2>1 DEF CallOK, Creating, Editing, Merging, Writing, Reviewing
  <2> QED
    BY <1>1, <2>2, ReadSteps DEF BeginCreate
<1>2. CASE CommitCreate(c)
  <2>1. /\ calls[c].by \in Members /\ calls[c].input \in Inputs
        /\ calls[c].key \in Keys \cup {NoKey} /\ calls[c].zone \in Zones
    BY <1>2 DEF CommitCreate, CallsOK, CallOK, Creating
  <2>2. /\ calls[c].input.payer \in Members /\ calls[c].input.state \in States
        /\ \A fx \in FxOfInput(calls[c].input, calls[c].zone) :
              BillOf(calls[c].input, calls[c].zone, fx) \in Bills
    BY <2>1, ContentsAssumption
  <2>3. ExpenseStep
    <3>1. PICK e \in ExpenseIds, fx \in FxOfInput(calls[c].input, calls[c].zone) :
             TxCreate(e, calls[c].by, calls[c].input.payer,
                      BillOf(calls[c].input, calls[c].zone, fx),
                      calls[c].input.state, calls[c].key, calls[c].zone)
      BY <1>2 DEF CommitCreate
    <3>2. BillOf(calls[c].input, calls[c].zone, fx) \in Bills
      BY <2>2
    <3> QED
      BY <2>1, <2>2, <3>1, <3>2 DEF ExpenseStep
  <2> QED
    BY <1>2, <2>3, LastSteps DEF CommitCreate, Next, Ended
<1>3. CASE CreateNothing(c)
  BY <1>3, EndedOK, ReadSteps DEF CreateNothing
<1> QED
  BY <1>1, <1>2, <1>3

LEMMA EditSteps ==
  ASSUME TypeOK, CallsOK, NEW c \in Calls,
         \/ \E by \in Members, e \in ExpenseIds, version \in 0 .. MaxVersion,
               patch \in Patches \cup {Erase} : BeginEdit(c, by, e, version, patch)
         \/ Authorize(c) \/ LoadRow(c) \/ Merge(c)
  PROVE  Steps(c)
<1>1. ASSUME NEW by \in Members, NEW e \in ExpenseIds, NEW version \in 0 .. MaxVersion,
             NEW patch \in Patches \cup {Erase}, BeginEdit(c, by, e, version, patch)
      PROVE  Steps(c)
  <2> DEFINE s == [at |-> "authorize", by |-> by, role |-> RoleOf(by), e |-> e,
                   version |-> version, patch |-> patch]
  <2>1. s \in EditCalls
    BY DEF EditCalls, RoleOf
  <2>2. CallOK(s, trip, expenses)
    BY <1>1, <2>1 DEF BeginEdit, Behind, CallOK, Creating, Editing, Merging,
                      Writing, Reviewing
  <2> QED
    BY <1>1, <2>2, ReadSteps DEF BeginEdit
<1>2. CASE Authorize(c)
  <2> DEFINE call == calls[c]
  <2>1. call \in EditCalls /\ Behind(call, trip, expenses) /\ Entitled(call, trip, expenses)
    BY <1>2 DEF Authorize, Allowed, Entitled, CallsOK, CallOK, Editing
  <2>2. CASE call.patch = Erase
    <3> DEFINE s == [call EXCEPT !.at = "erase"]
    <3>1. Goes(c, s)
      BY <1>2, <2>2 DEF Authorize
    <3>2. s \in EditCalls /\ s.at = "erase"
      BY <2>1 DEF EditCalls
    <3>3. Behind(s, trip, expenses) /\ Entitled(s, trip, expenses)
      BY <2>1 DEF Behind, Entitled, EditCalls
    <3>4. CallOK(s, trip, expenses)
      BY <3>2, <3>3 DEF CallOK, Creating, Editing, Merging, Writing, Reviewing
    <3> QED
      BY <1>2, <3>1, <3>4, ReadSteps DEF Authorize
  <2>3. CASE call.patch # Erase /\ EditsRate(call.patch)
    <3> DEFINE s == [call EXCEPT !.at = "load"]
    <3>1. Goes(c, s)
      BY <1>2, <2>3 DEF Authorize
    <3>2. s \in EditCalls /\ s.at = "load" /\ s.patch = call.patch
      BY <2>1 DEF EditCalls
    <3>3. Behind(s, trip, expenses) /\ Entitled(s, trip, expenses)
      BY <2>1 DEF Behind, Entitled, EditCalls
    <3>4. s.patch \in Patches /\ EditsRate(s.patch)
      BY <2>1, <2>3, <3>2 DEF EditCalls
    <3>5. CallOK(s, trip, expenses)
      BY <3>2, <3>3, <3>4 DEF CallOK, Creating, Editing, Merging, Writing, Reviewing
    <3> QED
      BY <1>2, <3>1, <3>5, ReadSteps DEF Authorize
  <2>4. CASE call.patch # Erase /\ ~EditsRate(call.patch)
    <3> DEFINE s == [at |-> "write", call |-> call, columns |-> call.patch]
    <3>1. Goes(c, s)
      BY <1>2, <2>4 DEF Authorize
    <3>2. call.patch \in Patches
      BY <2>1, <2>4 DEF EditCalls
    <3>3. FromRow(call.patch, call.patch, expenses[call.e].bill)
      BY <2>4 DEF FromRow
    <3>4. CallOK(s, trip, expenses)
      BY <2>1, <3>2, <3>3 DEF CallOK, Creating, Editing, Merging, Writing, Reviewing
    <3> QED
      BY <1>2, <3>1, <3>4, ReadSteps DEF Authorize
  <2> QED
    BY <2>2, <2>3, <2>4
<1>3. CASE LoadRow(c)
  <2> DEFINE call == calls[c]
             s == [at |-> "merge", call |-> call, row |-> expenses[call.e].bill]
  <2>1. /\ call \in EditCalls /\ Behind(call, trip, expenses)
        /\ Entitled(call, trip, expenses)
        /\ call.patch \in Patches /\ EditsRate(call.patch)
    BY <1>3 DEF LoadRow, CallsOK, CallOK, Editing
  <2>2. expenses[call.e].bill \in Bills
    BY <1>3 DEF LoadRow, IsLive, TypeOK, Rows
  <2>3. CallOK(s, trip, expenses)
    BY <2>1, <2>2 DEF CallOK, Creating, Editing, Merging, Writing, Reviewing
  <2> QED
    BY <1>3, <2>3, ReadSteps DEF LoadRow
<1>4. CASE Merge(c)
  <2> DEFINE call == calls[c].call
             row == calls[c].row
             s(fx) == [at |-> "write", call |-> call,
                       columns |-> ColumnsOf(call.patch, row, trip.zone, fx)]
  <2>1. /\ call \in EditCalls /\ call.patch \in Patches
        /\ Behind(call, trip, expenses) /\ Entitled(call, trip, expenses)
        /\ Current(call, expenses) => expenses[call.e].bill = row
        /\ EditsRate(call.patch)
    BY <1>4 DEF Merge, CallsOK, CallOK, Merging
  <2>2. ~ChangesSource(call.patch, row)
    BY <1>4 DEF Merge
  <2>3. PICK fx \in FxOfEdit(call.patch, row, trip.zone) : Goes(c, s(fx))
    BY <1>4 DEF Merge
  <2>4. Current(call, expenses) =>
           FromRow(s(fx).columns, call.patch, expenses[call.e].bill)
    <3>1. trip.zone \in Zones
      BY DEF TypeOK
    <3> QED
      BY <2>1, <2>2, <3>1 DEF FromRow
  <2>5. CallOK(s(fx), trip, expenses)
    BY <2>1, <2>4 DEF CallOK, Creating, Editing, Merging, Writing, Reviewing
  <2> QED
    BY <1>4, <2>3, <2>5, ReadSteps DEF Merge
<1> QED
  BY <1>1, <1>2, <1>3, <1>4

(* What an edit writes is a content of an expense again.                   *)
LEMMA EditIsLedgerStep ==
  ASSUME TypeOK, CallsOK, NEW c \in Calls, CommitEdit(c)
  PROVE  /\ ExpenseStep
         /\ Current(calls[c].call, expenses)
         /\ FromRow(calls[c].columns, calls[c].call.patch,
                    expenses[calls[c].call.e].bill)
<1> DEFINE call == calls[c].call
           bill == expenses[call.e].bill
<1>1. call \in EditCalls /\ call.patch \in Patches /\ calls[c].at = "write"
  BY DEF CommitEdit, CallsOK, CallOK, Writing
<1>2. Current(call, expenses) /\ expenses[call.e] \in Rows
  BY DEF CommitEdit, Writes, TxUpdate, StillAt, Current, TypeOK
<1>3. FromRow(calls[c].columns, call.patch, bill)
  BY <1>1, <1>2 DEF CallsOK, CallOK, Writing
<1>4. bill \in Bills /\ expenses[call.e].state \in States
  BY <1>2 DEF Rows
<1>5. Overwrite(bill, calls[c].columns) \in Bills
  <2> HIDE DEF call, bill
  <2>1. CASE ~EditsRate(call.patch)
    BY <1>1, <1>3, <1>4, <2>1, ContentsAssumption DEF FromRow, TypeOK
  <2>2. CASE EditsRate(call.patch)
    <3>1. /\ ~ChangesSource(call.patch, bill)
          /\ \E zone \in Zones : \E fx \in FxOfEdit(call.patch, bill, zone) :
                calls[c].columns = ColumnsOf(call.patch, bill, zone, fx)
      BY <1>3, <2>2 DEF FromRow
    <3>2. PICK zone \in Zones : \E fx \in FxOfEdit(call.patch, bill, zone) :
             calls[c].columns = ColumnsOf(call.patch, bill, zone, fx)
      BY <3>1
    <3>3. \A fx \in FxOfEdit(call.patch, bill, zone) :
             Overwrite(bill, ColumnsOf(call.patch, bill, zone, fx)) \in Bills
      BY <1>1, <1>4, <2>2, <3>1, ContentsAssumption
    <3> QED
      BY <3>2, <3>3
  <2> QED
    BY <2>1, <2>2
<1>6. (IF "state" \in DOMAIN call.patch THEN call.patch.state
                                         ELSE expenses[call.e].state) \in States
  BY <1>1, <1>4, ContentsAssumption
<1>7. call.e \in ExpenseIds /\ call.version \in 0 .. MaxVersion
  BY <1>1 DEF EditCalls
<1> QED
  BY <1>2, <1>3, <1>5, <1>6, <1>7 DEF CommitEdit, Writes, ExpenseStep

LEMMA EndEditSteps ==
  ASSUME TypeOK, CallsOK, NEW c \in Calls,
         CommitEdit(c) \/ CommitDelete(c) \/ RefuseEdit(c)
  PROVE  Steps(c)
<1>1. CASE CommitEdit(c)
  BY <1>1, EditIsLedgerStep, LastSteps DEF CommitEdit, Next, Ended
<1>2. CASE CommitDelete(c)
  <2>1. calls[c].e \in ExpenseIds /\ calls[c].version \in 0 .. MaxVersion
    BY <1>2 DEF CommitDelete, CallsOK, CallOK, Editing, EditCalls
  <2>2. ExpenseStep
    BY <1>2, <2>1 DEF CommitDelete, ExpenseStep
  <2> QED
    BY <1>2, <2>2, LastSteps DEF CommitDelete, Next, Ended
<1>3. CASE RefuseEdit(c)
  BY <1>3, EndedOK, ReadSteps DEF RefuseEdit
<1> QED
  BY <1>1, <1>2, <1>3

LEMMA ReviewSteps ==
  ASSUME TypeOK, CallsOK, NEW c \in Calls,
         \/ ReadRows(c) \/ ReadParts(c)
         \/ \E by \in Members : BeginFinalize(c, by)
  PROVE  Steps(c)
<1>1. CASE ReadRows(c)
  <2> DEFINE s == [at |-> "rows", rows |-> [e \in Included |-> expenses[e]]]
  <2>1. /\ Included \in SUBSET ExpenseIds
        /\ \A e \in Included : e \in DOMAIN expenses /\ expenses[e] \in Rows
    BY DEF Included, TypeOK
  <2>2. s.rows \in [Included -> Rows] /\ DOMAIN s.rows = Included
    BY <2>1
  <2>3. \A e \in Included : s.rows[e] = expenses[e] /\ expenses[e].version \in Nat
    BY <2>1, BoundsAssumption DEF Rows
  <2>4. Reviewing(s, trip, expenses)
    BY <2>1, <2>2, <2>3 DEF Reviewing, SameIfCurrent
  <2>5. CallOK(s, trip, expenses)
    BY <2>4 DEF CallOK, Creating, Editing, Merging, Writing
  <2> QED
    BY <1>1, <2>5, ReadSteps DEF ReadRows
<1>2. CASE ReadParts(c)
  <2> DEFINE rows == calls[c].rows
             s == [at |-> "shown", rows |-> rows,
                   parts |-> [e \in DOMAIN rows |-> PartsOf(e)]]
  <2>1. Reviewing(calls[c], trip, expenses) /\ calls[c].at = "rows"
    BY <1>2 DEF ReadParts, CallsOK, CallOK
  <2>2. Reviewing(s, trip, expenses)
    BY <2>1 DEF Reviewing, SameIfCurrent, PartsOf
  <2>3. CallOK(s, trip, expenses)
    BY <2>2 DEF CallOK, Creating, Editing, Merging, Writing
  <2> QED
    BY <1>2, <2>3, ReadSteps DEF ReadParts
<1>3. ASSUME NEW by \in Members, BeginFinalize(c, by) PROVE Steps(c)
  <2> DEFINE s == [at |-> "finalize", rows |-> calls[c].rows, parts |-> calls[c].parts]
  <2>1. Reviewing(calls[c], trip, expenses) /\ calls[c].at = "shown"
    BY <1>3 DEF BeginFinalize, CallsOK, CallOK
  <2>2. [calls[c] EXCEPT !.at = "finalize"] = s
    BY <2>1 DEF Reviewing
  <2>3. Goes(c, s) /\ Reads
    BY <1>3, <2>2 DEF BeginFinalize
  <2>4. Reviewing(s, trip, expenses)
    BY <2>1 DEF Reviewing, SameIfCurrent
  <2>5. CallOK(s, trip, expenses)
    BY <2>4 DEF CallOK, Creating, Editing, Merging, Writing
  <2> QED
    BY <2>3, <2>5, ReadSteps
<1> QED
  BY <1>1, <1>2, <1>3

LEMMA FinalizeSteps ==
  ASSUME TypeOK, CallsOK, NEW c \in Calls,
         CommitFinalize(c) \/ RefuseFinalize(c) \/ AnswerFinalize(c)
  PROVE  Steps(c)
<1>1. CASE CommitFinalize(c)
  <2>1. Reviewing(calls[c], trip, expenses) /\ calls[c].at = "finalize"
    BY <1>1 DEF CommitFinalize, CallsOK, CallOK
  <2>2. SeenBy(c) \in [DOMAIN calls[c].rows -> 0 .. MaxVersion]
    BY <2>1 DEF Reviewing, SeenBy, Rows
  <2>3. SeenBy(c) \in ReviewedSets
    BY <2>1, <2>2 DEF Reviewing, ReviewedSets
  <2>4. CycleStep
    BY <1>1, <2>3 DEF CommitFinalize, CycleStep
  <2> QED
    BY <1>1, <2>4, LastSteps DEF CommitFinalize, Next
<1>2. CASE RefuseFinalize(c)
  BY <1>2, EndedOK, ReadSteps DEF RefuseFinalize
<1>3. CASE AnswerFinalize(c)
  <2>1. Settlement.at \in {"answered", "ended"}
    BY DEF Settlement, Ended, TypeOK
  <2>2. CallOK(Settlement, trip, expenses)
    BY <2>1 DEF CallOK, Creating, Editing, Merging, Writing, Reviewing
  <2> QED
    BY <1>3, <2>2, ReadSteps DEF AnswerFinalize
<1> QED
  BY <1>1, <1>2, <1>3

LEMMA CallSteps ==
  ASSUME TypeOK, CallsOK, NEW c \in Calls, ExpenseCall(c) \/ FinalizeCall(c)
  PROVE  Steps(c)
BY CreateSteps, EditSteps, EndEditSteps, ReviewSteps, FinalizeSteps
   DEF ExpenseCall, FinalizeCall

LEMMA ElsewhereIsLedgerStep ==
  TypeOK /\ Elsewhere => UNCHANGED calls /\ (CycleStep \/ TripStep)
BY DEF Elsewhere, CycleStep, TripStep, TypeOK

LEMMA RequestStep ==
  TypeOK /\ CallsOK /\ [RequestNext]_everything => CallsOK' /\ TypeOK' /\ [Next]_vars
<1> SUFFICES ASSUME TypeOK, CallsOK, [RequestNext]_everything
             PROVE  CallsOK' /\ TypeOK' /\ [Next]_vars
  OBVIOUS
<1>1. ASSUME NEW c \in Calls, ExpenseCall(c) \/ FinalizeCall(c)
      PROVE  CallsOK' /\ TypeOK' /\ [Next]_vars
  BY <1>1, CallSteps, OneCallSteps DEF Steps
<1>2. ASSUME UNCHANGED calls, [Next]_vars PROVE CallsOK' /\ TypeOK'
  <2>1. TypeOK' /\ Moves
    BY <1>2, LedgerTypeOK, LedgerMoves
  <2>2. \A d \in Calls : CallOK(calls[d], trip', expenses')
    BY <2>1, CallKept DEF CallsOK
  <2> QED
    BY <1>2, <2>1, <2>2 DEF CallsOK
<1>3. CASE Elsewhere
  BY <1>2, <1>3, ElsewhereIsLedgerStep DEF Next
<1>4. CASE UNCHANGED everything
  BY <1>2, <1>4 DEF everything, vars
<1> QED
  BY <1>1, <1>3, <1>4 DEF RequestNext

LEMMA RequestInvariant == RequestSpec => [](TypeOK /\ CallsOK)
<1>1. RequestInit => TypeOK /\ CallsOK
  BY InitTypeOK DEF RequestInit, CallsOK, CallOK, Idle, Creating, Editing, Merging,
                    Writing, Reviewing
<1> QED
  BY <1>1, RequestStep, PTL DEF RequestSpec

-----------------------------------------------------------------------------
(* The handlers only ever do to the tables what TripLedger lets an         *)
(* arbitrary stale request do: its theorems are theorems about the API.    *)
THEOREM RequestsImplementLedger == RequestSpec => Spec
<1>1. RequestInit => Init
  BY DEF RequestInit
<1> QED
  BY <1>1, RequestInvariant, RequestStep, PTL DEF RequestSpec, Spec

(* Of several calls, the one whose state changes is the one that steps.    *)
LEMMA TheOneThatMoves ==
  ASSUME TypeOK, CallsOK, RequestNext, NEW c \in Calls, calls'[c] # calls[c]
  PROVE  ExpenseCall(c) \/ FinalizeCall(c)
<1>1. PICK d \in Calls : ExpenseCall(d) \/ FinalizeCall(d)
  BY DEF RequestNext, Elsewhere
<1>2. Steps(d)
  BY <1>1, CallSteps
<1> QED
  BY <1>1, <1>2 DEF Steps

(* What the precheck showed is what finalize freezes, for any engine, any  *)
(* number of reviewers and editors.                                        *)
THEOREM FrozenAsShown == RequestSpec => ShownIsFrozen
<1> DEFINE Frozen(c) ==
       calls[c].at = "finalize" /\ settlements' # settlements
                               /\ calls'[c] # calls[c] =>
           settlements'[Len(settlements')].transfers = Settle(Shown(c))
<1>1. ASSUME TypeOK, CallsOK, [RequestNext]_everything, NEW c \in Calls
      PROVE  Frozen(c)
  <2> SUFFICES ASSUME calls[c].at = "finalize", settlements' # settlements,
                      calls'[c] # calls[c]
               PROVE  settlements'[Len(settlements')].transfers = Settle(Shown(c))
    OBVIOUS
  <2>1. ExpenseCall(c) \/ FinalizeCall(c)
    BY <1>1, TheOneThatMoves DEF everything
  <2>2. CommitFinalize(c)
    BY <2>1 DEF ExpenseCall, FinalizeCall, BeginCreate, CommitCreate, CreateNothing,
                BeginEdit, Authorize, LoadRow, Merge, CommitEdit, CommitDelete,
                RefuseEdit, ReadRows, ReadParts, BeginFinalize, RefuseFinalize,
                AnswerFinalize, Reads, vars
  <2>3. /\ SeenBy(c) = SeenVersions /\ trip.status = "open"
        /\ settlements'[Len(settlements')].transfers = Settle(Inventory)
    BY <1>1, <2>2 DEF CommitFinalize, TxFinalize, SaveSnapshot, TypeOK
  <2>4. DOMAIN calls[c].rows = Included
    BY <2>3 DEF SeenBy, SeenVersions
  <2>5. \A e \in Included : calls[c].rows[e].version = expenses[e].version
    BY <2>3, <2>4 DEF SeenBy, SeenVersions
  <2>6. \A e \in Included : /\ calls[c].rows[e] = expenses[e]
                            /\ calls[c].parts[e] = expenses[e].bill.parts
    BY <1>1, <2>3, <2>4, <2>5 DEF CallsOK, CallOK, Reviewing, SameIfCurrent
  <2>7. \A e \in Included : [expenses[e].bill EXCEPT !.parts = expenses[e].bill.parts]
                             = expenses[e].bill
    <3>1. \A e \in Included : expenses[e].bill \in Bills
      BY <1>1 DEF Included, TypeOK, Rows
    <3> QED
      BY <3>1, PatchAssumption DEF BillFields
  <2>8. Shown(c) = Inventory
    BY <2>4, <2>6, <2>7 DEF Shown, Inventory
  <2> QED
    BY <2>3, <2>8
<1>2. TypeOK /\ CallsOK /\ [RequestNext]_everything => \A c \in Calls : Frozen(c)
  BY <1>1
<1> QED
  BY <1>2, RequestInvariant, PTL DEF RequestSpec, ShownIsFrozen

-----------------------------------------------------------------------------
(* A call that ends at an expense row commits an edit or a deletion.       *)
LEMMA CommitsAre ==
  ASSUME TypeOK, CallsOK, RequestNext, NEW c \in Calls, Commits(c)
  PROVE  /\ calls[c].at = "write" => CommitEdit(c)
         /\ calls[c].at = "erase" => CommitDelete(c)
BY TheOneThatMoves
   DEF Commits, ExpenseCall, FinalizeCall, BeginCreate, CommitCreate, CreateNothing,
       BeginEdit, Authorize, LoadRow, Merge, CommitEdit, CommitDelete, RefuseEdit,
       ReadRows, ReadParts, BeginFinalize, CommitFinalize, RefuseFinalize,
       AnswerFinalize, Reads, vars

(* What an edit leaves in the row it was made on.                          *)
LEMMA EditLeaves ==
  ASSUME TypeOK, CallsOK, NEW c \in Calls, CommitEdit(c)
  PROVE  LET call == calls[c].call
             old  == expenses[call.e].bill
         IN  /\ DOMAIN expenses' = DOMAIN expenses
             /\ \A e \in DOMAIN expenses : e # call.e => expenses'[e] = expenses[e]
             /\ call.patch \in Patches /\ old \in Bills
             /\ FromRow(calls[c].columns, call.patch, old)
             /\ expenses'[call.e].bill = Overwrite(old, calls[c].columns)
<1> DEFINE call == calls[c].call
           old == expenses[call.e].bill
<1>1. Current(call, expenses) /\ FromRow(calls[c].columns, call.patch, old)
  BY EditIsLedgerStep
<1>2. call.e \in DOMAIN expenses /\ expenses[call.e] \in Rows
  BY <1>1 DEF Current, TypeOK
<1>3. call.patch \in Patches
  BY DEF CommitEdit, CallsOK, CallOK, Writing
<1>4. /\ DOMAIN expenses' = DOMAIN expenses
      /\ \A e \in DOMAIN expenses : e # call.e => expenses'[e] = expenses[e]
      /\ expenses'[call.e].bill = Overwrite(old, calls[c].columns)
  BY <1>2 DEF CommitEdit, Writes, TxUpdate, Edited, Rows
<1>5. old \in Bills
  BY <1>2 DEF Rows
<1> QED
  BY <1>1, <1>3, <1>4, <1>5

(* The columns of each kind of edit, one by one.                           *)
LEMMA CardColumnsAre ==
  ASSUME NEW patch, DOMAIN patch \subseteq PatchFields, NEW zone
  PROVE  /\ \A f \in {"local", "ccy", "spent", "parts"} :
               /\ f \in DOMAIN CardColumns(patch, zone) <=> f \in DOMAIN patch
               /\ f \in DOMAIN patch => CardColumns(patch, zone)[f] = patch[f]
         /\ "settled" \in DOMAIN CardColumns(patch, zone) <=> "billed" \in DOMAIN patch
         /\ "billed" \in DOMAIN patch => CardColumns(patch, zone)["settled"] = patch["billed"]
         /\ "date" \in DOMAIN CardColumns(patch, zone) <=> "spent" \in DOMAIN patch
         /\ "spent" \in DOMAIN patch =>
               CardColumns(patch, zone)["date"] = DateIn(patch["spent"], zone)
         /\ "source" \notin DOMAIN CardColumns(patch, zone)
         /\ "fx" \notin DOMAIN CardColumns(patch, zone)
<1> DEFINE dated == IF "spent" \in DOMAIN patch THEN {"date"} ELSE {}
           billing == IF "billed" \in DOMAIN patch THEN {"settled"} ELSE {}
           dom == (DOMAIN patch \ {"billed"}) \cup dated \cup billing
           col(f) == CASE f = "date" -> DateIn(patch.spent, zone)
                       [] f = "settled" -> patch.billed
                       [] OTHER -> patch[f]
<1>1. CardColumns(patch, zone) = [f \in dom |-> col(f)]
  BY DEF CardColumns
<1>2. /\ \A f \in {"local", "ccy", "spent", "parts"} : f \in dom <=> f \in DOMAIN patch
      /\ "settled" \in dom <=> "billed" \in DOMAIN patch
      /\ "date" \in dom <=> "spent" \in DOMAIN patch
      /\ "source" \notin dom
      /\ "fx" \notin dom
  BY DEF PatchFields
<1>3. /\ \A f \in {"local", "ccy", "spent", "parts"} : col(f) = patch[f]
      /\ col("settled") = patch["billed"]
      /\ col("date") = DateIn(patch["spent"], zone)
  OBVIOUS
<1> HIDE DEF dom, col
<1> QED
  BY <1>1, <1>2, <1>3

LEMMA WrittenByEdit ==
  ASSUME NEW patch, DOMAIN patch \subseteq PatchFields, NEW bill, NEW columns,
         FromRow(columns, patch, bill), NEW new, new = Overwrite(bill, columns)
  PROVE  /\ \A f \in {"local", "ccy", "spent", "parts"} :
               new[f] = IF f \in DOMAIN patch THEN patch[f] ELSE bill[f]
         /\ bill["source"] = "card" =>
               /\ new["fx"] = bill["fx"]
               /\ new["settled"] = IF "billed" \in DOMAIN patch
                                   THEN patch["billed"] ELSE bill["settled"]
         /\ ~EditsRate(patch) =>
               \A f \in {"date", "settled", "fx"} : new[f] = bill[f]
         /\ "manual" \in DOMAIN patch /\ new["ccy"] # Home =>
               new["fx"] = FxOf(patch["manual"], "manual")
         /\ new["source"] = bill["source"]
<1>1. CASE ~EditsRate(patch)
  <2>1. /\ new = Overwrite(bill, patch)
        /\ DOMAIN patch \cap {"source", "date", "settled", "fx", "billed", "manual"} = {}
    BY <1>1 DEF FromRow, EditsRate, PatchFields
  <2> QED
    BY <2>1 DEF Overwrite, BillFields
<1>2. CASE EditsRate(patch) /\ bill.source = "card"
  <2>1. PICK zone \in Zones : columns = CardColumns(patch, zone)
    BY <1>2 DEF FromRow, ColumnsOf
  <2>2. new = Overwrite(bill, CardColumns(patch, zone)) /\ "manual" \notin DOMAIN patch
    BY <1>2, <2>1 DEF FromRow, ChangesSource
  <2> QED
    BY <1>2, <2>2, CardColumnsAre DEF Overwrite, BillFields
<1>3. CASE EditsRate(patch) /\ bill.source # "card"
  <2>0. PICK zone \in Zones : \E fx \in FxOfEdit(patch, bill, zone) :
           columns = ConvertedColumns(patch, bill, zone, fx)
    BY <1>3 DEF FromRow, ColumnsOf
  <2>1. PICK fx \in FxOfEdit(patch, bill, zone) :
           columns = ConvertedColumns(patch, bill, zone, fx)
    BY <2>0
  <2>2. /\ \A f \in {"local", "ccy", "spent", "parts"} :
              new[f] = IF f \in DOMAIN patch THEN patch[f] ELSE bill[f]
        /\ new["fx"] = fx /\ new["source"] = bill["source"]
    BY <2>1 DEF ConvertedColumns, Merged, Overwrite, BillFields, PatchFields
  <2>3. "manual" \in DOMAIN patch /\ new["ccy"] # Home => fx = FxOf(patch["manual"], "manual")
    <3>1. Merged(patch, bill)["ccy"] = new["ccy"]
      BY <2>2 DEF Merged
    <3> QED
      BY <1>3, <2>1, <3>1 DEF FxOfEdit, Resolved, LooksUp
  <2> QED
    BY <1>3, <2>2, <2>3
<1> QED
  BY <1>1, <1>2, <1>3

(* Under any overlap of edits, none of them takes back what another wrote: *)
(* what an edit writes beside the fields it names, and what follows from   *)
(* them, is what it found there.                                           *)
THEOREM EditsKeepOthersWork == RequestSpec => EditChangesWhatItNames
<1> DEFINE patch(c) == calls[c].call.patch
           old(c) == expenses[calls[c].call.e]
           new(c) == expenses'[calls[c].call.e]
           Names(c, fields) == DOMAIN patch(c) \cap fields # {}
           Apart(c) ==
             /\ \A f \in {"local", "ccy", "spent", "parts"} :
                   new(c).bill[f] = IF Names(c, {f}) THEN patch(c)[f] ELSE old(c).bill[f]
             /\ new(c).state = IF Names(c, {"state"}) THEN patch(c).state ELSE old(c).state
             /\ old(c).bill.source = "card" =>
                   /\ new(c).bill.fx = old(c).bill.fx
                   /\ new(c).bill.settled = IF Names(c, {"billed"}) THEN patch(c).billed
                                            ELSE old(c).bill.settled
             /\ ~Names(c, {"local", "ccy", "spent", "manual", "billed"}) =>
                   \A f \in {"date", "settled", "fx"} :
                       new(c).bill[f] = old(c).bill[f]
             /\ Names(c, {"manual"}) /\ new(c).bill.ccy # Home =>
                   new(c).bill.fx = FxOf(patch(c).manual, "manual")
<1>1. ASSUME TypeOK, CallsOK, [RequestNext]_everything, NEW c \in Calls,
             calls[c].at = "write", Commits(c)
      PROVE  Apart(c)
  <2>1. CommitEdit(c)
    BY <1>1, CommitsAre DEF Commits, everything
  <2>2. /\ patch(c) \in Patches
        /\ FromRow(calls[c].columns, patch(c), old(c).bill)
        /\ new(c).bill = Overwrite(old(c).bill, calls[c].columns)
    BY <1>1, <2>1, EditLeaves
  <2>3. DOMAIN patch(c) \subseteq PatchFields
    BY <2>2, PatchAssumption
  <2>4. new(c).state = IF "state" \in DOMAIN patch(c) THEN patch(c).state ELSE old(c).state
    <3>1. old(c) \in Rows /\ calls[c].call.e \in DOMAIN expenses
      BY <1>1, <2>1, EditIsLedgerStep DEF Current, TypeOK
    <3> QED
      BY <2>1, <3>1 DEF CommitEdit, Writes, TxUpdate, Edited, Rows
  <2>5. \A f : Names(c, {f}) <=> f \in DOMAIN patch(c)
    OBVIOUS
  <2> HIDE DEF patch, old, new
  <2>6. /\ \A f \in {"local", "ccy", "spent", "parts"} :
              new(c).bill[f] = IF f \in DOMAIN patch(c) THEN patch(c)[f] ELSE old(c).bill[f]
        /\ old(c).bill["source"] = "card" =>
              /\ new(c).bill["fx"] = old(c).bill["fx"]
              /\ new(c).bill["settled"] = IF "billed" \in DOMAIN patch(c)
                                          THEN patch(c)["billed"] ELSE old(c).bill["settled"]
        /\ ~EditsRate(patch(c)) =>
              \A f \in {"date", "settled", "fx"} : new(c).bill[f] = old(c).bill[f]
        /\ "manual" \in DOMAIN patch(c) /\ new(c).bill["ccy"] # Home =>
              new(c).bill["fx"] = FxOf(patch(c)["manual"], "manual")
    BY <2>2, <2>3, WrittenByEdit
  <2> QED
    BY <2>4, <2>5, <2>6 DEF EditsRate
<1>2. TypeOK /\ CallsOK /\ [RequestNext]_everything =>
         \A c \in Calls : calls[c].at = "write" /\ Commits(c) => Apart(c)
  BY <1>1
<1> QED
  BY <1>2, RequestInvariant, PTL DEF RequestSpec, EditChangesWhatItNames

(* An expense is changed for its creator, its payer or somebody the guard  *)
(* found to be the admin, although authorization comes before the lock.    *)
THEOREM WritesAreAuthorised == RequestSpec => AuthorisedWrite
<1> DEFINE Authorised(c) ==
       calls[c].at \in {"write", "erase"} /\ Commits(c) =>
           \/ CallOf(c).role = "admin"
           \/ CallOf(c).by \in {expenses'[CallOf(c).e].creator,
                                expenses'[CallOf(c).e].payer}
<1>1. ASSUME TypeOK, CallsOK, [RequestNext]_everything, NEW c \in Calls
      PROVE  Authorised(c)
  <2> SUFFICES ASSUME calls[c].at \in {"write", "erase"}, Commits(c)
               PROVE  \/ CallOf(c).role = "admin"
                      \/ CallOf(c).by \in {expenses'[CallOf(c).e].creator,
                                           expenses'[CallOf(c).e].payer}
    OBVIOUS
  <2>1. CommitEdit(c) \/ CommitDelete(c)
    BY <1>1, CommitsAre DEF Commits, everything
  <2>2. Entitled(CallOf(c), trip, expenses)
    BY <1>1 DEF CallOf, CallsOK, CallOK, Writing, Editing
  <2>3. StillAt(CallOf(c).e, CallOf(c).version) /\ trip' = trip
    BY <2>1 DEF CommitEdit, CommitDelete, Writes, TxUpdate, TxSoftDelete, CallOf
  <2>4. Moves
    BY <1>1, RequestStep, LedgerMoves
  <2> QED
    BY <2>2, <2>3, <2>4 DEF Entitled, StillAt, Moves
<1>2. TypeOK /\ CallsOK /\ [RequestNext]_everything => \A c \in Calls : Authorised(c)
  BY <1>1
<1> QED
  BY <1>2, RequestInvariant, PTL DEF RequestSpec, AuthorisedWrite

-----------------------------------------------------------------------------
(* An edit of a consistent row leaves a consistent row.                    *)
LEMMA EditedIsDerived ==
  ASSUME NEW patch, DOMAIN patch \subseteq PatchFields, NEW bill, Derived(bill),
         NEW columns, FromRow(columns, patch, bill),
         NEW new, new = Overwrite(bill, columns)
  PROVE  Derived(new)
<1>1. CASE ~EditsRate(patch)
  <2> DEFINE Fixed == {"source", "local", "ccy", "spent", "date", "settled", "fx"}
  <2>1. new = Overwrite(bill, patch) /\ DOMAIN patch \cap Fixed = {}
    BY <1>1 DEF FromRow, EditsRate, PatchFields
  <2>2. \A f \in Fixed : new[f] = bill[f]
    BY <2>1 DEF Overwrite, BillFields
  <2> QED
    BY <2>2 DEF Derived
<1>2. CASE EditsRate(patch) /\ bill.source = "card"
  <2>1. PICK zone \in Zones : new = Overwrite(bill, CardColumns(patch, zone))
    BY <1>2 DEF FromRow, ColumnsOf
  <2>2. /\ new["source"] = bill["source"] /\ new["fx"] = bill["fx"]
        /\ IF "spent" \in DOMAIN patch
           THEN new["spent"] = patch["spent"] /\ new["date"] = DateIn(patch["spent"], zone)
           ELSE new["spent"] = bill["spent"] /\ new["date"] = bill["date"]
    BY <2>1, CardColumnsAre DEF Overwrite, BillFields
  <2> QED
    BY <1>2, <2>2 DEF Derived
<1>3. CASE EditsRate(patch) /\ bill.source # "card"
  <2> DEFINE merged == Merged(patch, bill)
  <2>0. PICK zone \in Zones : \E fx \in FxOfEdit(patch, bill, zone) :
           columns = ConvertedColumns(patch, bill, zone, fx)
    BY <1>3 DEF FromRow, ColumnsOf
  <2>1. PICK fx \in FxOfEdit(patch, bill, zone) :
           columns = ConvertedColumns(patch, bill, zone, fx)
    BY <2>0
  <2>2. /\ new["source"] = bill["source"] /\ new["local"] = merged["local"]
        /\ new["ccy"] = merged["ccy"] /\ new["spent"] = merged["spent"]
        /\ new["date"] = DateIn(merged["spent"], zone) /\ new["fx"] = fx
        /\ new["settled"] = Priced(merged["local"], merged["ccy"], fx.rate)
    BY <2>1 DEF ConvertedColumns, Merged, Overwrite, BillFields, PatchFields
  <2>3. fx \in Resolved(new["ccy"], new["date"], patch)
    BY <1>3, <2>1, <2>2 DEF FxOfEdit
  <2>4. IF new["ccy"] = Home THEN fx = FxOf(1, "identity")
        ELSE fx.from = "manual" \/ fx \in Found(new["ccy"], new["date"])
    BY <2>3 DEF Resolved, LooksUp, FxOf
  <2> QED
    BY <1>3, <2>2, <2>4 DEF Derived
<1> QED
  BY <1>1, <1>2, <1>3

(* A step that neither creates nor edits leaves every bill as it was.      *)
BillsKept ==
    \A e \in DOMAIN expenses' :
        e \in DOMAIN expenses /\ expenses'[e].bill = expenses[e].bill

LEMMA BillsKeptElsewhere ==
  ASSUME TypeOK, CallsOK, RequestNext,
         \A c \in Calls : ~CommitCreate(c) /\ ~CommitEdit(c)
  PROVE  BillsKept
<1>1. ASSUME NEW c \in Calls, CommitDelete(c) PROVE BillsKept
  BY <1>1 DEF CommitDelete, TxSoftDelete, BillsKept, TypeOK, Rows
<1>2. CASE expenses' = expenses
  BY <1>2 DEF BillsKept
<1>3. CASE Elsewhere
  BY <1>2, <1>3 DEF Elsewhere, TxUnlock, TxUpdateTrip, TxTransferAdmin, TxDeleteTrip,
                    BillsKept
<1>4. ASSUME NEW c \in Calls, ExpenseCall(c) \/ FinalizeCall(c) PROVE BillsKept
  BY <1>1, <1>2, <1>4
     DEF ExpenseCall, FinalizeCall, BeginCreate, CreateNothing, BeginEdit, Authorize,
         LoadRow, Merge, RefuseEdit, ReadRows, ReadParts, BeginFinalize,
         CommitFinalize, TxFinalize, RefuseFinalize, AnswerFinalize, Reads, vars
<1> QED
  BY <1>3, <1>4 DEF RequestNext

(* What a creation inserts.                                                *)
LEMMA CreateLeaves ==
  ASSUME TypeOK, CallsOK, NEW c \in Calls, CommitCreate(c)
  PROVE  /\ trip.zone \in Zones
         /\ \A e \in DOMAIN expenses' :
               \/ e \in DOMAIN expenses /\ expenses'[e] = expenses[e]
               \/ /\ e \notin DOMAIN expenses
                  /\ \E fx \in FxOfInput(calls[c].input, trip.zone) :
                        expenses'[e].bill = BillOf(calls[c].input, trip.zone, fx)
BY DEF CommitCreate, TxCreate, InsertExpense, NewRow, TypeOK

(* A bill as createExpense puts it together fits together.                 *)
LEMMA CreatedIsDerived ==
  ASSUME NEW input, NEW zone \in Zones, NEW fx \in FxOfInput(input, zone)
  PROVE  Derived(BillOf(input, zone, fx))
<1> DEFINE bill == BillOf(input, zone, fx)
<1>1. /\ bill["local"] = input.local /\ bill["ccy"] = input.ccy
      /\ bill["spent"] = input.spent /\ bill["date"] = DateIn(input.spent, zone)
      /\ bill["fx"] = fx
      /\ bill["source"] = IF "billed" \in DOMAIN input THEN "card" ELSE "converted"
      /\ "billed" \notin DOMAIN input =>
            bill["settled"] = Priced(input.local, input.ccy, fx.rate)
  BY DEF BillOf, BillFields
<1>2. "billed" \notin DOMAIN input =>
         IF input.ccy = Home THEN fx = FxOf(1, "identity")
         ELSE fx.from = "manual" \/ fx \in Found(input.ccy, bill["date"])
  BY <1>1 DEF FxOfInput, Resolved, LooksUp, FxOf
<1>3. "billed" \in DOMAIN input => fx = NoFx
  BY DEF FxOfInput
<1> HIDE DEF bill
<1>4. \E z \in Zones : bill["date"] = DateIn(bill["spent"], z)
  BY <1>1
<1>5. IF bill["source"] = "card" THEN bill["fx"] = NoFx
      ELSE /\ bill["settled"] = Priced(bill["local"], bill["ccy"], bill["fx"].rate)
           /\ IF bill["ccy"] = Home THEN bill["fx"] = FxOf(1, "identity")
              ELSE bill["fx"].from = "manual" \/ bill["fx"] \in Found(bill["ccy"], bill["date"])
  BY <1>1, <1>2, <1>3
<1>6. Derived(bill)
  BY <1>4, <1>5 DEF Derived
<1> QED
  BY <1>6 DEF bill

(* Amount, rate, currency, day and instant of an expense always belong     *)
(* together, whatever rates are found, brought or replaced.                *)
THEOREM AmountsAreDerived == RequestSpec => []DerivedFromItsRow
<1>1. RequestInit => DerivedFromItsRow
  BY DEF RequestInit, Init, DerivedFromItsRow
<1>2. TypeOK /\ CallsOK /\ DerivedFromItsRow /\ [RequestNext]_everything
        => DerivedFromItsRow'
  <2> SUFFICES ASSUME TypeOK, CallsOK, DerivedFromItsRow, [RequestNext]_everything
               PROVE  DerivedFromItsRow'
    OBVIOUS
  <2>1. ASSUME NEW c \in Calls, CommitCreate(c) PROVE DerivedFromItsRow'
    <3>1. \A fx \in FxOfInput(calls[c].input, trip.zone) :
             Derived(BillOf(calls[c].input, trip.zone, fx))
      BY <2>1, CreateLeaves, CreatedIsDerived
    <3> QED
      BY <2>1, <3>1, CreateLeaves DEF DerivedFromItsRow
  <2>2. ASSUME NEW c \in Calls, CommitEdit(c) PROVE DerivedFromItsRow'
    <3> DEFINE call == calls[c].call
               old == expenses[call.e].bill
    <3>1. /\ FromRow(calls[c].columns, call.patch, old)
          /\ expenses'[call.e].bill = Overwrite(old, calls[c].columns)
      BY <2>2, EditLeaves
    <3>2. DOMAIN call.patch \subseteq PatchFields
      BY <2>2, EditLeaves, PatchAssumption
    <3>3. Derived(old)
      BY <2>2 DEF DerivedFromItsRow, CommitEdit, Writes, TxUpdate, StillAt
    <3>4. Derived(expenses'[call.e].bill)
      BY <3>1, <3>2, <3>3, EditedIsDerived
    <3> QED
      BY <2>2, <3>4, EditLeaves DEF DerivedFromItsRow
  <2>3. CASE UNCHANGED everything
    BY <2>3 DEF everything, DerivedFromItsRow
  <2>4. CASE RequestNext /\ \A c \in Calls : ~CommitCreate(c) /\ ~CommitEdit(c)
    BY <2>4, BillsKeptElsewhere DEF BillsKept, DerivedFromItsRow
  <2> QED
    BY <2>1, <2>2, <2>3, <2>4
<1> QED
  BY <1>1, <1>2, RequestInvariant, PTL DEF RequestSpec

(* The verification of the zone under the lock is enough: a new expense is *)
(* filed under its day in the zone the trip has when it is inserted.       *)
THEOREM CreatedOnTheRightDay == RequestSpec => CreatedInTheTripsZone
<1> DEFINE RightDay ==
       \A e \in DOMAIN expenses' \ DOMAIN expenses :
           expenses'[e].bill.date = DateIn(expenses'[e].bill.spent, trip.zone)
<1>1. TypeOK /\ CallsOK /\ [RequestNext]_everything => RightDay
  <2> SUFFICES ASSUME TypeOK, CallsOK, [RequestNext]_everything PROVE RightDay
    OBVIOUS
  <2>1. ASSUME NEW c \in Calls, CommitCreate(c) PROVE RightDay
    <3>1. \A fx : BillOf(calls[c].input, trip.zone, fx).date =
             DateIn(BillOf(calls[c].input, trip.zone, fx).spent, trip.zone)
      BY DEF BillOf, BillFields
    <3> QED
      BY <2>1, <3>1, CreateLeaves
  <2>2. ASSUME NEW c \in Calls, CommitEdit(c) PROVE RightDay
    BY <2>2, EditLeaves
  <2>3. CASE UNCHANGED everything
    BY <2>3 DEF everything
  <2>4. CASE RequestNext /\ \A c \in Calls : ~CommitCreate(c) /\ ~CommitEdit(c)
    BY <2>4, BillsKeptElsewhere DEF BillsKept
  <2> QED
    BY <2>1, <2>2, <2>3, <2>4
<1> QED
  BY <1>1, RequestInvariant, PTL DEF RequestSpec, CreatedInTheTripsZone

(* The answer of finalize, read in a later transaction, settles the bills  *)
(* it comes with: the snapshot of a finalized trip is its live settlement. *)
THEOREM AnswersAddUp == RequestSpec => []AnswerSettlesItsBills
<1>1. RequestInit => AnswerSettlesItsBills
  BY DEF RequestInit, Idle, AnswerSettlesItsBills
<1>2. TypeOK /\ CallsOK /\ SnapshotIsLive /\ AnswerSettlesItsBills
        /\ [RequestNext]_everything => AnswerSettlesItsBills'
  <2> SUFFICES ASSUME TypeOK, CallsOK, SnapshotIsLive, AnswerSettlesItsBills,
                      [RequestNext]_everything,
                      NEW c \in Calls, calls'[c].at = "answered",
                      CanSettle(calls'[c].bills)
               PROVE  calls'[c].transfers = Settle(calls'[c].bills)
    BY DEF AnswerSettlesItsBills
  <2>1. CASE calls'[c] = calls[c]
    BY <2>1 DEF AnswerSettlesItsBills
  <2>2. CASE calls'[c] # calls[c]
    <3>1. ExpenseCall(c) \/ FinalizeCall(c)
      BY <2>2, TheOneThatMoves DEF everything
    <3>2. \A s : Goes(c, s) => calls'[c] = s
      BY DEF Goes, CallsOK
    <3>3. CASE Authorize(c)
      <4>1. calls[c] \in EditCalls
        BY <3>3 DEF Authorize, CallsOK, CallOK, Editing
      <4>2. calls'[c].at # "answered"
        BY <3>2, <3>3, <4>1 DEF Authorize, EditCalls
      <4> QED
        BY <4>2
    <3>4. ASSUME NEW by \in Members, BeginFinalize(c, by) PROVE calls'[c].at = "finalize"
      <4>1. calls[c] = [at |-> "shown", rows |-> calls[c].rows, parts |-> calls[c].parts]
        BY <3>4 DEF BeginFinalize, CallsOK, CallOK, Reviewing
      <4> QED
        BY <3>2, <3>4, <4>1 DEF BeginFinalize
    <3>5. CASE AnswerFinalize(c)
      <4>1. calls'[c] = Settlement
        BY <3>2, <3>5 DEF AnswerFinalize
      <4>2. trip.status = "finalized" => Settlement.transfers = Settle(Inventory)
                                          /\ Settlement.bills = Inventory
        BY DEF Settlement, SnapshotIsLive
      <4>3. trip.status = "open" /\ CanSettle(Inventory) =>
               Settlement.transfers = Settle(Inventory) /\ Settlement.bills = Inventory
        BY DEF Settlement
      <4>4. trip.status = "open" => Settlement.bills = Inventory
        BY DEF Settlement
      <4>5. trip.status \notin {"open", "finalized"} => Settlement.at = "ended"
        BY DEF Settlement, Ended
      <4>6. Settlement.at = "answered" /\ CanSettle(Settlement.bills)
        BY <4>1
      <4>7. Settlement.transfers = Settle(Settlement.bills)
        BY <4>2, <4>3, <4>4, <4>5, <4>6
      <4>8. calls'[c].transfers = Settlement.transfers /\ calls'[c].bills = Settlement.bills
        BY <4>1
      <4> QED
        BY <4>7, <4>8
    <3>6. CASE ~Authorize(c) /\ ~AnswerFinalize(c)
      <4>1. ASSUME NEW s, Goes(c, s), s.at # "answered" PROVE calls'[c].at # "answered"
        BY <3>2, <4>1
      <4>2. ASSUME NEW by \in Members, NEW input \in Inputs, NEW key \in Keys \cup {NoKey},
                   BeginCreate(c, by, input, key)
            PROVE  calls'[c].at # "answered"
        BY <4>1, <4>2 DEF BeginCreate
      <4>3. ASSUME NEW by \in Members, NEW e \in ExpenseIds, NEW version \in 0 .. MaxVersion,
                   NEW patch \in Patches \cup {Erase}, BeginEdit(c, by, e, version, patch)
            PROVE  calls'[c].at # "answered"
        BY <4>1, <4>3 DEF BeginEdit
      <4>4. CASE CommitCreate(c) \/ CreateNothing(c) \/ CommitEdit(c) \/ CommitDelete(c)
                 \/ RefuseEdit(c) \/ RefuseFinalize(c)
        BY <4>1, <4>4 DEF CommitCreate, CreateNothing, CommitEdit, CommitDelete,
                          RefuseEdit, RefuseFinalize, Ended
      <4>5. CASE LoadRow(c)
        BY <4>1, <4>5 DEF LoadRow
      <4>6. CASE Merge(c)
        BY <4>1, <4>6 DEF Merge
      <4>7. CASE ReadRows(c)
        BY <4>1, <4>7 DEF ReadRows
      <4>8. CASE ReadParts(c)
        BY <4>1, <4>8 DEF ReadParts
      <4>9. CASE CommitFinalize(c)
        BY <4>1, <4>9 DEF CommitFinalize
      <4> QED
        BY <3>1, <3>4, <3>6, <4>2, <4>3, <4>4, <4>5, <4>6, <4>7, <4>8, <4>9
           DEF ExpenseCall, FinalizeCall
    <3> QED
      BY <3>3, <3>5, <3>6
  <2> QED
    BY <2>1, <2>2
<1> QED
  BY <1>1, <1>2, RequestInvariant, RequestsImplementLedger, FinalizedIsLive, PTL
     DEF RequestSpec

-----------------------------------------------------------------------------
(* What TripLedger promises holds with requests in flight: reads made      *)
(* before the lock, stale or not, break none of it.                        *)
THEOREM LedgerHoldsUnderRequests ==
  RequestSpec => /\ [](SnapshotIsLive /\ OnlyNewestActive /\ NoStrandedPayment)
                 /\ [](LogExplainsPayments /\ AuditReplays /\ OneLivePerKey)
                 /\ HistoryIsKept
                 /\ ImplementsCycle
  BY RequestsImplementLedger, FinalizedIsLive, NewestIsActive, PaymentsNeverStranded,
     LogIsTrue, AuditIsComplete, RetriesAreHarmless, HistoryAlwaysKept,
     LedgerImplementsCycle, PTL
=============================================================================
