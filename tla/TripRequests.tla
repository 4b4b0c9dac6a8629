---------------------------- MODULE TripRequests ----------------------------
(***************************************************************************)
(* The request handlers above the transactions of TripLedger.              *)
(*                                                                         *)
(* A handler reads before it locks: the guard reads the caller's role, the *)
(* service the trip's status and time zone, the row to be edited, the      *)
(* expenses to be reviewed.  Every such read is a step here, what it found *)
(* travels in the call, and everything else may happen before the          *)
(* transaction, which is an action of TripLedger.  A refusal (4xx) ends    *)
(* the call and changes no row.  Calls are made once: Calls bounds how     *)
(* many requests a behaviour has.                                          *)
(***************************************************************************)
EXTENDS TripLedger

CONSTANTS
    Calls,           \* requests
    Inputs,          \* bodies of POST expenses
    Patches,         \* bodies of PATCH expense: functions from field names
    Erase,           \* stands for the body DELETE does not have
    Home,            \* settlement_currency of the trip
    NoFx,            \* exchange_rate and exchange_rate_source are NULL
    DateIn(_, _),    \* localDate: the day of an instant in a time zone
    Found(_, _),     \* the rates a lookup may find for a currency and a day
    Priced(_, _, _)  \* convert: an amount of a currency at a rate

(* The fields of an expense a settlement or a conversion looks at, and     *)
(* those an edit may name; the others (title, memo, ...) only move its     *)
(* version.  "fx" is exchange_rate with exchange_rate_source; the provider *)
(* and the age of its table are written with them and left out.  A body    *)
(* may bring a rate of its own ("manual") or what a card was billed.       *)
BillFields  == {"source", "local", "ccy", "spent", "date", "parts", "settled", "fx"}
PatchFields == {"local", "ccy", "spent", "manual", "billed", "parts", "state"}

ASSUME PatchAssumption ==
    /\ Erase \notin Patches
    /\ \A patch \in Patches : DOMAIN patch \subseteq PatchFields
    /\ \A bill \in Bills : bill = [f \in BillFields |-> bill[f]]

VARIABLE calls       \* where each request is, and what it holds

everything == <<trip, admin, expenses, audit, settlements, payments, calls>>

Goes(c, state) == calls' = [calls EXCEPT ![c] = state]

Idle  == [at |-> "idle"]
Ended == [at |-> "ended"]

(* A read, or an answer: no row changes. *)
Reads == UNCHANGED vars

(* requireTripMember: the role the rest of the request goes by. *)
RoleOf(member) == IF member = admin THEN "admin" ELSE "member"

IsLive(e) == e \in DOMAIN expenses /\ ~expenses[e].deleted

-----------------------------------------------------------------------------
(* POST expenses. *)

(* createExpense reads status and zone (assertTripOpen). *)
BeginCreate(c, by, input, key) ==
    /\ calls[c].at = "idle"
    /\ trip.status = "open"
    /\ Goes(c, [at |-> "create", by |-> by, input |-> input, key |-> key,
                zone |-> trip.zone])
    /\ Reads

FxOf(rate, from) == [rate |-> rate, from |-> from]

LooksUp(ccy, body) == ccy # Home /\ "manual" \notin DOMAIN body

(* resolveFx: the settlement currency needs no rate, a rate in the body is *)
(* taken as it is, any other is looked up again every time, in the cache,  *)
(* at the providers, in the last known table, among the trip's defaults.   *)
Resolved(ccy, date, body) ==
    CASE LooksUp(ccy, body) -> Found(ccy, date)
      [] ccy = Home         -> {FxOf(1, "identity")}
      [] OTHER              -> {FxOf(body.manual, "manual")}

(* A card bill is taken as it is, anything else is converted.              *)
FxOfInput(input, zone) ==
    IF "billed" \in DOMAIN input THEN {NoFx}
    ELSE Resolved(input.ccy, DateIn(input.spent, zone), input)

(* What persist is given. *)
BillOf(input, zone, fx) ==
    [f \in BillFields |->
        CASE f = "date" -> DateIn(input.spent, zone)
          [] f = "fx"   -> fx
          [] f = "source" ->
                IF "billed" \in DOMAIN input THEN "card" ELSE "converted"
          [] f = "settled" ->
                IF "billed" \in DOMAIN input
                THEN input.billed ELSE Priced(input.local, input.ccy, fx.rate)
          [] OTHER -> input[f]]

CommitCreate(c) ==
    /\ calls[c].at = "create"
    /\ \E e \in ExpenseIds, fx \in FxOfInput(calls[c].input, calls[c].zone) :
          TxCreate(e, calls[c].by, calls[c].input.payer,
                   BillOf(calls[c].input, calls[c].zone, fx),
                   calls[c].input.state, calls[c].key, calls[c].zone)
    /\ Goes(c, Ended)

(* The trip was finalized, deleted or moved to another zone (409), a live  *)
(* expense has the key already and is the answer, or no rate was found     *)
(* (422).                                                                  *)
CreateNothing(c) ==
    /\ calls[c].at = "create"
    /\ \/ trip.status # "open"
       \/ trip.zone # calls[c].zone
       \/ /\ calls[c].key # NoKey
          /\ LiveWithKey(calls[c].by, calls[c].key) # {}
       \/ /\ "billed" \notin DOMAIN calls[c].input
          /\ LooksUp(calls[c].input.ccy, calls[c].input)
    /\ Goes(c, Ended)
    /\ Reads

-----------------------------------------------------------------------------
(* PATCH and DELETE of an expense. *)

(* The guard.  The client names a version it has seen. *)
BeginEdit(c, by, e, version, patch) ==
    /\ calls[c].at = "idle"
    /\ e \in DOMAIN expenses
    /\ version <= expenses[e].version
    /\ Goes(c, [at |-> "authorize", by |-> by, role |-> RoleOf(by), e |-> e,
                version |-> version, patch |-> patch])
    /\ Reads

\* Mutant: a member of the trip may edit any of its expenses.
AllowedToAnyone(c) == IsLive(calls[c].e)

(* authorizeMutation: an admin, the creator or the payer. *)
Allowed(c) ==
    LET call == calls[c]
    IN  /\ IsLive(call.e)
        /\ \/ call.role = "admin"
           \/ call.by \in {expenses[call.e].creator, expenses[call.e].payer}

\* Mutant: a new instant is not taken for a reason to convert again.
EditsRateWithoutInstant(patch) ==
    DOMAIN patch \cap {"local", "ccy", "manual", "billed"} # {}

(* fxEdit: the edit names something the converted amount depends on. *)
EditsRate(patch) ==
    DOMAIN patch \cap {"local", "ccy", "spent", "manual", "billed"} # {}

(* An edit that needs no rate writes the columns it names. *)
Authorize(c) ==
    /\ calls[c].at = "authorize"
    /\ Allowed(c)
    /\ Goes(c, CASE calls[c].patch = Erase -> [calls[c] EXCEPT !.at = "erase"]
                 [] calls[c].patch # Erase /\ EditsRate(calls[c].patch) ->
                        [calls[c] EXCEPT !.at = "load"]
                 [] OTHER -> [at |-> "write", call |-> calls[c],
                              columns |-> calls[c].patch])
    /\ Reads

(* findById: the row the edit is merged with, outside any transaction. *)
LoadRow(c) ==
    /\ calls[c].at = "load"
    /\ IsLive(calls[c].e)
    /\ Goes(c, [at |-> "merge", call |-> calls[c], row |-> expenses[calls[c].e].bill])
    /\ Reads

(* A card bill is patched field by field; its date follows its instant. *)
CardColumns(patch, zone) ==
    LET dated == IF "spent" \in DOMAIN patch THEN {"date"} ELSE {}
    IN  [f \in (DOMAIN patch \ {"billed"}) \cup dated
              \cup (IF "billed" \in DOMAIN patch THEN {"settled"} ELSE {}) |->
            CASE f = "date" -> DateIn(patch.spent, zone)
              [] f = "settled" -> patch.billed
              [] OTHER -> patch[f]]

(* A converted one is computed anew from the merged values, at a rate      *)
(* resolved anew.                                                          *)
Merged(patch, row) ==
    [f \in {"local", "ccy", "spent"} |-> IF f \in DOMAIN patch THEN patch[f] ELSE row[f]]

FxOfEdit(patch, row, zone) ==
    IF row.source = "card" THEN {NoFx}
    ELSE Resolved(Merged(patch, row).ccy, DateIn(Merged(patch, row).spent, zone), patch)

ConvertedColumns(patch, row, zone, fx) ==
    LET merged == Merged(patch, row)
    IN  [f \in (DOMAIN patch \ {"manual"}) \cup DOMAIN merged
               \cup {"date", "settled", "fx"} |->
            CASE f \in DOMAIN merged -> merged[f]
              [] f = "date" -> DateIn(merged.spent, zone)
              [] f = "settled" -> Priced(merged.local, merged.ccy, fx.rate)
              [] f = "fx" -> fx
              [] OTHER -> patch[f]]

ColumnsOf(patch, row, zone, fx) ==
    IF row.source = "card" THEN CardColumns(patch, zone)
    ELSE ConvertedColumns(patch, row, zone, fx)

(* A rate for a card bill, or a card amount for a converted one.           *)
ChangesSource(patch, row) ==
    (IF row.source = "card" THEN "manual" ELSE "billed") \in DOMAIN patch

(* assertTripOpen, then the columns are put together.                      *)
Merge(c) ==
    LET call == calls[c].call
        row  == calls[c].row
    IN  /\ calls[c].at = "merge"
        /\ trip.status = "open"
        /\ ~ChangesSource(call.patch, row)
        /\ \E fx \in FxOfEdit(call.patch, row, trip.zone) :
              Goes(c, [at |-> "write", call |-> call,
                       columns |-> ColumnsOf(call.patch, row, trip.zone, fx)])
        /\ Reads

(* updateMeta sets the columns it was given and leaves the others. *)
Overwrite(bill, columns) ==
    [f \in BillFields |-> IF f \in DOMAIN columns THEN columns[f] ELSE bill[f]]

(* Bills has room for what requests make of its members. *)
ASSUME ContentsAssumption ==
    /\ \A input \in Inputs :
          /\ input.payer \in Members /\ input.state \in States
          /\ \A zone \in Zones : \A fx \in FxOfInput(input, zone) :
                BillOf(input, zone, fx) \in Bills
    /\ \A patch \in Patches :
          /\ "state" \in DOMAIN patch => patch.state \in States
          /\ \A bill \in Bills, zone \in Zones :
                IF ~EditsRate(patch) THEN Overwrite(bill, patch) \in Bills
                ELSE ~ChangesSource(patch, bill) =>
                        \A fx \in FxOfEdit(patch, bill, zone) :
                            Overwrite(bill, ColumnsOf(patch, bill, zone, fx)) \in Bills

Writes(c) ==
    LET call == calls[c].call
    IN  TxUpdate(call.e, call.version,
                 Overwrite(expenses[call.e].bill, calls[c].columns),
                 IF "state" \in DOMAIN call.patch THEN call.patch.state
                                                  ELSE expenses[call.e].state)

CommitEdit(c) ==
    /\ calls[c].at = "write"
    /\ Writes(c)
    /\ Goes(c, Ended)

CommitDelete(c) ==
    /\ calls[c].at = "erase"
    /\ TxSoftDelete(calls[c].e, calls[c].version)
    /\ Goes(c, Ended)

(* 403, 404, 409 or 422, wherever an edit or a deletion finds nothing to   *)
(* go on with: nothing was written.  The source of an amount is not        *)
(* changed, and a converted one may come to have no rate.                  *)
RefuseEdit(c) ==
    /\ \/ calls[c].at = "authorize" /\ ~Allowed(c)
       \/ calls[c].at = "load" /\ ~IsLive(calls[c].e)
       \/ /\ calls[c].at = "merge"
          /\ \/ trip.status # "open"
             \/ ChangesSource(calls[c].call.patch, calls[c].row)
             \/ /\ calls[c].row.source # "card"
                /\ LooksUp(Merged(calls[c].call.patch, calls[c].row).ccy,
                           calls[c].call.patch)
       \/ calls[c].at = "write" /\ ~StillAt(calls[c].call.e, calls[c].call.version)
       \/ calls[c].at = "erase" /\ ~StillAt(calls[c].e, calls[c].version)
    /\ Goes(c, Ended)
    /\ Reads

-----------------------------------------------------------------------------
(* GET precheck, then POST finalize with what it showed. *)

(* The first statement of listIncludedExpenses: the rows ... *)
ReadRows(c) ==
    /\ calls[c].at = "idle"
    /\ Included # {}
    /\ Goes(c, [at |-> "rows", rows |-> [e \in Included |-> expenses[e]]])
    /\ Reads

PartsOf(e) == IF e \in DOMAIN expenses THEN expenses[e].bill.parts ELSE {}

(* ... and the second: their participants, in no transaction with it. *)
ReadParts(c) ==
    LET rows == calls[c].rows
    IN  /\ calls[c].at = "rows"
        /\ Goes(c, [at |-> "shown", rows |-> rows,
                    parts |-> [e \in DOMAIN rows |-> PartsOf(e)]])
        /\ Reads

(* The reviewer agrees, and the guard of finalize finds an admin. *)
BeginFinalize(c, by) ==
    /\ calls[c].at = "shown"
    /\ RoleOf(by) = "admin"
    /\ Goes(c, [calls[c] EXCEPT !.at = "finalize"])
    /\ Reads

SeenBy(c) == [e \in DOMAIN calls[c].rows |-> calls[c].rows[e].version]

CommitFinalize(c) ==
    /\ calls[c].at = "finalize"
    /\ TxFinalize(SeenBy(c))
    /\ Goes(c, [at |-> "answer"])

RefuseFinalize(c) ==
    /\ calls[c].at = "finalize"
    /\ \/ trip.status # "open"
       \/ SeenBy(c) # SeenVersions
       \/ ~CanSettle(Inventory)
    /\ Goes(c, Ended)
    /\ Reads

\* Mutant: an open trip is answered with its last plan.
SettlementOfLastPlan ==
    IF trip.status = "deleted" THEN Ended
    ELSE [at |-> "answered", bills |-> Inventory,
          transfers |-> settlements[Len(settlements)].transfers]

(* getSettlement, one transaction: the newest snapshot of a finalized      *)
(* trip, a computation over the expenses of an open one, 404 if it is gone. *)
Settlement ==
    CASE trip.status = "finalized" ->
            [at |-> "answered", bills |-> Inventory,
             transfers |-> settlements[Len(settlements)].transfers]
      [] trip.status = "open" ->
            [at |-> "answered", bills |-> Inventory,
             transfers |-> IF CanSettle(Inventory) THEN Settle(Inventory) ELSE {}]
      [] OTHER -> Ended

(* finalize answers with what it finds after its commit. *)
AnswerFinalize(c) ==
    /\ calls[c].at = "answer"
    /\ Goes(c, Settlement)
    /\ Reads

-----------------------------------------------------------------------------
(* Requests whose handlers are one transaction: unlock, PATCH of the trip, *)
(* the hand-over, and the deletion of the trip.                            *)
Elsewhere ==
    /\ UNCHANGED calls
    /\ \/ TxUnlock
       \/ \E zone \in Zones : TxUpdateTrip(zone)
       \/ \E member \in Members : TxTransferAdmin(member)
       \/ TxDeleteTrip(admin)

RequestInit == Init /\ calls = [c \in Calls |-> Idle]

ExpenseCall(c) ==
    \/ \E by \in Members, input \in Inputs, key \in Keys \cup {NoKey} :
          BeginCreate(c, by, input, key)
    \/ CommitCreate(c) \/ CreateNothing(c)
    \/ \E by \in Members, e \in ExpenseIds, version \in 0 .. MaxVersion,
          patch \in Patches \cup {Erase} : BeginEdit(c, by, e, version, patch)
    \/ Authorize(c) \/ LoadRow(c) \/ Merge(c)
    \/ CommitEdit(c) \/ CommitDelete(c) \/ RefuseEdit(c)

FinalizeCall(c) ==
    \/ ReadRows(c) \/ ReadParts(c)
    \/ \E by \in Members : BeginFinalize(c, by)
    \/ CommitFinalize(c) \/ RefuseFinalize(c) \/ AnswerFinalize(c)

RequestNext ==
    \/ \E c \in Calls : ExpenseCall(c) \/ FinalizeCall(c)
    \/ Elsewhere

RequestSpec == RequestInit /\ [][RequestNext]_everything

-----------------------------------------------------------------------------
(* Properties. *)

(* The step that ends a call at an expense row. *)
Commits(c) == expenses' # expenses /\ calls'[c] # calls[c]

(* An edit writes what its body names and nothing else: a request built on *)
(* a row somebody changed since, or a rate edit that merged a row it read  *)
(* before its transaction, never takes another edit back (version CAS).    *)
(* Without a reason to convert again the conversion stays as it was, and a *)
(* rate the body brings is the one the row gets.                           *)
EditChangesWhatItNames ==
    [][\A c \in Calls :
          calls[c].at = "write" /\ Commits(c) =>
              LET patch == calls[c].call.patch
                  old   == expenses[calls[c].call.e]
                  new   == expenses'[calls[c].call.e]
                  Names(fields) == DOMAIN patch \cap fields # {}
              IN  /\ \A f \in {"local", "ccy", "spent", "parts"} :
                        new.bill[f] = IF Names({f}) THEN patch[f] ELSE old.bill[f]
                  /\ new.state = IF Names({"state"}) THEN patch.state ELSE old.state
                  /\ old.bill.source = "card" =>
                        /\ new.bill.fx = old.bill.fx
                        /\ new.bill.settled = IF Names({"billed"}) THEN patch.billed
                                              ELSE old.bill.settled
                  /\ ~Names({"local", "ccy", "spent", "manual", "billed"}) =>
                        \A f \in {"date", "settled", "fx"} :
                            new.bill[f] = old.bill[f]
                  /\ Names({"manual"}) /\ new.bill.ccy # Home =>
                        new.bill.fx = FxOf(patch.manual, "manual")]_everything

(* docs/trip-mate-prd.md:802 freezes the rate of an expense, and           *)
(* docs/plans/2026-06-25-fx-pipeline-design.md:69 keeps it when only the   *)
(* amount is edited.                                                       *)
FrozenRateKept ==
    [][\A c \in Calls :
          calls[c].at = "write" /\ Commits(c) =>
              LET e == calls[c].call.e
              IN  DOMAIN calls[c].call.patch \cap {"ccy", "spent", "manual"} = {} =>
                      expenses'[e].bill.fx = expenses[e].bill.fx]_everything

Derived(bill) ==
    /\ \E zone \in Zones : bill.date = DateIn(bill.spent, zone)
    /\ IF bill.source = "card" THEN bill.fx = NoFx
       ELSE /\ bill.settled = Priced(bill.local, bill.ccy, bill.fx.rate)
            /\ IF bill.ccy = Home THEN bill.fx = FxOf(1, "identity")
               ELSE bill.fx.from = "manual" \/ bill.fx \in Found(bill.ccy, bill.date)

(* Whatever the order of edits, a converted row fits together: its         *)
(* settlement amount is the conversion of the local amount it holds at the *)
(* rate it holds; that rate was brought by a member or found for the       *)
(* currency and the day it holds; and that day is the day of its instant   *)
(* in some zone.  What an edit without an instant or a currency of its own *)
(* looks up therefore goes by those of the row it is written to.           *)
DerivedFromItsRow == \A e \in DOMAIN expenses : Derived(expenses[e].bill)

(* create verifies under its lock the zone it computed with, so a new      *)
(* expense is filed, and converted, under its day in the trip's zone.      *)
CreatedInTheTripsZone ==
    [][\A e \in DOMAIN expenses' \ DOMAIN expenses :
          expenses'[e].bill.date = DateIn(expenses'[e].bill.spent, trip.zone)]_everything

(* The same of an edit: docs/plans/2026-06-30-fx-extension-design.md:38    *)
(* keeps the verification of the zone FOR UPDATE for it.                   *)
EditedInTheTripsZone ==
    [][\A e \in DOMAIN expenses \cap DOMAIN expenses' :
          expenses'[e].bill.date # expenses[e].bill.date =>
              expenses'[e].bill.date = DateIn(expenses'[e].bill.spent, trip.zone)]_everything

(* The call as its guard made it out, wherever the handler has got to. *)
CallOf(c) == IF calls[c].at = "write" THEN calls[c].call ELSE calls[c]

(* Authorization is decided before the lock and never again.  Still, an    *)
(* expense is only changed for its creator, its payer, or somebody the     *)
(* guard found to be the admin.                                            *)
AuthorisedWrite ==
    [][\A c \in Calls :
          calls[c].at \in {"write", "erase"} /\ Commits(c) =>
              \/ CallOf(c).role = "admin"
              \/ CallOf(c).by \in {expenses'[CallOf(c).e].creator,
                                   expenses'[CallOf(c).e].payer}]_everything

(* What a reviewer was shown, rows from one statement and participants     *)
(* from another. *)
Shown(c) ==
    [e \in DOMAIN calls[c].rows |->
        [payer |-> calls[c].rows[e].payer,
         bill |-> [calls[c].rows[e].bill EXCEPT !.parts = calls[c].parts[e]]]]

(* What finalize freezes is the settlement of exactly the amounts, payers  *)
(* and participants the precheck showed, however much was edited between   *)
(* the two requests or between the two statements of the first.            *)
ShownIsFrozen ==
    [][\A c \in Calls :
          calls[c].at = "finalize" /\ settlements' # settlements
                                  /\ calls'[c] # calls[c] =>
              settlements'[Len(settlements')].transfers = Settle(Shown(c))]_everything

(* finalize answers from a later transaction: whatever came between, the   *)
(* transfers it answers with settle the expenses it answers with.          *)
AnswerSettlesItsBills ==
    \A c \in Calls :
        calls[c].at = "answered" /\ CanSettle(calls[c].bills) =>
            calls[c].transfers = Settle(calls[c].bills)
=============================================================================
