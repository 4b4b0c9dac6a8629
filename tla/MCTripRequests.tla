--------------------------- MODULE MCTripRequests ---------------------------
(* TripRequests on a small trip, with the settlement engine of compute.ts. *)
EXTENDS TripRequests, TLC

Engine == INSTANCE SettlementCompute

MCMembers == {1, 2}

(* "night" is the second day in seoul and still the first in utc.  A day's *)
(* table is found, or also, where a run says so, only the last known one.  *)
MCDateIn(instant, zone) == IF instant = "night" /\ zone = "seoul" THEN 2 ELSE 1
MCFound(ccy, date) == {FxOf(date, "auto")}
MCFoundOrLastKnown(ccy, date) == {FxOf(date, "auto"), FxOf(1, "last_known")}
MCPriced(local, ccy, rate) == local * rate

(* A dinner converted from its local amount, and a taxi billed to a card. *)
MCInputs ==
    {[local |-> 2, ccy |-> "JPY", spent |-> "night", parts |-> {1, 2},
      payer |-> 1, state |-> "included"],
     [local |-> 2, ccy |-> "JPY", spent |-> "night", parts |-> {2},
      billed |-> 6, payer |-> 1, state |-> "included"]}

(* An amount with a rate for it, an instant, participants, a card bill;    *)
(* and where a run asks for the rate an amount alone gets, only that.      *)
MCPatches == {[local |-> 3, manual |-> 3], [spent |-> "noon"], [parts |-> {1}],
              [billed |-> 7]}
MCAmountOnly == {[local |-> 3]}

(* What these values make, fitting together or not: whether day, rate and  *)
(* amount fit is DerivedFromItsRow.                                        *)
MCConverted(local, fx) ==
    [source : {"converted"}, local : {local}, ccy : {"JPY"}, spent : {"noon", "night"},
     date : {1, 2}, parts : {{1}, {1, 2}}, settled : {local * fx.rate}, fx : {fx}]

MCBills ==
    UNION {MCConverted(local, fx) :
              local \in {2, 3}, fx \in UNION {Found("JPY", date) : date \in {1, 2}}
                                     \cup {FxOf(3, "manual")}}
    \cup [source : {"card"}, local : {2, 3}, ccy : {"JPY"},
          spent : {"noon", "night"}, date : {1, 2}, parts : {{1}, {2}},
          settled : {6, 7}, fx : {NoFx}]

MCExpense(charge) ==
    [paid_by |-> charge.payer, participants |-> charge.bill.parts,
     local |-> [amount |-> charge.bill.local, currency |-> charge.bill.ccy],
     settlement |-> [amount |-> charge.bill.settled, currency |-> "KRW"],
     refund_of |-> Engine!NotARefund]

MCInventory(inv) == [e \in DOMAIN inv |-> MCExpense(inv[e])]
MCSettle(inv) == Engine!ComputeSettlement(MCInventory(inv))
MCCanSettle(inv) == Engine!Settleable(MCInventory(inv))
MCCurrencies == {"KRW", "JPY"}
MCSymmetry == Permutations(ExpenseIds) \cup Permutations(Calls)
=============================================================================
