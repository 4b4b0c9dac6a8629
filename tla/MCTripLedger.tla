---------------------------- MODULE MCTripLedger ----------------------------
(* TripLedger on a small trip, with the settlement engine of compute.ts.   *)
EXTENDS TripLedger, TLC

Engine == INSTANCE SettlementCompute

(* A taxi paid in won and shared by both, and a coffee bought abroad for   *)
(* member 2 alone; 3 does not split evenly.                                *)
MCBills == {[parts |-> {1, 2}, local |-> 3, ccy |-> "KRW", settled |-> 6],
            [parts |-> {2}, local |-> 1, ccy |-> "JPY", settled |-> 2]}

MCExpense(charge) ==
    [paid_by |-> charge.payer, participants |-> charge.bill.parts,
     local |-> [amount |-> charge.bill.local, currency |-> charge.bill.ccy],
     settlement |-> [amount |-> charge.bill.settled, currency |-> "KRW"],
     refund_of |-> Engine!NotARefund]

MCInventory(inv) == [e \in DOMAIN inv |-> MCExpense(inv[e])]

MCMembers == {1, 2}
MCCurrencies == {"KRW", "JPY"}
MCSettle(inv) == Engine!ComputeSettlement(MCInventory(inv))
MCCanSettle(inv) == Engine!Settleable(MCInventory(inv))
MCSymmetry == Permutations(ExpenseIds)
=============================================================================
