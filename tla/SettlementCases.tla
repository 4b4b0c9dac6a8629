--------------------------- MODULE SettlementCases ---------------------------
(***************************************************************************)
(* Inventories grown expense by expense, and what computeSettlement must   *)
(* make of each of them.                                                   *)
(***************************************************************************)
EXTENDS SettlementCompute

CONSTANTS Ids,         \* expenses of the trip
          Party,       \* its members, integers
          Groups,      \* who may take part in an expense together
          Amounts,     \* local amounts of ordinary expenses, zero included
          RefundSizes, \* sizes of refunds
          Rates        \* local currency -> rate to the settlement currency

(* Ids are uuids; an expense has participants (validated before it gets    *)
(* here), and only a refund has a negative amount.                         *)
ASSUME CasesAssumption ==
    /\ NotARefund \notin Ids
    /\ Party \subseteq Int
    /\ \A g \in Groups : g \subseteq Party /\ IsFiniteSet(g) /\ g # {}
    /\ Amounts \subseteq Nat
    /\ RefundSizes \subseteq Nat
    /\ \A ccy \in DOMAIN Rates : Rates[ccy] \in Nat

VARIABLE inv           \* the included expenses

Expense(payer, participants, amount, ccy, refund_of) ==
    [paid_by |-> payer, participants |-> participants,
     local |-> [amount |-> amount, currency |-> ccy],
     settlement |-> [amount |-> amount * Rates[ccy], currency |-> "KRW"],
     refund_of |-> refund_of]

With(id, e) == [x \in DOMAIN inv \cup {id} |-> IF x = id THEN e ELSE inv[x]]

AddExpense(id) ==
    \E payer \in Party, participants \in Groups,
       amount \in Amounts, ccy \in DOMAIN Rates :
        inv' = With(id, Expense(payer, participants, amount, ccy, NotARefund))

(* A refund as it would be recorded: by the payer, in the currency of the  *)
(* original.  Nothing yet keeps its size within the original.              *)
AddRefund(id) ==
    \E orig \in Originals(inv), size \in RefundSizes :
        /\ inv[orig].local.amount > 0
        /\ inv' = With(id, Expense(inv[orig].paid_by, inv[orig].participants,
                                   -size, inv[orig].local.currency, orig))

CasesInit == inv = [id \in {} |-> {}]

CasesNext == \E id \in Ids \ DOMAIN inv : AddExpense(id) \/ AddRefund(id)

CasesSpec == CasesInit /\ [][CasesNext]_inv

-----------------------------------------------------------------------------
(* computeAxisWithRefunds never throws "net sum != 0": on both axes the    *)
(* nets cancel, so a finalize that passes its checks can always be paid.   *)
NetsCancel ==
    Settleable(inv) =>
        /\ SumFunction(SettlementNets(inv)) = 0
        /\ \A ccy \in LocalCurrencies(inv) : SumFunction(LocalNets(inv, ccy)) = 0

(* An expense refunded in full, in however many parts, leaves no trace in  *)
(* anybody's net.                                                          *)
FullRefundCancels ==
    \A id \in Refunded(inv) :
        LET amt == SettlementAmounts(inv)
            gone == RefundsOf(inv, id) \cup {id}
            rest == [x \in DOMAIN inv \ gone |-> inv[x]]
        IN  /\ Settleable(inv)
            /\ SumFunctionOnSet(amt, gone) = 0
            => SettlementNets(inv) =
                  Nets(rest, SettlementAmounts(rest), MembersOf(inv))

(* Refunds never turn what a participant owes into a gain.                 *)
ShareNeverNegative ==
    Settleable(inv) =>
        \A m \in MembersOf(inv) : ShareOf(inv, SettlementAmounts(inv), m) >= 0
=============================================================================
