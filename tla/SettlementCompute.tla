-------------------------- MODULE SettlementCompute --------------------------
(***************************************************************************)
(* The settlement engine: domain/compute.ts as operators.                  *)
(*                                                                         *)
(* Members are integers, ordered as byIdAsc orders their ids.  An expense  *)
(* is a record                                                             *)
(*    [paid_by, participants, local, settlement, refund_of]                *)
(* with local and settlement of the form [amount, currency]; an inventory  *)
(* is a function from expense ids to expenses.  BigInt values are integers *)
(* of any size.  Errors thrown are not told apart: Settleable(inv) says    *)
(* that nothing is thrown.                                                 *)
(***************************************************************************)
EXTENDS Integers, Sequences, FiniteSets, Functions

(* refund_of is undefined. *)
NotARefund == "not a refund"

-----------------------------------------------------------------------------
(* Integer division.  BigInt "/" truncates towards zero and "%" takes the  *)
(* sign of the dividend.                                                   *)
TruncDiv(a, b) == IF a >= 0 THEN a \div b ELSE -((-a) \div b)
TruncRem(a, b) == a - b * TruncDiv(a, b)

FloorDiv(a, b) ==
    IF TruncRem(a, b) < 0 THEN TruncDiv(a, b) - 1 ELSE TruncDiv(a, b)

(* The place of m in S sorted by before(_,_), counted from 0. *)
PlaceIn(m, S, before(_, _)) == Cardinality({x \in S : before(x, m)})

(* Equal shares; the first members by id carry the remainder. *)
SplitExpense(amount, members) ==
    LET n == Cardinality(members)
        base == FloorDiv(amount, n)
        remainder == amount - base * n
    IN  [m \in members |->
            base + IF PlaceIn(m, members, <) < remainder THEN 1 ELSE 0]

(* Mutant: what the floors leave over is handed to nobody. *)
RefundFloored(absR, origShare, absOrig) ==
    [m \in DOMAIN origShare |-> -TruncDiv(absR * origShare[m], absOrig)]

(* |R| apportioned by original share, floored; what is left over goes to   *)
(* the largest remainders, one each.  The result is negative.              *)
ApportionRefund(absR, origShare, absOrig) ==
    LET members == DOMAIN origShare
        base == [m \in members |-> TruncDiv(absR * origShare[m], absOrig)]
        frac == [m \in members |-> TruncRem(absR * origShare[m], absOrig)]
        remainder == absR - SumFunction(base)
        before(a, b) == frac[a] > frac[b] \/ (frac[a] = frac[b] /\ a < b)
    IN  [m \in members |->
            -(base[m] + IF PlaceIn(m, members, before) < remainder THEN 1 ELSE 0)]

-----------------------------------------------------------------------------
(* Refunds and the expenses they refund.  amt is the axis: the amount of   *)
(* each expense in one currency.                                           *)
RefundsOf(inv, id) == {r \in DOMAIN inv : inv[r].refund_of = id}
Originals(inv) == {id \in DOMAIN inv : inv[id].refund_of = NotARefund}
Refunded(inv) == {id \in Originals(inv) : RefundsOf(inv, id) # {}}

(* Mutant: each refund is held against the original on its own. *)
RefundsChecked1By1(inv, amt) ==
    \A r \in DOMAIN inv \ Originals(inv) :
        LET orig == inv[r].refund_of
        IN  /\ orig \in Originals(inv)
            /\ inv[r].paid_by = inv[orig].paid_by
            /\ amt[r] < 0
            /\ -amt[r] <= amt[orig]

(* partitionAndValidate throws on none of the refunds. *)
ValidRefunds(inv, amt) ==
    /\ \A r \in DOMAIN inv \ Originals(inv) :
          LET orig == inv[r].refund_of
          IN  /\ orig \in Originals(inv)
              /\ inv[r].local.currency = inv[orig].local.currency
              /\ inv[r].settlement.currency = inv[orig].settlement.currency
              /\ inv[r].paid_by = inv[orig].paid_by
              /\ amt[r] < 0
              /\ amt[orig] > 0
    /\ \A id \in Refunded(inv) :
          -SumFunctionOnSet(amt, RefundsOf(inv, id)) <= amt[id]

(* Mutant: each refund is apportioned on its own. *)
ShareRefundByRefund(inv, amt, m) ==
    LET owed == [id \in {x \in Originals(inv) : m \in inv[x].participants} |->
                    SplitExpense(amt[id], inv[id].participants)[m]]
        back == [r \in {x \in DOMAIN inv : inv[x].refund_of \in DOMAIN owed} |->
                    LET id == inv[r].refund_of
                    IN  ApportionRefund(-amt[r],
                                        SplitExpense(amt[id], inv[id].participants),
                                        amt[id])[m]]
    IN  SumFunction(owed) + SumFunction(back)

(* What member m owes of the expenses on one axis. *)
ShareOf(inv, amt, m) ==
    LET owed == [id \in {x \in Originals(inv) : m \in inv[x].participants} |->
                    SplitExpense(amt[id], inv[id].participants)[m]]
        back == [id \in DOMAIN owed \cap Refunded(inv) |->
                    ApportionRefund(-SumFunctionOnSet(amt, RefundsOf(inv, id)),
                                    SplitExpense(amt[id], inv[id].participants),
                                    amt[id])[m]]
    IN  SumFunction(owed) + SumFunction(back)

PaidBy(inv, amt, m) ==
    SumFunctionOnSet(amt, {id \in DOMAIN inv : inv[id].paid_by = m})

(* toInputs: everybody who paid or takes part. *)
MembersOf(inv) ==
    {inv[id].paid_by : id \in DOMAIN inv}
        \cup UNION {inv[id].participants : id \in DOMAIN inv}

Nets(inv, amt, members) ==
    [m \in members |-> PaidBy(inv, amt, m) - ShareOf(inv, amt, m)]

-----------------------------------------------------------------------------
(* minTransfers: the largest creditor is matched with the largest debtor.  *)
(* c and d are the positions the loop has reached.                         *)
Ranked(amt) ==
    LET before(a, b) == amt[a] > amt[b] \/ (amt[a] = amt[b] /\ a < b)
        Nth(i) == CHOOSE m \in DOMAIN amt : PlaceIn(m, DOMAIN amt, before) = i - 1
    IN  [i \in 1 .. Cardinality(DOMAIN amt) |-> [id |-> Nth(i), amt |-> amt[Nth(i)]]]

StartMatching(net) ==
    [cred |-> Ranked([m \in {x \in DOMAIN net : net[x] > 0} |-> net[m]]),
     debt |-> Ranked([m \in {x \in DOMAIN net : net[x] < 0} |-> -net[m]]),
     c |-> 1, d |-> 1, out |-> <<>>]

Matching(s) == s.c <= Len(s.cred) /\ s.d <= Len(s.debt)

(* Mutant of a turn: a debtor is released once matched.                    *)
GiveReleasesDebtor(s) ==
    LET due == s.cred[s.c].amt
        owed == s.debt[s.d].amt
        give == IF due < owed THEN due ELSE owed
    IN  [s EXCEPT !.cred[s.c].amt = due - give,
                  !.c = IF due = give THEN s.c + 1 ELSE s.c,
                  !.d = s.d + 1,
                  !.out = Append(@, [from |-> s.debt[s.d].id,
                                     to |-> s.cred[s.c].id, amount |-> give])]

(* One turn of the loop. *)
Give(s) ==
    LET due == s.cred[s.c].amt
        owed == s.debt[s.d].amt
        give == IF due < owed THEN due ELSE owed
    IN  [cred |-> [s.cred EXCEPT ![s.c].amt = due - give],
         debt |-> [s.debt EXCEPT ![s.d].amt = owed - give],
         c |-> IF due = give THEN s.c + 1 ELSE s.c,
         d |-> IF owed = give THEN s.d + 1 ELSE s.d,
         out |-> Append(s.out, [from |-> s.debt[s.d].id, to |-> s.cred[s.c].id,
                                amount |-> give])]

(* Each turn uses up a creditor or a debtor, so as many turns as there are *)
(* members always suffice.                                                 *)
MinTransfers(net) ==
    LET turns[k \in 0 .. Cardinality(DOMAIN net)] ==
            IF k = 0 THEN StartMatching(net)
            ELSE LET s == turns[k - 1] IN IF Matching(s) THEN Give(s) ELSE s
    IN  turns[Cardinality(DOMAIN net)].out

-----------------------------------------------------------------------------
(* The two axes of computeSettlement. *)
SettlementAmounts(inv) == [id \in DOMAIN inv |-> inv[id].settlement.amount]
LocalCurrencies(inv) == {inv[id].local.currency : id \in DOMAIN inv}
LocalPart(inv, ccy) ==
    [id \in {x \in DOMAIN inv : inv[x].local.currency = ccy} |-> inv[id]]
LocalAmounts(inv) == [id \in DOMAIN inv |-> inv[id].local.amount]

Settleable(inv) ==
    /\ \A a, b \in DOMAIN inv : inv[a].settlement.currency = inv[b].settlement.currency
    /\ ValidRefunds(inv, SettlementAmounts(inv))
    /\ \A ccy \in LocalCurrencies(inv) :
          LET part == LocalPart(inv, ccy) IN ValidRefunds(part, LocalAmounts(part))

SettlementNets(inv) == Nets(inv, SettlementAmounts(inv), MembersOf(inv))

LocalNets(inv, ccy) ==
    LET part == LocalPart(inv, ccy)
    IN  Nets(part, LocalAmounts(part), MembersOf(inv))

OnAxis(basis, ccy, transfers) ==
    {[basis |-> basis, currency |-> ccy, from |-> t.from, to |-> t.to,
      amount |-> t.amount] : t \in Range(transfers)}

(* The rows finalize inserts into settlement_transfers. *)
ComputeSettlement(inv) ==
    (UNION {OnAxis("settlement", inv[id].settlement.currency,
                   MinTransfers(SettlementNets(inv))) : id \in DOMAIN inv})
        \cup (UNION {OnAxis("local", ccy, MinTransfers(LocalNets(inv, ccy))) :
                        ccy \in LocalCurrencies(inv)})
=============================================================================
