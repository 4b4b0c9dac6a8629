---------------------------- MODULE MCSettlement ----------------------------
(* Where the amounts of a settlement come from.  A run looks up exchange   *)
(* rates, or puts an inventory together, or matches a vector of nets: nets *)
(* that are all zero leave the loop nothing to do, and requests that ended *)
(* without a result were never made.                                       *)
(*                                                                         *)
(* Inventories have three members and two currencies; 2 units among three  *)
(* leave a remainder, and a refund in two parts of one unit is where       *)
(* apportioning each part alone would go wrong.  Nets have four members,   *)
(* for two creditors and two debtors.  Rates are looked up by two          *)
(* overlapping requests at two providers, over three UTC days.             *)
EXTENDS SettlementCases, TransferLoop, FxResolve, TLC

MCParty == 1 .. 3
MCGroups == {{1, 2, 3}, {2, 3}}
MCRates == [KRW |-> 1, JPY |-> 2]
MCParties == 1 .. 4
MCProviders == <<"oxr", "currencyapi">>
MCSymmetry == Permutations(Ids) \cup Permutations(Requests)

engineVars == <<inv, net, loop>>

AllZero == net = [p \in Parties |-> 0]

NoEngine == inv = [id \in {} |-> {}] /\ AllZero /\ loop = StartMatching(net)

NoLookup ==
    /\ today = 0 /\ spoils = 0 /\ lastKnown = None /\ tripDefault = FALSE
    /\ cache = [d \in Dates |-> None]
    /\ ask = [r \in Requests |-> [date |-> 0, mode |-> "manual"]]
    /\ at = [r \in Requests |-> "ended"] /\ result = [r \in Requests |-> None]
    /\ began = [r \in Requests |-> 0] /\ turn = [r \in Requests |-> 1]
    /\ holds = result /\ existing = result

MCInit == (CasesInit /\ LoopInit /\ NoLookup) \/ (NoEngine /\ Init)

MCNext ==
    \/ NoLookup /\ AllZero /\ CasesNext /\ UNCHANGED <<net, loop, vars>>
    \/ NoLookup /\ LoopNext /\ UNCHANGED <<inv, vars>>
    \/ NoLookup /\ UNCHANGED <<engineVars, vars>>   \* an inventory is as large as it gets
    \/ ~NoLookup /\ Next /\ UNCHANGED engineVars

MCSpec == MCInit /\ [][MCNext]_<<engineVars, vars>>
=============================================================================
