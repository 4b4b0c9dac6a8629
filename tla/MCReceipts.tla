----------------------------- MODULE MCReceipts -----------------------------
(* What a client does beside the ledger: any four requests for the receipt *)
(* of one expense, or the list read page by page, each on its own.         *)
EXTENDS Receipts, ExpensePages, TLC
AnyRequest == Permutations(Requests)

NoRequest ==
    /\ expense = "gone" /\ key = NoKey /\ objects = {} /\ unlinked = {}
    /\ op = [r \in Requests |-> "get"] /\ at = [r \in Requests |-> "ended"]
    /\ read = [r \in Requests |-> NoKey]
    /\ outcome = [r \in Requests |-> "not_found"] /\ faults = 0

NoList ==
    /\ spent_at = [id \in {} |-> 0] /\ cursor = Done
    /\ listed = <<>> /\ behind = {}

MCInit == (Init /\ NoList) \/ (NoRequest /\ PagesInit)

MCNext ==
    \/ Next /\ UNCHANGED pageVars
    \/ PagesNext /\ UNCHANGED vars

MCSpec == MCInit /\ [][MCNext]_<<vars, pageVars>>
=============================================================================
