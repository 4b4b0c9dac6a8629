SPECIFICATION Spec
CONSTANTS
    ExpenseIds = {e1, e2}
    Members <- MCMembers
    Bills <- MCBills
    OtherStates = {"personal"}
    Zones = {seoul}
    Keys = {}
    NoKey = NoKey
    NoImage = NoImage
    Currencies <- MCCurrencies
    Settle <- MCSettle
    CanSettle <- MCCanSettle
    MaxVersion = 1
    MaxSettlements = 2
    MaxEvents = 3
SYMMETRY MCSymmetry
CHECK_DEADLOCK FALSE
INVARIANTS
    SnapshotIsLive
    NoStrandedPayment
    LogExplainsPayments
PROPERTIES
    HistoryIsKept
    ImplementsCycle
