SPECIFICATION RequestSpec
CONSTANTS
    ExpenseIds = {e1, e2}
    Members <- MCMembers
    Bills <- MCBills
    OtherStates = {}
    Zones = {"seoul", "utc"}
    Keys = {k1}
    NoKey = NoKey
    NoImage = NoImage
    Currencies <- MCCurrencies
    Settle <- MCSettle
    CanSettle <- MCCanSettle
    MaxVersion = 2
    MaxSettlements = 1
    MaxEvents = 0
    Calls = {c1, c2, c3}
    Inputs <- MCInputs
    Patches <- MCPatches
    Erase = Erase
    Home = "KRW"
    NoFx = NoFx
    DateIn <- MCDateIn
    Found <- MCFound
    Priced <- MCPriced
SYMMETRY MCSymmetry
CHECK_DEADLOCK FALSE
INVARIANTS
    AuditReplays
    OneLivePerKey
    DerivedFromItsRow
    AnswerSettlesItsBills
PROPERTIES
    EditChangesWhatItNames
    CreatedInTheTripsZone
    AuthorisedWrite
    ShownIsFrozen
