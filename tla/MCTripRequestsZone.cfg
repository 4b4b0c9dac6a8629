SPECIFICATION RequestSpec
CONSTANTS
    ExpenseIds = {e1}
    Members <- MCMembers
    Bills <- MCBills
    OtherStates = {}
    Zones = {"seoul", "utc"}
    Keys = {}
    NoKey = NoKey
    NoImage = NoImage
    Currencies <- MCCurrencies
    Settle <- MCSettle
    CanSettle <- MCCanSettle
    MaxVersion = 1
    MaxSettlements = 1
    MaxEvents = 0
    Calls = {c1, c2}
    Inputs <- MCInputs
    Patches <- MCPatches
    Erase = Erase
    Home = "KRW"
    NoFx = NoFx
    DateIn <- MCDateIn
    Found <- MCFound
    Priced <- MCPriced
CHECK_DEADLOCK FALSE
PROPERTY EditedInTheTripsZone
