SPECIFICATION RequestSpec
CONSTANTS
    ExpenseIds = {e1}
    Members <- MCMembers
    Bills <- MCBills
    OtherStates = {}
    Zones = {"seoul"}
    Keys = {}
    NoKey = NoKey
    NoImage = NoImage
    Currencies <- MCCurrencies
    Settle <- MCSettle
    CanSettle <- MCCanSettle
    MaxVersion = 1
    MaxSettlements = 1
    MaxEvents = 0
    Calls = {c1, c2}
    Inputs <- MCInputs
    Patches <- MCAmountOnly
    Erase = Erase
    Home = "KRW"
    NoFx = NoFx
    DateIn <- MCDateIn
    Found <- MCFoundOrLastKnown
    Priced <- MCPriced
CHECK_DEADLOCK FALSE
PROPERTY FrozenRateKept
