SPECIFICATION MCSpec
CONSTANTS
    Ids = {e1, e2, e3}
    Party <- MCParty
    Groups <- MCGroups
    Amounts = {0, 2}
    RefundSizes = {1, 2}
    Rates <- MCRates
    Parties <- MCParties
    MaxAmount = 4
    None = None
    Requests = {r1, r2}
    Providers <- MCProviders
    MaxAge = 1
    MaxDay = 1
    MaxSpoils = 1
SYMMETRY MCSymmetry
INVARIANTS
    NetsCancel
    FullRefundCancels
    ShareNeverNegative
    PlanSettlesEverybody
    RateIsOfItsDay
    MonthlyTablesAreFinal
PROPERTIES
    LastKnownStepsBackOnlyInARace
