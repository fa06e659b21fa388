CONSTANTS
    cash = cash
    sbp = sbp
    Call = {cash, sbp}
    KindOf <- MCKindOf
    AmountOf <- MCAmountOf
    Total <- MCTotal
    Count <- MCCount
    MaxRefresh = 1
SPECIFICATION FairSpec
INVARIANTS
    TypeOK
    DeclinesHaveAReason
PROPERTIES
    VerdictIsTheRules
    CallsEnd
