CONSTANTS
    cash = cash
    sbp = sbp
    Call = {cash, sbp}
    KindOf <- MCKindOf
    AmountOf <- MCAmountOf
    Total <- MCTotal
    Count <- MCCount
    MaxRefresh = 0
SPECIFICATION Spec
INVARIANTS
    FraudIsDeclined
