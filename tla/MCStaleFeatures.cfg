CONSTANTS
    cash = cash
    cashToo = cashToo
    other = other
    pay = pay
    payToo = payToo
    again = again
    move = move
    target = target
    friend = friend
    shop = shop
    Tx = {cash, pay}
    User = {target, friend, shop}
    Target = target
    Nothing = Nothing
    KindOf <- MCKindOf
    SenderOf <- MCSenderOf
    ReceiverOf <- MCReceiverOf
    CreatedAt <- MCCreatedAt
    UuidOf <- MCUuidOf
    SwitchedOn <- ShortFeatures
    Start = 5
    Horizon = 10
    Ttl = 96
    RowLimit = 5
    MaxCopies <- MCMaxCopies
    MaxFailures <- NoFailures
SPECIFICATION Spec
INVARIANTS
    ShortFeaturesAreRecent
