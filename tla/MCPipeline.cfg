CONSTANTS
    cash = cash
    cashToo = cashToo
    other = other
    pay = pay
    payToo = payToo
    again = again
    move = move
    target = target
    friend = friend
    shop = shop
    Tx = {cash, cashToo, other, pay, payToo, again, move}
    User = {target, friend, shop}
    Target = target
    Nothing = Nothing
    KindOf <- MCKindOf
    SenderOf <- MCSenderOf
    ReceiverOf <- MCReceiverOf
    CreatedAt <- MCCreatedAt
    UuidOf <- MCUuidOf
    SwitchedOn <- OneDag
    Start = 5
    Horizon = 8
    Ttl = 96
    RowLimit = 2
    MaxCopies <- MCMaxCopies
    MaxFailures <- SomeFailures
SPECIFICATION FairSpec
INVARIANTS
    TypeOK
    NothingCountedTwice
    SuccessIsTheWholeWindow
    SumsFollowWindows
    PartnersFollowWindows
PROPERTIES
    AirflowCatchesUp
