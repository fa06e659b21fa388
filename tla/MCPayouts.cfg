CONSTANTS
    draw = draw
    again = again
    topUp = topUp
    wire = wire
    blank = blank
    alice = alice
    bob = bob
    key = key
    tx1 = tx1
    tx2 = tx2
    tx3 = tx3
    tx4 = tx4
    NoRow = NoRow
    Nobody = Nobody
    Request = {draw, again, topUp, wire, blank}
    Client = {alice, bob}
    LockKey = {key}
    TxId = {tx1, tx2, tx3, tx4}
    KindOf <- MCKindOf
    SenderOf <- MCSenderOf
    ReceiverOf <- MCReceiverOf
    AmountOf <- MCAmountOf
    Opening <- MCOpening
    HashOf <- MCHashOf
    TxIdOf <- MCTxIdOf
    IdOf <- MCIdOf
    MaxInt = 3
    MaxId = 3
    MaxConns = 2
    MaxCrashes = 1
SPECIFICATION Spec
INVARIANTS
    TypeOK
    OutboxExplainsBalances
    HistoryMatchesOutbox
    AnswersAreTrue
    PayoutsAreDebited
    UnpaidDebitsHaveACause
    NoOverdraft
