CONSTANTS
    draw = draw
    move = move
    alice = alice
    keyA = keyA
    tx1 = tx1
    tx2 = tx2
    NoRow = NoRow
    Nobody = Nobody
    Request = {draw, move}
    Client = {alice}
    LockKey = {keyA}
    TxId = {tx1, tx2}
    KindOf <- MCKindOf
    SenderOf <- MCSenderOf
    ReceiverOf <- MCReceiverOf
    AmountOf <- MCAmountOf
    Opening <- MCOpening
    HashOf <- MCHashOf
    TxIdOf <- MCTxIdOf
    IdOf <- MCIdOf
    Total <- MCTotal
    Count <- MCCount
    MaxInt = 100
    Unit = 1500000
    MaxId = 100
    MaxConns = 1
    MaxCrashes = 0
SPECIFICATION FairSystemSpec
INVARIANTS
    FraudMovesOnlyByFault
    CashNeedsAnAnswer
PROPERTIES
    AllRequestsEnd
