CONSTANTS
    there = there
    back = back
    draw = draw
    alice = alice
    bob = bob
    keyA = keyA
    keyB = keyB
    tx1 = tx1
    tx2 = tx2
    tx3 = tx3
    NoRow = NoRow
    Nobody = Nobody
    Request = {there, back, draw}
    Client = {alice, bob}
    LockKey = {keyA, keyB}
    TxId = {tx1, tx2, tx3}
    KindOf <- MCKindOf
    SenderOf <- MCSenderOf
    ReceiverOf <- MCReceiverOf
    AmountOf <- MCAmountOf
    Opening <- MCOpening
    HashOf <- MCHashOf
    TxIdOf <- MCTxIdOf
    IdOf <- MCIdOf
    MaxInt = 100
    MaxId = 100
    MaxConns = 2
    MaxCrashes = 0
SPECIFICATION FairSpec
PROPERTIES
    CashOutsEnd
