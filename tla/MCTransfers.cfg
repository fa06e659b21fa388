CONSTANTS
    there = there
    back = back
    self = self
    first = first
    alice = alice
    bob = bob
    carol = carol
    keyA = keyA
    keyB = keyB
    tx1 = tx1
    tx2 = tx2
    tx3 = tx3
    tx4 = tx4
    NoRow = NoRow
    Nobody = Nobody
    Request = {there, back, self, first}
    Client = {alice, bob, carol}
    LockKey = {keyA, keyB}
    TxId = {tx1, tx2, tx3, tx4}
    KindOf <- MCKindOf
    SenderOf <- MCSenderOf
    ReceiverOf <- MCReceiverOf
    AmountOf <- MCAmountOf
    Opening <- MCOpening
    HashOf <- MCHashOf
    TxIdOf <- MCTxIdOf
    IdOf <- MCIdOf
    MaxInt = 100
    MaxId = 100
    MaxConns = 3
    MaxCrashes = 0
SPECIFICATION FairSpec
INVARIANTS
    OneTransactionPerClient
    CommitsAreCurrent
    OutboxExplainsBalances
PROPERTIES
    ImplementsLedger
    RequestsEnd
