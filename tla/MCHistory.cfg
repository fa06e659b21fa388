CONSTANTS
    alice = alice
    bob = bob
    tx1 = tx1
    tx2 = tx2
    tx3 = tx3
    tx4 = tx4
    Unset = Unset
    Candidate <- MCCandidate
    Filter <- MCFilter
    Limit = 1
    MaxWrites = 4
SPECIFICATION Spec
INVARIANTS
    KeysAreUnique
    NothingIsSkipped
    PagesAreInOrder
    LastMessageIsTheRow
