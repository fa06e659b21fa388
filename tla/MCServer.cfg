CONSTANTS
    Call = {draw, empty, plain}
    MayHang = {draw}
    Malformed = {empty}
    Returns = {"ok", "fraud"}
    MaxSignals = 1
    MaxScrapes = 1
SPECIFICATION FairSpec
INVARIANTS
    TypeOK
    SessionOutlivesCalls
    StopAnswersCalls
    ScrapesAgree
PROPERTIES
    SignalStops
