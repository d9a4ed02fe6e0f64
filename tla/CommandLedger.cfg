SPECIFICATION FairSpec
CONSTANTS
    WireIds = {"a", "a_padded", "blank"}
    CommandIds = {"a"}
    Blank = ""
    Trim <- MCTrim
    Requests = {r1, r2}
    Verdicts = {"ok", "error"}
    NoRequest = NoRequest
    MaxInbound = 1
    Capacity = 1
    MaxFaults <- FaultBudget
INVARIANTS
    TypeOK
    AtMostOnce
    EffectMatchesClaim
    SuccessIsReal
    AnswersAgree
    NoStrandedRecord
PROPERTIES
    VerdictFinal
    RefinesCommandOnce
    EventuallyAnswered
