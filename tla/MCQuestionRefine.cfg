SPECIFICATION RefineFairSpec
CONSTANTS
    NoLang = NoLang
    Messages = {m1, m2}
    Texts <- MCTexts
    Workers = {w1, w2}
    NoText = NoText
    Nobody = Nobody
    MaxAttempts = 2
    MaxStalls = 1
    Faults = {"throw", "crash", "stall"}
CHECK_DEADLOCK FALSE
INVARIANTS
    QuestionsCounted
PROPERTIES
    RefinedOnce
    RefineSettles
