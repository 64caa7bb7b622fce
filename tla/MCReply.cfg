SPECIFICATION Spec
CONSTANTS
    Text <- MCText
    Blank = {" ", "newline"}
    Size = 4
    Overlap = 1
    Asked <- MCAsked
    K = 2
    Cites = {1, 2}
    MaxParts = 4
INVARIANTS
    PhrasesAreWhole
    DefusedIsClean
    RewritesOnlyTheSpans
    FindingsAreRight
    FinishedTraceIsClosed
CHECK_DEADLOCK FALSE
