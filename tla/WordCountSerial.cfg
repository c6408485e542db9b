CONSTANTS
    Texts <- MCTexts
    WordChars = {"a", "b"}
    NumWorkers = 1
    Width = 16
SPECIFICATION Spec
INVARIANTS TypeOK ReducerTotals
