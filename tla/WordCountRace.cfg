CONSTANTS
    Texts <- MCTexts
    WordChars = {"a", "b"}
    NumWorkers = 2
    Width = 16
SPECIFICATION Spec
INVARIANT ReducerTotals
