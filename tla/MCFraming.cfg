SPECIFICATION FairSpec
CONSTANTS
    NL = nl
    NUL = nul
    Byte = {nl, nul, a}
    MaxLine = 3
    MaxSent = 5
INVARIANTS WindowIsStream LinesStayValid FillHasRoom OnlyLongLinesAreTooBig
PROPERTIES LineStreamSpec CompleteLinesAreTaken
