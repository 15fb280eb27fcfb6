SPECIFICATION FairSpec
CONSTANTS
    c1 = c1
    c2 = c2
    Conn = {c1}
    NoConn = NoConn
    Units = 2
    Cap = 3
    Lines1 = 2
    Lines2 = 0
    MaxLines <- MCMaxLines
    MaxEvents = 2
    SelectErrors = TRUE
INVARIANTS
    MessagesDoNotInterleave
    ResponsesInOrder
PROPERTIES WorkerIsReleased RequestsAreAnswered
CHECK_DEADLOCK FALSE
