SPECIFICATION FairSpec
CONSTANTS
    c1 = c1
    c2 = c2
    Conn = {c1, c2}
    NoConn = NoConn
    Units = 2
    Cap = 2
    Lines1 = 1
    Lines2 = 0
    MaxLines <- MCMaxLines
    MaxEvents = 1
    SelectErrors = FALSE
INVARIANTS
    NoWriteToClosedSocket
    FramingIsNotDangling
    GreetedOrRefused
PROPERTIES LinkSpec NoEviction StopEndsTheLoop NewcomersAreAnswered
CHECK_DEADLOCK FALSE
