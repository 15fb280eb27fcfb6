SPECIFICATION Spec
CONSTANTS
    c1 = c1
    c2 = c2
    Conn = {c1}
    NoConn = NoConn
    Units = 2
    Cap = 3
    Lines1 = 0
    Lines2 = 0
    MaxLines <- MCMaxLines
    MaxEvents = 2
    SelectErrors = TRUE
INVARIANT NothingFollowsACutMessage
CHECK_DEADLOCK FALSE
