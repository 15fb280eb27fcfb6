SPECIFICATION Spec
CONSTANTS
    c1 = c1
    c2 = c2
    Conn = {c1}
    NoConn = NoConn
    Units = 2
    Cap = 3
    Lines1 = 0
    Lines2 = 0
    MaxLines <- MCMaxLines
    MaxEvents = 1
    SelectErrors = TRUE
INVARIANT HelloIsFirst
CHECK_DEADLOCK FALSE
