SPECIFICATION FairSpec
CONSTANTS
    d1 = d1
    d2 = d2
    Inst <- MCInst
    Gone = Gone
INVARIANTS
    OnlyOwnerConnects
    LoneDaemonIsReachable
    NoFileLeftBehind
    CallbacksFindEvents
PROPERTY SignalEndsDaemon
