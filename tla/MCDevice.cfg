SPECIFICATION FairSpec
CONSTANTS
    NoAcc = NoAcc
    AccId = {a0}
    Call = {c0}
    Renderer = Renderer
    Front = Front
    Back = Back
    Capturing = {Front, Back}
    Inventory <- MCInventory
    NoDev = NoDev
    Audio = {hw, usb}
    Closed = Closed
INVARIANTS FlagIsTheRegistration EventTellsTheOutcome
INVARIANTS NeverTheRenderer SelectionReachesCalls CallHasSound
PROPERTY IdleDeviceCloses
