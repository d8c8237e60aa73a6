SPECIFICATION Spec
CONSTANTS
    Uids <- MCUids
    Checkers = {main}
    MainThread = main
    Missing = Missing
    MayEdit = TRUE
INVARIANTS
    CopyComplete
PROPERTY IsBanList
