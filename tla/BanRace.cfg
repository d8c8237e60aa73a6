SPECIFICATION Spec
CONSTANTS
    Uids <- MCUids
    Checkers = {main, request}
    MainThread = main
    Missing = Missing
    MayEdit = FALSE
PROPERTY BannedAreRefused
