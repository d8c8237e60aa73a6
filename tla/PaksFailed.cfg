SPECIFICATION PaksSpec
CONSTANTS
    Names <- MCNames
    AliasOf <- MCAliasOf
    Original = {"common", "mp"}
    Entries <- MCEntries
    OnDedicated = {"common"}
    MayFail = {"A", "E"}
    MaxHandle = 7
INVARIANT LoadedOnce
CHECK_DEADLOCK FALSE
