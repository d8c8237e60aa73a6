SPECIFICATION PaksSpec
CONSTANTS
    Names <- MCNames
    AliasOf <- MCAliasOf
    Original = {"common", "mp"}
    Entries <- MCEntries
    OnDedicated = {"common"}
    MayFail = {"A", "E"}
    MaxHandle = 7
INVARIANTS
    TrackedOnce
    AutoloadsStay
    LoadsDoNotRecur
    NestingBounded
CHECK_DEADLOCK FALSE
