SPECIFICATION Spec
CONSTANTS
    Dlls <- MCDlls
    Registered <- MCRegistered
    Uses <- MCUses
    Before <- MCBefore
    Nested = {"LatencyFlex"}
    Level <- MCLevel
INVARIANTS
    CallbacksDone
    EveryPassCalls
PROPERTY LoadsEnd
