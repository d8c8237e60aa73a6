CONSTANTS
    a = a
    b = b
    Ids = {a, b}
    NoId = NoId
    MaxAttempts = 2
    UpdateRate = 1
    Cooldown = 2
    InitialCooldown = {0, 1}
SPECIFICATION FairSpec
INVARIANTS
    AtMostMaxAdds
    RegisteringHasNoId
    NoAddDuringCooldown
    NoIdWithoutPresence
PROPERTIES
    IdTokenPaired
    NeverIdle
    RegistrationSettles
    HeartbeatsContinue
