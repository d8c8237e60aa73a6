CONSTANTS
    u1 = u1
    u2 = u2
    t1 = t1
    t2 = t2
    t3 = t3
    Uids = {u1, u2}
    Tokens = {t1, t3}
    UidOf <- MCUidOf
    Clients = {c1, c2}
    Threads = {h1}
    BotUid = BotUid
    None = None
    AllowInsecure = FALSE
    EraseAuthInfo = TRUE
SPECIFICATION Spec
INVARIANTS
    WritesOwnData
    NoDuplicateAccounts
PROPERTY FirstActivationWritesNothing
SYMMETRY MCSymmetry
