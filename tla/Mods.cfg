SPECIFICATION Spec
CONSTANTS
    Mods <- MCMods
    Names <- MCNames
    NameOf <- MCNameOf
    Priority <- MCPriority
    Overrides <- MCOverrides
    Patches <- MCPatches
    Defines <- MCDefines
    Paths <- MCPaths
    Vanilla = {"weapon", "rson", "pdef"}
    Lists = {"rson"}
    Pdef = "pdef"
    PdefSpelled = "pdef_spelled"
    GameFiles = {"cfg"}
    NoFile = NoFile
    Invalid = Invalid
INVARIANTS
    ConstantsDefined
    OwnersWin
    ServesOwner
PROPERTY ChoicesKept
