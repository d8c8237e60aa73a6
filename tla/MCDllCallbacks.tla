-------------------------- MODULE MCDllCallbacks ---------------------------
(* The callbacks of the DLLs that have more than one, in the order in which  *)
(* they are registered: that of the files in RoninDLL.vcxproj.               *)
EXTENDS DllCallbacks, FiniteSetsExt

MCDlls == {"engine", "client", "server", "inputsystem", "tier0"}

Row(tag, dll, side, reliesOn) == [tag |-> tag, dll |-> dll, side |-> side, reliesOn |-> reliesOn]

MCRegistered == <<
    Row("InputHooks", "inputsystem", "client", {}),
    Row("AudioHooks", "client", "client", {"ConVar"}),
    Row("ClientChatCommand", "engine", "client", {"ConCommand"}),
    Row("ClientAuthHooks", "engine", "client", {"ConVar"}),
    Row("RUI", "engine", "client", {"ConVar"}),
    Row("BinkVideo", "engine", "client", {}),
    Row("RejectConnectionFixes", "engine", "client", {}),
    Row("DebugOverlay", "engine", "client", {"ConVar"}),
    Row("EngineDemoFixes", "engine", "client", {}),
    Row("ClientDemoFixes", "client", "client", {"ConVar"}),
    Row("LanguageHooks", "tier0", "client", {}),
    Row("LatencyFlex", "client", "client", {"ConVar"}),
    Row("LocalChatWriter", "client", "client", {}),
    Row("R2EngineClient", "engine", "unsided", {}),
    Row("ConCommand", "engine", "unsided", {}),
    Row("ConVar", "engine", "unsided", {}),
    Row("RpakFilesystem", "engine", "unsided", {}),
    Row("ClientInterface", "client", "unsided", {}),
    Row("ServerInterface", "server", "unsided", {}),
    Row("EngineInterface", "engine", "unsided", {}),
    Row("Tier0GameFuncs", "tier0", "unsided", {}),
    Row("DedicatedServer", "engine", "dedi", {"ServerPresence"}),
    Row("DedicatedServerOrigin", "tier0", "dedi", {}),
    Row("DedicatedServerGameDLL", "server", "dedi", {}),
    Row("DedicatedServerLogToClient", "engine", "dedi", {}),
    Row("Host_Init", "engine", "unsided", {}),
    Row("HostState", "engine", "unsided", {"ConVar"}),
    Row("R2Engine", "engine", "unsided", {}),
    Row("RunFrame", "engine", "unsided", {}),
    Row("SpeedmodEngineHooks", "engine", "client", {}),
    Row("SpeedmodClientHooks", "client", "client", {}),
    Row("SpeedmodServerHooks", "server", "client", {}),
    Row("EngineSpewFuncHooks", "engine", "unsided", {"ConVar"}),
    Row("ClientPrintHooks", "client", "client", {"ConVar"}),
    Row("SourceConsole", "client", "client", {"ConCommand"}),
    Row("MasterServer", "engine", "unsided", {"ConCommand", "ServerPresence"}),
    Row("ModManager", "engine", "unsided", {"ConCommand", "MasterServer"}),
    Row("PluginBackendEngine", "engine", "unsided", {"ConCommand"}),
    Row("PluginBackendClient", "client", "unsided", {"ConCommand"}),
    Row("PluginBackendServer", "server", "unsided", {"ConCommand"}),
    Row("ClientChatHooks", "client", "client", {}),
    Row("ScriptExternalBrowserHooks", "engine", "client", {}),
    Row("ScriptServerToClientStringCommand", "client", "client", {"ClientSquirrel"}),
    Row("ServerScriptDatatables", "server", "unsided", {"ServerSquirrel"}),
    Row("ClientScriptDatatables", "client", "unsided", {"ClientSquirrel"}),
    Row("SharedScriptDataTables", "engine", "unsided", {"ConVar"}),
    Row("HttpRequestHandler_ClientInit", "client", "unsided", {"ClientSquirrel"}),
    Row("HttpRequestHandler_ServerInit", "server", "unsided", {"ServerSquirrel"}),
    Row("HttpRequestHandler_Init", "engine", "unsided", {}),
    Row("MiscServerFixes", "server", "unsided", {}),
    Row("ServerAllTalk", "engine", "unsided", {"ConVar"}),
    Row("BanSystem", "engine", "unsided", {"ConCommand"}),
    Row("ServerAuthentication", "engine", "unsided", {"ConCommand", "ConVar"}),
    Row("BuildAINFile", "server", "unsided", {}),
    Row("R2GameServer", "server", "unsided", {}),
    Row("EngineServerChatHooks", "engine", "unsided", {}),
    Row("ServerChatHooks", "server", "unsided", {"ServerSquirrel"}),
    Row("ServerNetHooks", "engine", "unsided", {"ConVar"}),
    Row("ServerPresence", "engine", "unsided", {"ConVar"}),
    Row("EngineExploitFixes", "engine", "unsided", {}),
    Row("ServerExploitFixes", "server", "unsided", {"ConVar"}),
    Row("ExploitFixes_LZSS", "engine", "unsided", {}),
    Row("EngineExploitFixes_UTF8Parser", "engine", "unsided", {}),
    Row("EngineKeyValues", "engine", "unsided", {}),
    Row("MaxPlayersOverride_Engine", "engine", "unsided", {}),
    Row("MaxPlayersOverride_Server", "server", "unsided", {}),
    Row("MaxPlayersOverride_Client", "client", "unsided", {}),
    Row("PlaylistHooks", "engine", "unsided", {"ConCommand", "ConVar"}),
    Row("ClientSquirrel", "client", "unsided", {"ConCommand"}),
    Row("ServerSquirrel", "server", "unsided", {"ConCommand"}),
    Row("ClientSquirrelAutoBind", "client", "unsided", {"ClientSquirrel"}),
    Row("ServerSquirrelAutoBind", "server", "unsided", {"ServerSquirrel"}),
    Row("TASClientHooks", "client", "client", {}),
    Row("TASEngineHooks", "engine", "client", {}),
    Row("WinInfo", "engine", "unsided", {}) >>

\* What callbacks use without relying on it: they make convars or commands.
Unstated(tag) ==
    CASE tag \in {"InputHooks", "SpeedmodEngineHooks", "MasterServer", "BuildAINFile",
                  "TASClientHooks", "ModManager"} -> {"ConVar"}
      [] tag \in {"ScriptServerToClientStringCommand", "SharedScriptDataTables"} -> {"ConCommand"}
      [] OTHER -> {}

MCUses ==
    LET Stated(tag) == {c \in DOMAIN MCRegistered : MCRegistered[c].tag = tag} IN
    [t \in {MCRegistered[c].tag : c \in DOMAIN MCRegistered} |->
        Unstated(t) \cup UNION {MCRegistered[c].reliesOn : c \in Stated(t)}]

MCBefore == [d \in MCDlls |->
    IF d \in {"client", "server", "inputsystem"} THEN {"engine"} ELSE {}]

\* How deep a callback is in what it relies on.
MCLevel ==
    LET Deeper(c) == {b \in DOMAIN MCRegistered : MCRegistered[b].tag \in MCRegistered[c].reliesOn}
        level[c \in DOMAIN MCRegistered] ==
            IF Deeper(c) = {} THEN 0 ELSE 1 + Max({level[b] : b \in Deeper(c)})
    IN  level
=============================================================================
