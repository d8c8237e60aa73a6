---------------------------- MODULE MCModManager ----------------------------
(* Three mods: "low" and "high", whose files and patches overlap, and "twin", *)
(* which has the name of "high", its priority, and a constant that clashes.  *)
EXTENDS ModManager

MCMods == {"low", "high", "twin"}
MCNames == {"l", "h"}
MCNameOf == [m \in MCMods |-> IF m = "low" THEN "l" ELSE "h"]
MCPriority == [m \in MCMods |-> IF m = "low" THEN 0 ELSE 1]

\* A file of the archives, one of the game's directory, the list of scripts, and the definition of
\* persistent data.
MCPaths == {"weapon", "cfg", "rson", "pdef"}
MCOverrides == [m \in MCMods |->
    CASE m = "low" -> {"weapon", "cfg"} [] m = "high" -> {"weapon"} [] OTHER -> {"cfg"}]
MCPatches == [m \in MCMods |-> IF m = "low" THEN {"weapon"} ELSE {}]
MCDefines == [m \in MCMods |->
    CASE m = "low" -> {<<"C", "h">>} [] m = "high" -> {} [] OTHER -> {<<"C", "l">>, <<"D", "l">>}]
=============================================================================
