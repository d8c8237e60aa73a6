-------------------------- MODULE MCRpakFilesystem --------------------------
(* Three paks that are always loaded: "A" and "E" may fail; "E" also wants   *)
(* to follow "common", and "B" to follow "C", which goes with a map and      *)
(* wants, by mistake, to follow itself.  Of two maps the game has one; "hub" *)
(* stands for it.                                                            *)
EXTENDS RpakFilesystem

MCNames == {"common", "mp", "hub", "custom"}
MCAliasOf == [n \in MCNames |-> IF n = "hub" THEN "mp" ELSE n]
MCEntries == <<
    [path |-> "B", name |-> "mp", auto |-> TRUE, after |-> "C"],
    [path |-> "A", name |-> "common", auto |-> TRUE, after |-> "never"],
    [path |-> "E", name |-> "common", auto |-> TRUE, after |-> "common"],
    [path |-> "C", name |-> "mp", auto |-> FALSE, after |-> "C"],
    [path |-> "D", name |-> "custom", auto |-> FALSE, after |-> "never"] >>
=============================================================================
