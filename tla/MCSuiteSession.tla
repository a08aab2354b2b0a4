--------------------------- MODULE MCSuiteSession ---------------------------
(* Three checks in two phases.  The second phase has an optional check that *)
(* arms a probe.  The paths are a directory and a file in it.               *)
EXTENDS SuiteSession

CONSTANTS dir, child, stat, basic, probe

MCPaths       == {dir, child}
MCDirectories == {dir}
MCUnder       == [p \in MCPaths |-> IF p = dir THEN {child} ELSE {}]
MCCheckIds    == {stat, basic, probe}
MCOptional    == {probe}
MCRequired    == {probe}
MCContracts   == {"Stat", "Write"}
MCForContract == [c \in MCContracts |-> IF c = "Stat" THEN <<stat>> ELSE <<basic, probe>>]
MCAllChecks   == <<stat, basic, probe>>
=============================================================================
