---------------------------- MODULE MCSyncCleanup ----------------------------
(* A directory tree two levels deep: dir, dir/sub and dir/sub/child.       *)
EXTENDS SyncCleanup

CONSTANTS dir, sub, child

MCPaths       == {dir, sub, child}
MCDirectories == {dir, sub}
MCUnder       == [p \in MCPaths |-> CASE p = dir -> {sub, child}
                                      [] p = sub -> {child}
                                      [] OTHER   -> {}]
=============================================================================
