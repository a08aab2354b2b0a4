--------------------------- MODULE MCSuiteExecution ---------------------------
(* The whole catalog, both suites, every entry point.                        *)
EXTENDS SuiteExecution, CheckCatalog

MCCheckIds == ToSet(AllIds)
MCPhaseOf(id) == Specification[id].contract
MCNoting == ToSet(CheckTempResources)
=============================================================================
