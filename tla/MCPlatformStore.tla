--------------------------- MODULE MCPlatformStore ---------------------------
(* Pool threads and device ids are interchangeable. *)
EXTENDS PlatformStore, TLC

Symmetry == Permutations(Handlers) \cup Permutations(Ids)
=============================================================================
