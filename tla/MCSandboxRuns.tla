--------------------------- MODULE MCSandboxRuns ---------------------------
(* Small instances of SandboxRuns for TLC: all calls are of one tenant. *)
EXTENDS SandboxRuns

CONSTANT t1

MCTenantOf == [r \in Run |-> t1]
=============================================================================
