------------------------ MODULE MCBackendSupervisor -------------------------
(* BackendSupervisor by itself, for the quit that leaves a backend behind.     *)
EXTENDS BackendSupervisor
=============================================================================
