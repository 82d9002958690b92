--------------------------- MODULE MCTenantTaskQueue ---------------------------
(* Model values for TenantTaskQueue: interchangeable tasks of one tenant.  *)
EXTENDS TenantTaskQueue, TLC

TaskSymmetry == Permutations(Tasks)
=============================================================================
