--------------------------- MODULE MCAuditChain ---------------------------
(* Model checking of module AuditChain: writers and tenants are interchangeable.  *)
EXTENDS AuditChain, TLC

Symmetry == Permutations(Writer) \cup Permutations(Tenant)
==============================================================================
