---------------------------- MODULE MCTenantGate ----------------------------
(* A small instance of TenantGate for TLC. *)
EXTENDS TenantGate, TLC

CONSTANTS r1, r2, k1

(* requests differ in nothing but what they carry *)
Interchangeable == Permutations(Requests)

=============================================================================
