------------------------------ MODULE MCIdentity -------------------------------
(* Small instances of Identity for TLC. *)
EXTENDS Identity

CONSTANTS k1, u1

MCAssignments == {{}, {"BUYER"}, {"SELLER", "BUYER"}}
=============================================================================
