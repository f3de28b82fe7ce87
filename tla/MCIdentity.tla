----------------------------- MODULE MCIdentity -----------------------------
(* A task that uses the stores, two initialisations, one regeneration and one *)
(* other device of the account.                                              *)
EXTENDS Identity

CONSTANTS u1, i1, r1
MCOthers == {9}
=============================================================================
