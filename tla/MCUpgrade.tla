----------------------------- MODULE MCUpgrade -----------------------------
(* Two ends with three buttons each.                                         *)
EXTENDS Upgrade
=============================================================================
