------------------------------- MODULE MCMuji -------------------------------
(* Two participants that we call and one that calls us.                      *)
EXTENDS Muji
=============================================================================
