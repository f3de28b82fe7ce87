------------------------------ MODULE MCOutbox ------------------------------
(* The send path with one plain and one encrypted message: the two that race. *)
EXTENDS Outbox

CONSTANTS m1, m2, f1, f2
=============================================================================
