------------------------------ MODULE MCCalls ------------------------------
(* One call placed and one received: the two that share the screen. *)
EXTENDS Calls

CONSTANTS o1, i1

\* Two engines in all: one for each call, or both for the call that is accepted twice.
TwoEnginesInAll == started[o1] + started[i1] + accepting[i1] <= 2
=============================================================================
