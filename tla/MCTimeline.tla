----------------------------- MODULE MCTimeline -----------------------------
(* The receive path with a short archive whose texts and edits race. *)
EXTENDS Timeline

CONSTANTS s1, s2
=============================================================================
