----------------------------- MODULE MCPrekeys -----------------------------
(* Two peers, one of whose key exchanges arrives live and from the archive. *)
EXTENDS Prekeys

CONSTANTS b1, k1, k2
MCCopies == {<<k1, "live">>, <<k1, "mam">>, <<k2, "live">>}
=============================================================================
