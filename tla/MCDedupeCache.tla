---------------------------- MODULE MCDedupeCache ----------------------------
(***************************************************************************)
(* TLC instances of DedupeCache.  The code's 300 and 60 seconds are scaled *)
(* to 4 and 2 so that several sweeps and a whole window fit below MaxTime. *)
(***************************************************************************)
EXTENDS DedupeCache

CONSTANTS k1, k2, noKey, c1, c2

MCKeys == {k1, k2}
MCCallers == {c1, c2}

=============================================================================
