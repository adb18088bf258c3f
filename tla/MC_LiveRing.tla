----------------------------- MODULE MC_LiveRing -----------------------------
(* Small instances of LiveRing for TLC: a ring of 3 bytes read and written *)
(* in chunks of 2, an upload of at most 5 bytes, two GETs.                 *)
EXTENDS LiveRing, TLC

CONSTANTS r1, r2

MCReaders == {r1, r2}

MCSymmetry == Permutations(MCReaders)
=============================================================================
