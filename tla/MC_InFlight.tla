----------------------------- MODULE MC_InFlight -----------------------------
(* Small instances of InFlight for TLC: two PUTs, two GETs and one DELETE  *)
(* of one path, uploads of at most two chunks.                             *)
EXTENDS InFlight, TLC

CONSTANTS p1, p2, g1, g2, d1

MCPuts == {p1, p2}

MCGets == {g1, g2}

MCDeletes == {d1}

MCSymmetry == Permutations(MCGets)
=============================================================================
