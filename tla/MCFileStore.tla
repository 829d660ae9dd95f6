---------------------------- MODULE MCFileStore ----------------------------
(* Two drea processes that save one file and one that loads it.            *)
EXTENDS FileStore, TLC

CONSTANTS w1, w2, r1, v1, v2, i1, i2, i3, i4, i5

MCWriters == {w1, w2}
MCReaders == {r1}
MCValues  == {v1, v2}
MCInodes  == {i1, i2, i3, i4, i5}

Symmetry == Permutations(MCWriters) \cup Permutations(MCValues) \cup Permutations(MCInodes)
=============================================================================
