---------------------------- MODULE MCPasteStore ----------------------------
(* Two writes, a delete and a read of one name.                            *)
EXTENDS PasteStore, TLC

CONSTANTS w1, w2, d1, r1, r2nd

MCOne == {w1}
MCTwo == {w1, w2}
MCOther == {w2}
MCNoWrite == {}
MCDeletes == {d1}
MCReader == {r1}
MCReaders == {r1, r2nd}
MCWriteSymmetry == Permutations(MCTwo)
============================================================================
