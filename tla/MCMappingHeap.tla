--------------------------- MODULE MCMappingHeap ----------------------------
(* MappingHeap over few cells and keys.                                    *)
EXTENDS MappingHeap
CONSTANTS c1, c2, c3, k1, k2
ThreeCells == {c1, c2, c3}
TwoKeys    == {k1, k2}
OneKey     == {k1}
=============================================================================
