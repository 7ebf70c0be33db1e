----------------------------- MODULE MCTestTrans -----------------------------
(* Shapes for TLC: blocks that fit, blocks that do not, and single blocks    *)
(* that are cut off at either edge.                                          *)
EXTENDS TestTrans

MCShapes == {<<32, 16>>, <<32, 12>>, <<64, 4>>, <<64, 6>>, <<17, 20>>, <<20, 17>>, <<3, 5>>}
=============================================================================
