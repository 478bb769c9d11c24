---------------------------- MODULE MCGapParams ----------------------------
(***************************************************************************)
(* Times around every bound of the code and of the controller, and beyond  *)
(* 40959 ms, where the product leaves 16 bits; lengths around 31.          *)
(***************************************************************************)
EXTENDS GapParams

EdgeTimes == {2, 3, 19, 20, 10240, 10241, 40959, 40980}
EdgeLengths == {0, 26, 27, 31, 32}
=============================================================================
