------------------------------ MODULE MCFsDir ------------------------------
(* FsDir for TLC: the weights of an Accept-Encoding header.                *)
EXTENDS FsDir

(* None, "0", "0.001", "1.5" (not a qvalue).                               *)
MCWeights == {<<>>, <<0>>, <<0, 0, 0, 1>>, <<1, 5>>}
=============================================================================
