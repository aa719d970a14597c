---------------------------- MODULE MCBlkDevice -----------------------------
(***************************************************************************)
(* A small instance of BlkDevice: the constants are given in the cfg file.   *)
(***************************************************************************)
EXTENDS BlkDevice
=============================================================================
