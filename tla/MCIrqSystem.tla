---------------------------- MODULE MCIrqSystem -----------------------------
(***************************************************************************)
(* Small instances of IrqSystem: the constants are given in the cfg files.   *)
(***************************************************************************)
EXTENDS IrqSystem
=============================================================================
