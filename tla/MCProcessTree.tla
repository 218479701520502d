---------------------------- MODULE MCProcessTree ----------------------------
(* ProcessTree for TLC.                                                      *)
EXTENDS ProcessTree
==============================================================================
