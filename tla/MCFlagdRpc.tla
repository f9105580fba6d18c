---------------------------- MODULE MCFlagdRpc ----------------------------
(* The values of FlagdRpc's constants that a cfg cannot write. *)
EXTENDS FlagdRpc

BoolOnly  == {"boolean"}
OtherOnly == {"Other"}
=============================================================================
