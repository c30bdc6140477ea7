---------------------------- MODULE MCTrampoline ----------------------------
(***************************************************************************)
(* Small instances of Trampoline: displacements of two bytes that reach a  *)
(* dozen bytes, in an address space somewhat larger than that.             *)
(***************************************************************************)
EXTENDS Trampoline

CONSTANTS t1, t2
=============================================================================
