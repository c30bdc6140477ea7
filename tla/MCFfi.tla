------------------------------- MODULE MCFfi -------------------------------
(***************************************************************************)
(* Small instances of Ffi: several threads with sessions, and one thread   *)
(* that builds trampolines and detours to them.                            *)
(***************************************************************************)
EXTENDS Ffi

CONSTANTS c1, c2, s1, s2, h1, h2, new, old

MCInitialCode == [a \in Address |-> old]
(* Fills the address space: one patch at most fits. *)
OneReplacement == {<<new>>}
WideReplacement == {[k \in 1 .. UsizeMax |-> new]}
=============================================================================
