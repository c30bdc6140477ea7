--------------------------- MODULE MCPatchInstall ---------------------------
(***************************************************************************)
(* Small instances of PatchInstall: eight addresses in two pages, a        *)
(* two-byte near jump, patch sites on both sides of and across the page    *)
(* boundary.                                                               *)
(***************************************************************************)
EXTENDS PatchInstall, TLC

CONSTANTS s1, s2, p1, p2, nop, b1

MCInitialCode == [a \in Address |-> b1]
(* Pages whose protections differ: restoring the wrong one shows. *)
MCInitialProtection ==
    [g \in PageBases |-> IF g = 0 THEN "PAGE_EXECUTE_READ" ELSE "PAGE_READONLY"]
MCPayloads == {<<nop>>, <<nop, b1>>}
OnePayload == {<<nop, b1>>}

Symmetry == Permutations(Sessions) \cup Permutations(CodePages)
=============================================================================
