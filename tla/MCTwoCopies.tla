---------------------------- MODULE MCTwoCopies ----------------------------
(***************************************************************************)
(* Two copies with one session each: the second page belongs to both, the  *)
(* first one to the first copy or to none; overlapping patches included.   *)
(***************************************************************************)
EXTENDS TwoCopies, TLC

CONSTANTS s1, s2, p1, p2, nop, b1

MCInitialCode == [a \in Address |-> b1]
MCInitialProtection ==
    [g \in {align_down(a, PageSize) : a \in Address} |->
        IF g = 0 THEN "PAGE_EXECUTE_READ" ELSE "PAGE_READONLY"]
MCPayloads == {<<nop, b1>>}

Symmetry == Permutations(CodePages)
=============================================================================
