--------------------------- MODULE MCPatchSession ---------------------------
(***************************************************************************)
(* Small instances of PatchSession: four places for pages of twelve bytes, *)
(* a reach of about a granule and a half, so that every hook reaches some  *)
(* places and not others, and trampolines whose exits lead far away.       *)
(***************************************************************************)
EXTENDS PatchSession, TLC

CONSTANTS s1, s2

Plain(size) == [size |-> size, length |-> size, exits |-> <<>>, fails |-> FALSE]
(* Ends with a jump to target. *)
JumpTo(size, target) ==
    [size |-> size, length |-> size, fails |-> FALSE,
     exits |-> <<[next |-> size, target |-> target]>>]
(* Jumps to two targets, the first one in the middle of its code. *)
TwoExits(first, second) ==
    [size |-> 4, length |-> 4, fails |-> FALSE,
     exits |-> <<[next |-> 2, target |-> first],
                 [next |-> 4, target |-> second]>>]
(* Jumps far away, then to a label that was never bound. *)
Unbound == [size |-> 4, length |-> 4, fails |-> FALSE,
            exits |-> <<[next |-> 2, target |-> 50], [next |-> 4, target |-> None]>>]
Failing == [size |-> 2, length |-> 2, exits |-> <<>>, fails |-> TRUE]
WrongSize == [size |-> 2, length |-> 3, exits |-> <<>>, fails |-> FALSE]

(* What one session may be asked alone: every kind of builder. *)
MCBuilders == {Plain(0), Plain(3), Plain(13), JumpTo(8, 50),
               TwoExits(10, 40), Unbound, Failing, WrongSize}
(* What two sessions that compete for places are asked. *)
MCFewBuilders == {Plain(5), JumpTo(3, 40)}

Symmetry == Permutations(Sessions)
=============================================================================
