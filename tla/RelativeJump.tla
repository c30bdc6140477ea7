---------------------------- MODULE RelativeJump ----------------------------
(***************************************************************************)
(* The arithmetic of src/src/relative_jump.rs: which addresses a rel32     *)
(* displacement reaches, where a trampoline fits in a page, and the        *)
(* iterator over the places for a new trampoline page.  All of it is pure; *)
(* CandidateSearch and PatchSession run it.                                *)
(***************************************************************************)
EXTENDS AddressSpace

CONSTANTS
    I32Max,                 \* i32::MAX, scaled down
    NEAR_JUMP_SIZE,         \* 5 in the source
    TRAMPOLINE_ALIGNMENT    \* 16 in the source

I32Min == -I32Max - 1      \* i32::MIN

ASSUME RelativeJumpAssumption ==
    /\ I32Max \in Nat
    /\ NEAR_JUMP_SIZE \in Nat \ {0}
    /\ NEAR_JUMP_SIZE <= -I32Min
    /\ TRAMPOLINE_ALIGNMENT \in Nat \ {0}

Lesser(a, b) == IF a <= b THEN a ELSE b
Greater(a, b) == IF a <= b THEN b ELSE a
abs_diff(a, b) == Greater(a, b) - Lesser(a, b)

(* relative_offset(next_instruction, destination).is_ok() *)
relative_offset_fits(next_instruction, destination) ==
    destination - next_instruction \in I32Min .. I32Max

(* The bases that serve a near jump: aligned, in reach, room for a page.   *)
Places(next_instruction, page_size, granularity) ==
    {b \in Address :
        /\ b % granularity = 0
        /\ relative_offset_fits(next_instruction, b)
        /\ b + page_size - 1 <= UsizeMax}

(* The None of slot_range's Option<Range<usize>>. *)
NoSlot == [start |-> None, end |-> None]

(* Mutant: the end is never compared with the page's capacity. *)
slot_range_unbounded(used, size, capacity) ==
    LET start == align_up(used, TRAMPOLINE_ALIGNMENT)
    IN IF start = None \/ checked_add(start, size) = None
       THEN NoSlot
       ELSE [start |-> start, end |-> start + size]

(* Mutant: the start is rounded into the space already used. *)
slot_range_rounded_down(used, size, capacity) ==
    LET start == align_down(used, TRAMPOLINE_ALIGNMENT)
    IN IF start + size > capacity
       THEN NoSlot
       ELSE [start |-> start, end |-> start + size]

slot_range(used, size, capacity) ==
    LET start == align_up(used, TRAMPOLINE_ALIGNMENT)
    IN IF start = None \/ checked_add(start, size) = None
          \/ start + size > capacity
       THEN NoSlot
       ELSE [start |-> start, end |-> start + size]
-----------------------------------------------------------------------------
(* candidate_bounds: the lowest and the highest base to try.               *)

(* None when rounding up overflows. *)
lowest_base(next_instruction, granularity) ==
    align_up(Greater(next_instruction + I32Min, 0), granularity)

highest_base(next_instruction, page_size, granularity) ==
    align_down(Lesser(next_instruction + I32Max,
                      UsizeMax - Greater(page_size - 1, 0)),
               granularity)
-----------------------------------------------------------------------------
(* struct CandidateAddresses.  lower and upper are the next base on each   *)
(* side of the hook; None when that side is used up.                       *)

InBounds(candidate, minimum, maximum) ==
    IF candidate # None /\ minimum <= candidate /\ candidate <= maximum
    THEN candidate
    ELSE None

new_lower(hook, minimum, maximum, granularity) ==
    InBounds(align_down(Lesser(hook, maximum), granularity), minimum, maximum)

(* The base at or above the hook; None here is AddressOverflow. *)
round_up_hook(hook, minimum, granularity) ==
    align_up(Greater(hook, minimum), granularity)

(* Mutant: a hook on a boundary offers its own base on both sides. *)
new_upper_repeating_lower(hook, minimum, maximum, granularity) ==
    InBounds(round_up_hook(hook, minimum, granularity), minimum, maximum)

new_upper(hook, minimum, maximum, granularity) ==
    LET upper == InBounds(round_up_hook(hook, minimum, granularity),
                          minimum, maximum)
    IN IF upper # None
          /\ upper = new_lower(hook, minimum, maximum, granularity)
       THEN InBounds(checked_add(upper, granularity), minimum, maximum)
       ELSE upper

(* The match of Iterator::next: the nearer side, the lower one on a tie. *)
take_lower(hook, lower, upper) ==
    /\ lower # None
    /\ upper # None => abs_diff(lower, hook) <= abs_diff(upper, hook)

(* Mutant: the filter that ends the lower side is missing. *)
below_unfiltered(lower, minimum, granularity) == lower - granularity

(* checked_sub and the filter; minimum is not negative. *)
below(lower, minimum, granularity) ==
    IF lower - granularity >= minimum THEN lower - granularity ELSE None

(* Mutant: a wrapping addition. *)
above_wrapping(upper, maximum, granularity) ==
    LET next == (upper + granularity) % (UsizeMax + 1)
    IN IF next <= maximum THEN next ELSE None

above(upper, maximum, granularity) ==
    IF checked_add(upper, granularity) # None /\ upper + granularity <= maximum
    THEN upper + granularity
    ELSE None
=============================================================================
