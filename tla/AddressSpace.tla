---------------------------- MODULE AddressSpace ----------------------------
(***************************************************************************)
(* Addresses of the patched process and the usize arithmetic Patchy does   *)
(* on them.  An address is a natural number up to UsizeMax (usize::MAX);   *)
(* arithmetic that would pass UsizeMax is reported, never wrapped, because *)
(* the source uses checked_add everywhere.  None stands for the None of an *)
(* Option<usize>: it is not an address.                                    *)
(***************************************************************************)
EXTENDS Integers

CONSTANT UsizeMax   \* usize::MAX, scaled down for model checking

ASSUME UsizeMaxAssumption == UsizeMax \in Nat

Address == 0 .. UsizeMax
None == -1

(* usize::checked_add *)
checked_add(a, b) == IF a + b <= UsizeMax THEN a + b ELSE None

align_down(value, alignment) == value - (value % alignment)

align_up(value, alignment) ==
    IF value % alignment = 0
    THEN value
    ELSE checked_add(value, alignment - (value % alignment))

(* The addresses of the size bytes that start at address. *)
Cells(address, size) == address .. address + size - 1

(***************************************************************************)
(* The half-open range test that both overlap checks of session.rs use.    *)
(* Ranges that only touch do not overlap.                                  *)
(***************************************************************************)
RangesOverlap(a, n, b, m) == a < b + m /\ b < a + n
=============================================================================
