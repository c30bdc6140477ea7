------------------------------- MODULE Builder -------------------------------
(***************************************************************************)
(* What the allocator of trampolines (src/src/session.rs) sees of a        *)
(* trampoline: a closure that is given an address and returns code of the  *)
(* announced size or an error.  The closures are Trampoline::build         *)
(* (src/src/trampoline.rs) and those of patch.rs; the Trampoline module    *)
(* shows that a Trampoline is such a Builder.                              *)
(***************************************************************************)
EXTENDS RelativeJump, Sequences

(* A relative jump out of a trampoline: the offset of the instruction that *)
(* follows it, and where it leads; None is a label that was never bound.   *)
Exit == [next : Nat, target : Address \cup {None}]

(* A build closure: the announced size, the length of the code it returns, *)
(* that code's exits in order, and whether it fails for its own reasons.   *)
Builder == [size : Nat, length : Nat, exits : Seq(Exit), fails : BOOLEAN]

(* Mutant: a displacement is truncated to 32 bits without a look. *)
ExitTruncated(exit, address) ==
    IF exit.target = None THEN "BuildFailed"
    ELSE IF checked_add(address, exit.next) = None THEN "AddressOverflow"
    ELSE "Ok"

(* One exit of a trampoline at address: its error, or "Ok". *)
ExitResult(exit, address) ==
    IF exit.target = None THEN "BuildFailed"
    ELSE IF checked_add(address, exit.next) = None THEN "AddressOverflow"
    ELSE IF ~relative_offset_fits(address + exit.next, exit.target)
    THEN "RelativeJumpOutOfRange"
    ELSE "Ok"

(* The exits are resolved in order; the first failure is returned. *)
build(builder, address) ==
    LET failing == {i \in DOMAIN builder.exits :
                      ExitResult(builder.exits[i], address) # "Ok"}
        first == CHOOSE i \in failing : \A j \in failing : i <= j
    IN IF builder.fails THEN "BuildFailed"
       ELSE IF failing # {} THEN ExitResult(builder.exits[first], address)
       ELSE IF builder.length # builder.size THEN "UnexpectedTrampolineSize"
       ELSE "Ok"
=============================================================================
