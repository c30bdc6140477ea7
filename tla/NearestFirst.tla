---------------------------- MODULE NearestFirst ----------------------------
(***************************************************************************)
(* What allocate_trampoline_page promises about the places it tries: every *)
(* base that a near jump at the hook reaches and at which a page fits is   *)
(* tried at most once, a nearer one before a farther one, and the search   *)
(* reports NoMemoryCave only when none is left.  Nothing is said of how    *)
(* the bases are enumerated, nor of which of two equally near ones comes   *)
(* first.                                                                  *)
(***************************************************************************)
EXTENDS RelativeJump

CONSTANTS
    PageSize,       \* MmapOptions::page_size()
    Granularity,    \* MmapOptions::allocation_granularity()
    Hooks           \* addresses callers patch

VARIABLES
    hook,           \* the patched address
    left,           \* the bases not tried yet
    outcome         \* what the search answered; "searching" before

avars == <<hook, left, outcome>>

AInit ==
    /\ hook \in Hooks
    /\ left = Places(hook + NEAR_JUMP_SIZE, PageSize, Granularity)
    /\ outcome = "searching"

Nearest(b) == \A c \in left : abs_diff(b, hook) <= abs_diff(c, hook)

(* The nearest base is tried: it is refused, or it ends the search. *)
ATry(b) ==
    /\ outcome = "searching"
    /\ Nearest(b)
    /\ left' = left \ {b}
    /\ outcome' \in {"searching", "Ok", "Err"}
    /\ UNCHANGED hook

AGiveUp ==
    /\ outcome = "searching"
    /\ left = {}
    /\ outcome' = "NoMemoryCave"
    /\ UNCHANGED <<hook, left>>

(* Only a hook in the last granule of the address space: rounding it up    *)
(* leaves the address space.                                               *)
AOverflow ==
    /\ outcome = "searching"
    /\ hook > align_down(UsizeMax, Granularity)
    /\ outcome' = "AddressOverflow"
    /\ UNCHANGED <<hook, left>>

ANext == (\E b \in left : ATry(b)) \/ AGiveUp \/ AOverflow

ASpec == AInit /\ [][ANext]_avars
=============================================================================
