--------------------------- MODULE CandidateSearch ---------------------------
(***************************************************************************)
(* PatchSession::allocate_trampoline_page (src/src/session.rs) driving     *)
(* CandidateAddresses (src/src/relative_jump.rs): the bounds are computed, *)
(* the iterator is built, and candidates are tried until one serves.  What *)
(* becomes of a candidate depends on the operating system and on the       *)
(* caller's builder: try_allocate_page returns Ok(None), Ok(Some) or Err.  *)
(***************************************************************************)
EXTENDS RelativeJump

CONSTANTS
    PageSize,       \* MmapOptions::page_size()
    Granularity,    \* MmapOptions::allocation_granularity()
    Hooks           \* addresses callers patch

ASSUME SearchAssumption ==
    /\ PageSize \in 1 .. UsizeMax + 1
    /\ Granularity \in Nat \ {0}
    /\ Hooks \subseteq {h \in Address : h + NEAR_JUMP_SIZE <= UsizeMax}

VARIABLES
    hook,
    lower, upper,   \* CandidateAddresses; hook, minimum, maximum are fixed
    phase,          \* "bounds", "new" or "next"; "done" after the return
    outcome         \* what the call returned; "searching" before

vars == <<hook, lower, upper, phase, outcome>>

next_instruction == hook + NEAR_JUMP_SIZE
minimum == lowest_base(next_instruction, Granularity)
maximum == highest_base(next_instruction, PageSize, Granularity)

Outcomes == {"searching", "Ok", "Err", "NoMemoryCave",
             "AddressOverflow"}

TypeOK ==
    /\ hook \in Hooks
    /\ lower \in Address \cup {None}
    /\ upper \in Address \cup {None}
    /\ phase \in {"bounds", "new", "next", "done"}
    /\ outcome \in Outcomes
    /\ outcome = "searching" <=> phase # "done"

Init ==
    /\ hook \in Hooks
    /\ lower = None
    /\ upper = None
    /\ phase = "bounds"
    /\ outcome = "searching"

Answer(result) ==
    /\ phase' = "done"
    /\ outcome' = result

(* candidate_bounds *)
CandidateBounds ==
    /\ phase = "bounds"
    /\ \/ minimum = None /\ Answer("AddressOverflow")
       \/ minimum # None /\ minimum > maximum /\ Answer("NoMemoryCave")
       \/ /\ minimum # None
          /\ minimum <= maximum
          /\ phase' = "new"
          /\ UNCHANGED outcome
    /\ UNCHANGED <<hook, lower, upper>>

(* CandidateAddresses::new *)
NewCandidates ==
    /\ phase = "new"
    /\ \/ /\ round_up_hook(hook, minimum, Granularity) = None
          /\ Answer("AddressOverflow")
          /\ UNCHANGED <<lower, upper>>
       \/ /\ round_up_hook(hook, minimum, Granularity) # None
          /\ lower' = new_lower(hook, minimum, maximum, Granularity)
          /\ upper' = new_upper(hook, minimum, maximum, Granularity)
          /\ phase' = "next"
          /\ UNCHANGED outcome
    /\ UNCHANGED hook

(* What try_allocate_page makes of the candidate just taken. *)
TryAllocatePage ==
    \/ UNCHANGED <<phase, outcome>>
    \/ Answer("Ok")
    \/ Answer("Err")

TryLower ==
    /\ phase = "next"
    /\ take_lower(hook, lower, upper)
    /\ lower' = below(lower, minimum, Granularity)
    /\ TryAllocatePage
    /\ UNCHANGED <<hook, upper>>

TryUpper ==
    /\ phase = "next"
    /\ upper # None
    /\ ~take_lower(hook, lower, upper)
    /\ upper' = above(upper, maximum, Granularity)
    /\ TryAllocatePage
    /\ UNCHANGED <<hook, lower>>

Exhausted ==
    /\ phase = "next"
    /\ lower = None
    /\ upper = None
    /\ Answer("NoMemoryCave")
    /\ UNCHANGED <<hook, lower, upper>>

Finished == phase = "done" /\ UNCHANGED vars

Search == CandidateBounds \/ NewCandidates \/ TryLower \/ TryUpper \/ Exhausted

Next == Search \/ Finished

Spec == Init /\ [][Next]_vars

(* The loop is sequential code: it runs on until it returns. *)
FairSpec == Spec /\ WF_vars(Search)
-----------------------------------------------------------------------------
(* Properties.                                                             *)

(* The bases the iterator has still to return. *)
Remaining ==
    {b \in Address :
        /\ b % Granularity = 0
        /\ \/ lower # None /\ minimum <= b /\ b <= lower
           \/ upper # None /\ upper <= b /\ b <= maximum}

Untried ==
    IF phase \in {"bounds", "new"} \/ outcome = "AddressOverflow"
    THEN Places(next_instruction, PageSize, Granularity)
    ELSE Remaining

(***************************************************************************)
(* The enumeration implements NearestFirst: walking away from the hook on  *)
(* both sides, starting and ending at computed bounds, tries exactly the   *)
(* bases that serve, each once, in order of distance (session.rs 158-173,  *)
(* relative_jump.rs 73-151).                                               *)
(***************************************************************************)
Abstract == INSTANCE NearestFirst WITH left <- Untried
TriesNearestFirst == Abstract!ASpec

(***************************************************************************)
(* The search returns: both sides of the iterator run out (session.rs      *)
(* 161-173), also at the ends of the address space, where the next base    *)
(* would wrap.                                                             *)
(***************************************************************************)
SearchReturns == <>(phase = "done")
=============================================================================
