---------------------------- MODULE PatchSession ----------------------------
(***************************************************************************)
(* Preparing patches: PatchSession::overwrite, patch_call, detour,         *)
(* detour_trampoline and detour_with (src/src/patch.rs) and the trampoline *)
(* allocator under them (src/src/session.rs), for several sessions of one  *)
(* process, each used by a thread of its own.  A session is private to its *)
(* thread; what the threads share is the address space, where each of them *)
(* asks the operating system for pages near its hooks.  Each request to    *)
(* the operating system is a step of its own.                              *)
(*                                                                         *)
(* A trampoline is a Builder to this module: a length, and the relative    *)
(* jumps that leave it.  Installation is in PatchInstall.                  *)
(***************************************************************************)
EXTENDS Builder

CONSTANTS
    Sessions,       \* the PatchSession values of the process
    Free,           \* a place of the address space with nothing mapped
    PageSize,       \* MmapOptions::page_size()
    Granularity,    \* MmapOptions::allocation_granularity()
    Sites,          \* addresses callers patch
    Sizes,          \* sizes of the patches callers ask for
    CallSizes,      \* sizes of the code patch_call generates
    Builders,       \* trampolines callers bring
    MaxPatches      \* bound on the patches of one session

(* The places where a page can be mapped. *)
Granules == {b \in Address : b % Granularity = 0}

ASSUME SessionAssumption ==
    /\ Free \notin Sessions
    /\ PageSize \in 1 .. Granularity
    /\ Granularity \in 1 .. UsizeMax + 1
    /\ Sites \subseteq Address
    /\ Sizes \subseteq Nat
    /\ CallSizes \subseteq Nat \ {0}
    /\ Builders \subseteq Builder
    /\ MaxPatches \in Nat

VARIABLES
    pages,      \* each session's MutableCodePage values, oldest first
    code,       \* the trampolines copied into its pages
    pending,    \* its prepared patches
    call,       \* the call each thread is in
    answer,     \* what its latest call returned
    place       \* who has mapped a page at each place

vars == <<pages, code, pending, call, answer, place>>

MutableCodePage == [base : Granules, used : 0 .. PageSize]
(* displacements[i] is what was encoded for the i-th exit. *)
Code == [at : Address, length : Nat, exits : Seq(Exit),
         displacements : Seq(Int)]
(* An overwrite has no trampoline. *)
PendingPatch == [address : Address, size : Nat \ {0},
                 trampoline : Address \cup {None}]

Idle == [phase |-> "idle"]
Call ==
    {Idle, [phase |-> "dropped"]}
    \cup [phase : {"pages"}, address : Address, size : Nat,
          builder : Builder, cursor : Nat]
    \cup [phase : {"next"}, address : Address, size : Nat,
          builder : Builder,
          lower : Address \cup {None}, upper : Address \cup {None}]
    \cup [phase : {"build"}, address : Address, size : Nat,
          builder : Builder, candidate : Granules, mapping : Granules,
          lower : Address \cup {None}, upper : Address \cup {None}]
(* BuildFailed stands for InvalidLabel and UnboundLabel.  Mapping is never *)
(* returned: MmapOptions::new refuses a page size of 0 only.               *)
Errors == {"EmptyPatch", "PatchTooSmall", "EmptyTrampoline",
           "AddressOverflow", "OverlappingPatch", "TrampolineTooLarge",
           "UnexpectedTrampolineSize", "NoMemoryCave", "BuildFailed",
           "RelativeJumpOutOfRange"}

TypeOK ==
    /\ pages \in [Sessions -> Seq(MutableCodePage)]
    /\ code \in [Sessions -> SUBSET Code]
    /\ pending \in [Sessions -> Seq(PendingPatch)]
    /\ call \in [Sessions -> Call]
    /\ answer \in [Sessions -> Errors \cup {"none", "Ok"}]
    /\ place \in [Granules -> Sessions \cup {Free}]

Init ==
    /\ pages = [s \in Sessions |-> <<>>]
    /\ code = [s \in Sessions |-> {}]
    /\ pending = [s \in Sessions |-> <<>>]
    /\ call = [s \in Sessions |-> Idle]
    /\ answer = [s \in Sessions |-> "none"]
    /\ place = [g \in Granules |-> Free]
-----------------------------------------------------------------------------
(* Returning from a call.                                                  *)

Answer(s, result) ==
    /\ answer' = [answer EXCEPT ![s] = result]
    /\ call' = [call EXCEPT ![s] = Idle]

Fail(s, error) ==
    /\ Answer(s, error)
    /\ UNCHANGED <<pages, code, pending>>

Push(s, address, size, trampoline) ==
    pending' = [pending EXCEPT ![s] = Append(@,
        [address |-> address, size |-> size, trampoline |-> trampoline])]

(* ensure_patch_does_not_overlap: the error it returns, or "Ok" *)
ensure_patch_does_not_overlap(s, address, size) ==
    IF size = 0 THEN "EmptyPatch"
    ELSE IF checked_add(address, size) = None THEN "AddressOverflow"
    ELSE IF \E i \in DOMAIN pending[s] :
              RangesOverlap(address, size,
                            pending[s][i].address, pending[s][i].size)
    THEN "OverlappingPatch"
    ELSE "Ok"

Overwrite(s, address, size) ==
    /\ call[s] = Idle
    /\ Len(pending[s]) < MaxPatches
    /\ LET checked == ensure_patch_does_not_overlap(s, address, size) IN
       \/ checked # "Ok" /\ Fail(s, checked)
       \/ /\ checked = "Ok"
          /\ Push(s, address, size, None)
          /\ Answer(s, "Ok")
          /\ UNCHANGED <<pages, code>>
    /\ UNCHANGED place

(* Why prepare_detour or allocate_trampoline fails before its loop.        *)
detour_error(s, address, size, builder) ==
    LET checked == ensure_patch_does_not_overlap(s, address, size) IN
    IF checked # "Ok" THEN checked
    ELSE IF builder.size > PageSize THEN "TrampolineTooLarge"
    ELSE IF checked_add(address, NEAR_JUMP_SIZE) = None THEN "AddressOverflow"
    ELSE "Ok"

prepare_detour(s, address, size, builder) ==
    LET error == detour_error(s, address, size, builder) IN
    \/ error # "Ok" /\ Fail(s, error)
    \/ /\ error = "Ok"
       /\ call' = [call EXCEPT ![s] =
            [phase |-> "pages", address |-> address, size |-> size,
             builder |-> builder, cursor |-> 1]]
       /\ UNCHANGED <<pages, code, pending, answer>>

(* The one exit jumps from the end of the code to after the patch. *)
PatchCallBuilder(address, size, code_size) ==
    [size |-> code_size, length |-> code_size, fails |-> FALSE,
     exits |-> <<[next |-> code_size, target |-> address + size]>>]

PatchCall(s, address, size, code_size) ==
    /\ call[s] = Idle
    /\ Len(pending[s]) < MaxPatches
    /\ \/ size < NEAR_JUMP_SIZE /\ Fail(s, "PatchTooSmall")
       \/ /\ size >= NEAR_JUMP_SIZE
          /\ checked_add(address, size) = None
          /\ Fail(s, "AddressOverflow")
       \/ /\ size >= NEAR_JUMP_SIZE
          /\ checked_add(address, size) # None
          /\ prepare_detour(s, address, size,
                            PatchCallBuilder(address, size, code_size))
    /\ UNCHANGED place

(* detour_with; detour calls it with a builder that has no exits, and      *)
(* detour_trampoline with Trampoline::build.  The two errors come in the   *)
(* other order from detour_trampoline.                                     *)
DetourWith(s, address, size, builder) ==
    /\ call[s] = Idle
    /\ Len(pending[s]) < MaxPatches
    /\ \/ size < NEAR_JUMP_SIZE /\ Fail(s, "PatchTooSmall")
       \/ builder.size = 0 /\ Fail(s, "EmptyTrampoline")
       \/ /\ size >= NEAR_JUMP_SIZE
          /\ builder.size > 0
          /\ prepare_detour(s, address, size, builder)
    /\ UNCHANGED place
-----------------------------------------------------------------------------
(* Building a trampoline at an address.                                    *)

(***************************************************************************)
(* The built code is copied to at, prepare_detour encodes the near jump    *)
(* and pushes the patch.  Should the jump not reach, the error is returned *)
(* and the trampoline's space stays taken.                                 *)
(***************************************************************************)
PlaceTrampoline(s, at, built_for) ==
    LET c == call[s]
        b == c.builder
    IN /\ code' = [code EXCEPT ![s] = @ \cup
            {[at |-> at, length |-> b.length, exits |-> b.exits,
              displacements |-> [i \in DOMAIN b.exits |->
                  b.exits[i].target - (built_for + b.exits[i].next)]]}]
       /\ IF relative_offset_fits(c.address + NEAR_JUMP_SIZE, at)
          THEN /\ Push(s, c.address, c.size, at)
               /\ Answer(s, "Ok")
          ELSE /\ Answer(s, "RelativeJumpOutOfRange")
               /\ UNCHANGED pending
-----------------------------------------------------------------------------
(* The loop over the pages the session already has.                        *)

NextPage(s) ==
    /\ call' = [call EXCEPT ![s].cursor = @ + 1]
    /\ UNCHANGED <<pages, code, pending, answer>>

(* Mutant: an old page is used although the hook does not reach it. *)
SlotResultUnreached(c, page, slot) ==
    IF slot = NoSlot
       \/ build(c.builder, page.base + slot.start) = "RelativeJumpOutOfRange"
    THEN "next page"
    ELSE build(c.builder, page.base + slot.start)

(* How one iteration of the loop ends: the next page, an error, or "Ok". *)
SlotResult(c, page, slot) ==
    LET address == checked_add(page.base, slot.start) IN
    IF slot = NoSlot THEN "next page"
    ELSE IF address = None THEN "AddressOverflow"
    ELSE IF ~relative_offset_fits(c.address + NEAR_JUMP_SIZE, address)
            \/ build(c.builder, address) = "RelativeJumpOutOfRange"
    THEN "next page"
    ELSE build(c.builder, address)

TryPage(s) ==
    /\ call[s].phase = "pages"
    /\ call[s].cursor \in DOMAIN pages[s]
    /\ LET c == call[s]
           page == pages[s][c.cursor]
           slot == slot_range(page.used, c.builder.size, PageSize)
           result == SlotResult(c, page, slot)
           address == page.base + slot.start
       IN \/ result = "next page" /\ NextPage(s)
          \/ result \in Errors /\ Fail(s, result)
          \/ /\ result = "Ok"
             /\ pages' = [pages EXCEPT ![s][c.cursor].used = slot.end]
             /\ PlaceTrampoline(s, address, address)
    /\ UNCHANGED place
-----------------------------------------------------------------------------
(* allocate_trampoline_page and try_allocate_page.                         *)

Minimum(c) == lowest_base(c.address + NEAR_JUMP_SIZE, Granularity)
Maximum(c) == highest_base(c.address + NEAR_JUMP_SIZE, PageSize, Granularity)

(* Why candidate_bounds or CandidateAddresses::new fails. *)
search_error(c) ==
    IF Minimum(c) = None THEN "AddressOverflow"
    ELSE IF Minimum(c) > Maximum(c) THEN "NoMemoryCave"
    ELSE IF round_up_hook(c.address, Minimum(c), Granularity) = None
    THEN "AddressOverflow"
    ELSE "Ok"

SearchPlaces(s) ==
    /\ call[s].phase = "pages"
    /\ call[s].cursor > Len(pages[s])
    /\ LET c == call[s] IN
       \/ search_error(c) # "Ok" /\ Fail(s, search_error(c))
       \/ /\ search_error(c) = "Ok"
          /\ call' = [call EXCEPT ![s] =
               [phase |-> "next", address |-> c.address, size |-> c.size,
                builder |-> c.builder,
                lower |-> new_lower(c.address, Minimum(c), Maximum(c),
                                    Granularity),
                upper |-> new_upper(c.address, Minimum(c), Maximum(c),
                                    Granularity)]]
          /\ UNCHANGED <<pages, code, pending, answer>>
    /\ UNCHANGED place

(***************************************************************************)
(* The next candidate is asked for.  The operating system may refuse it,   *)
(* taken or not, or map a page: there, or at any other place that is free. *)
(***************************************************************************)
TryCandidate(s) ==
    /\ call[s].phase = "next"
    /\ \/ call[s].lower # None
       \/ call[s].upper # None
    /\ LET c == call[s]
           takes_lower == take_lower(c.address, c.lower, c.upper)
           candidate == IF takes_lower THEN c.lower ELSE c.upper
           lower == IF takes_lower
                    THEN below(c.lower, Minimum(c), Granularity)
                    ELSE c.lower
           upper == IF takes_lower
                    THEN c.upper
                    ELSE above(c.upper, Maximum(c), Granularity)
       IN \/ /\ call' = [call EXCEPT ![s].lower = lower, ![s].upper = upper]
             /\ UNCHANGED place
          \/ \E mapping \in Granules :
             /\ place[mapping] = Free
             /\ place' = [place EXCEPT ![mapping] = s]
             /\ call' = [call EXCEPT ![s] =
                  [phase |-> "build", address |-> c.address, size |-> c.size,
                   builder |-> c.builder,
                   candidate |-> candidate, mapping |-> mapping,
                   lower |-> lower, upper |-> upper]]
    /\ UNCHANGED <<pages, code, pending, answer>>

(* Mutant: a mapping that was placed elsewhere is forgotten. *)
ForgetMisplaced(c) ==
    IF c.mapping # c.candidate
    THEN UNCHANGED place
    ELSE place' = [place EXCEPT ![c.mapping] = Free]

(* A mapping that does not serve is dropped, which unmaps it. *)
GiveBack(c) == place' = [place EXCEPT ![c.mapping] = Free]

(* How the attempt ends: the next candidate, an error, or "Ok". *)
NewPageResult(c) ==
    IF \/ c.mapping # c.candidate
       \/ ~relative_offset_fits(c.address + NEAR_JUMP_SIZE, c.mapping)
       \/ build(c.builder, c.mapping) = "RelativeJumpOutOfRange"
    THEN "next candidate"
    ELSE build(c.builder, c.mapping)

(***************************************************************************)
(* What was mapped is kept when it is where it was asked for, within reach *)
(* of the hook, and the trampoline can be built in it.  Otherwise it is    *)
(* given back.                                                             *)
(***************************************************************************)
BuildInNewPage(s) ==
    /\ call[s].phase = "build"
    /\ LET c == call[s]
           result == NewPageResult(c)
       IN \/ /\ result = "next candidate"
             /\ GiveBack(c)
             /\ call' = [call EXCEPT ![s] =
                  [phase |-> "next", address |-> c.address, size |-> c.size,
                   builder |-> c.builder,
                   lower |-> c.lower, upper |-> c.upper]]
             /\ UNCHANGED <<pages, code, pending, answer>>
          \/ /\ result \in Errors
             /\ GiveBack(c)
             /\ Fail(s, result)
          \/ /\ result = "Ok"
             /\ pages' = [pages EXCEPT ![s] = Append(@,
                  [base |-> c.mapping, used |-> c.builder.size])]
             /\ PlaceTrampoline(s, c.mapping, c.mapping)
             /\ UNCHANGED place

Exhausted(s) ==
    /\ call[s].phase = "next"
    /\ call[s].lower = None
    /\ call[s].upper = None
    /\ Fail(s, "NoMemoryCave")
    /\ UNCHANGED place

(* Dropping the session unmaps its pages. *)
DropSession(s) ==
    /\ call[s] = Idle
    /\ call' = [call EXCEPT ![s] = [phase |-> "dropped"]]
    /\ pages' = [pages EXCEPT ![s] = <<>>]
    /\ code' = [code EXCEPT ![s] = {}]
    /\ pending' = [pending EXCEPT ![s] = <<>>]
    /\ place' = [g \in Granules |->
          IF g \in {pages[s][i].base : i \in DOMAIN pages[s]}
          THEN Free
          ELSE place[g]]
    /\ UNCHANGED answer
-----------------------------------------------------------------------------
Request(s) ==
    \E address \in Sites, size \in Sizes :
        \/ Overwrite(s, address, size)
        \/ \E n \in CallSizes : PatchCall(s, address, size, n)
        \/ \E b \in Builders : DetourWith(s, address, size, b)

Allocate(s) ==
    \/ TryPage(s) \/ SearchPlaces(s)
    \/ TryCandidate(s) \/ BuildInNewPage(s) \/ Exhausted(s)

(* Every session has been dropped; nothing more is asked of Patchy. *)
Finished ==
    /\ \A s \in Sessions : call[s].phase = "dropped"
    /\ UNCHANGED vars

Next ==
    \/ \E s \in Sessions : Request(s) \/ Allocate(s) \/ DropSession(s)
    \/ Finished

Spec == Init /\ [][Next]_vars

(* A thread inside the allocator runs on. *)
FairSpec == Spec /\ \A s \in Sessions : WF_vars(Allocate(s))
-----------------------------------------------------------------------------
(* Properties.                                                             *)

Bases(s) == {pages[s][i].base : i \in DOMAIN pages[s]}

(***************************************************************************)
(* A trampoline lies inside one page of its session, aligned in it, and no *)
(* later trampoline is copied over a byte of it: the used counter, the     *)
(* rounding and the capacity check (session.rs 119-138, relative_jump.rs   *)
(* 45-49) agree across any sequence of calls, failed ones included.        *)
(***************************************************************************)
TrampolinesDisjoint ==
    \A s \in Sessions : \A c \in code[s] :
        /\ \E b \in Bases(s) :
             /\ b <= c.at
             /\ c.at + c.length <= b + PageSize
             /\ (c.at - b) % TRAMPOLINE_ALIGNMENT = 0
        /\ \A d \in code[s] :
             c # d => ~RangesOverlap(c.at, c.length, d.at, d.length)

(***************************************************************************)
(* A detour is connected at both ends: the near jump over the hook reaches *)
(* a trampoline of the session, and each of the trampoline's exits, with   *)
(* the displacement encoded for it, leads to its target from where the     *)
(* trampoline finally is, whichever page it went into (session.rs 98-231,  *)
(* patch.rs 58-83 and 188-195).                                            *)
(***************************************************************************)
DetoursConnect ==
    \A s \in Sessions : \A i \in DOMAIN pending[s] :
        LET patch == pending[s][i] IN patch.trampoline # None =>
            /\ relative_offset_fits(patch.address + NEAR_JUMP_SIZE,
                                    patch.trampoline)
            /\ \E c \in code[s] :
                 /\ c.at = patch.trampoline
                 /\ \A k \in DOMAIN c.exits :
                      /\ c.displacements[k] \in I32Min .. I32Max
                      /\ c.at + c.exits[k].next + c.displacements[k]
                           = c.exits[k].target

(***************************************************************************)
(* A page is mapped for a session only while the session has it or is      *)
(* trying to build in it: pages the operating system placed elsewhere,     *)
(* pages out of reach of the hook or of an exit and pages whose build      *)
(* fails (session.rs 198-221), and those of a dropped session, are         *)
(* unmapped.                                                               *)
(***************************************************************************)
NoPageLeaks ==
    \A g \in Granules, s \in Sessions :
        place[g] = s <=> \/ g \in Bases(s)
                         \/ call[s].phase = "build" /\ call[s].mapping = g

(***************************************************************************)
(* Preparing is all or nothing: the pages, the trampolines and the patches *)
(* of a session change in the step that returns Ok, together, and not      *)
(* otherwise, so a call that fails leaves the session as it was.  In       *)
(* prepare_detour (patch.rs 188-195) the near jump is encoded after the    *)
(* trampoline has been allocated; it cannot fail any more.                 *)
(***************************************************************************)
PreparesAllOrNothing ==
    [][\A s \in Sessions :
         \/ UNCHANGED <<pages[s], code[s], pending[s]>>
         \/ call'[s].phase = "dropped"
         \/ answer'[s] = "Ok" /\ Len(pending'[s]) = Len(pending[s]) + 1]_vars

(* The places a search has still to try. *)
Remaining(c) ==
    {b \in Granules :
        \/ c.lower # None /\ Minimum(c) <= b /\ b <= c.lower
        \/ c.upper # None /\ c.upper <= b /\ b <= Maximum(c)}

ReachedFrom(c) == Places(c.address + NEAR_JUMP_SIZE, PageSize, Granularity)

(* None of the places left is nearer to the hook than place b. *)
Nearest(b, c) ==
    \A other \in Remaining(c) :
        abs_diff(b, c.address) <= abs_diff(other, c.address)

(* A step from call c to call d, where result has been answered. *)
Ordered(c, d, result) ==
    /\ c.phase = "pages" /\ d.phase = "next" => Remaining(d) = ReachedFrom(c)
    /\ c.phase = "pages" /\ d.phase = "idle" =>
         (result = "NoMemoryCave" => ReachedFrom(c) = {})
    /\ c.phase = "next" /\ d # c =>
         \/ Remaining(c) = {} /\ result = "NoMemoryCave"
         \/ /\ d.phase \in {"next", "build"}
            /\ \E b \in Remaining(c) :
                 /\ Nearest(b, c)
                 /\ Remaining(d) = Remaining(c) \ {b}
                 /\ d.phase = "build" => d.candidate = b
    /\ c.phase = "build" /\ d.phase = "next" => Remaining(d) = Remaining(c)

(***************************************************************************)
(* However the steps of a search are interleaved with those of other       *)
(* sessions, and however often a page is mapped and turns out useless: the *)
(* search starts with every place the hook reaches, each request goes to   *)
(* the nearest place left and to no other, a page that is given back does  *)
(* not start the search again, and NoMemoryCave means that every place was *)
(* tried (session.rs 158-173 and 198-221, relative_jump.rs 73-151).        *)
(***************************************************************************)
SearchesNearestFirst ==
    [][\A s \in Sessions : Ordered(call[s], call'[s], answer'[s])]_vars

(***************************************************************************)
(* A call that looks for a place returns, whichever places the operating   *)
(* system refuses or gives to another session, and however often a page    *)
(* is mapped only to turn out of an exit's reach (session.rs 161-173 and   *)
(* 198-221).                                                               *)
(***************************************************************************)
CallReturns ==
    \A s \in Sessions :
        call[s].phase \in {"pages", "next", "build"} ~> call[s] = Idle
=============================================================================
