-------------------------- MODULE PatchSessionProofs --------------------------
(***************************************************************************)
(* Theorems about preparing patches, for any number of sessions, sites,    *)
(* trampolines and patches, every address width, reach, page size and      *)
(* granularity.                                                            *)
(***************************************************************************)
EXTENDS PatchSession, AddressSpaceProofs

Searching == {"pages", "next", "build"}

(* What a call in the allocator has checked already. *)
CallOK(c) ==
    /\ c.phase \in Searching =>
         /\ c.size # 0
         /\ c.builder.size <= PageSize
         /\ c.address + NEAR_JUMP_SIZE <= UsizeMax
    /\ c.phase \in {"next", "build"} =>
         /\ Minimum(c) # None
         /\ c.lower \in Granules \cup {None}
         /\ c.upper \in Granules \cup {None}

CallInv == \A s \in Sessions : CallOK(call[s])

(* No place is listed twice. *)
PageInv ==
    \A s \in Sessions :
        /\ \A i, j \in DOMAIN pages[s] :
             pages[s][i].base = pages[s][j].base => i = j
        /\ call[s].phase = "build" => call[s].mapping \notin Bases(s)

(* A trampoline lies in the used part of a page. *)
InPage(c, page) ==
    /\ page.base <= c.at
    /\ c.at + c.length <= page.base + page.used
    /\ (c.at - page.base) % TRAMPOLINE_ALIGNMENT = 0

CodeInv ==
    \A s \in Sessions : \A c \in code[s] :
        /\ \E i \in DOMAIN pages[s] : InPage(c, pages[s][i])
        /\ \A d \in code[s] :
             c # d => ~RangesOverlap(c.at, c.length, d.at, d.length)

IInv ==
    /\ TypeOK
    /\ CallInv
    /\ PageInv
    /\ NoPageLeaks
    /\ CodeInv
    /\ DetoursConnect

(* DetoursConnect says this of every patch. *)
Connected(patch, codes) ==
    patch.trampoline # None =>
        /\ relative_offset_fits(patch.address + NEAR_JUMP_SIZE, patch.trampoline)
        /\ \E c \in codes :
             /\ c.at = patch.trampoline
             /\ \A k \in DOMAIN c.exits :
                  /\ c.displacements[k] \in I32Min .. I32Max
                  /\ c.at + c.exits[k].next + c.displacements[k]
                       = c.exits[k].target

LEMMA AllConnected ==
    DetoursConnect <=> \A s \in Sessions : \A i \in DOMAIN pending[s] :
                         Connected(pending[s][i], code[s])
BY DEF DetoursConnect, Connected

LEMMA MoreCode ==
    ASSUME NEW patch, NEW C, NEW D, Connected(patch, C), C \subseteq D
    PROVE  Connected(patch, D)
BY DEF Connected

(* Where patches stay, code is only added and new patches are connected. *)
LEMMA StayConnected ==
    ASSUME DetoursConnect,
           \A s \in Sessions : code[s] \subseteq code'[s],
           \A s \in Sessions : \A i \in DOMAIN pending'[s] :
               \/ i \in DOMAIN pending[s] /\ pending'[s][i] = pending[s][i]
               \/ Connected(pending'[s][i], code'[s])
    PROVE  DetoursConnect'
<1>1. \A s \in Sessions : \A i \in DOMAIN pending[s] :
        Connected(pending[s][i], code'[s])
  BY AllConnected, MoreCode
<1>2. \A s \in Sessions : \A i \in DOMAIN pending'[s] :
        Connected(pending'[s][i], code'[s])
  BY <1>1
<1>. QED  BY <1>2 DEF DetoursConnect, Connected

LEMMA Numbers ==
    /\ UsizeMax \in Nat /\ I32Max \in Nat /\ I32Min \in Int
    /\ NEAR_JUMP_SIZE \in Nat /\ TRAMPOLINE_ALIGNMENT \in Nat \ {0}
    /\ PageSize \in Nat \ {0} /\ Granularity \in Nat \ {0}
    /\ PageSize <= Granularity /\ Granularity <= UsizeMax + 1
    /\ \A a \in Address : a \in Nat /\ a <= UsizeMax
    /\ \A g \in Granules : g \in Address /\ g % Granularity = 0
    /\ None \notin Address
BY UsizeMaxAssumption, RelativeJumpAssumption, SessionAssumption
   DEF Address, Granules, None, I32Min

-----------------------------------------------------------------------------
(* The closures that build trampolines.                                    *)

LEMMA ExitResults ==
    ASSUME NEW exit, NEW address
    PROVE  /\ ExitResult(exit, address) \in
                {"BuildFailed", "AddressOverflow", "RelativeJumpOutOfRange", "Ok"}
           /\ ExitResult(exit, address) = "Ok" =>
                relative_offset_fits(address + exit.next, exit.target)
BY DEF ExitResult

LEMMA BuildResult ==
    ASSUME NEW b \in Builder, NEW address
    PROVE  /\ build(b, address) \in Errors \cup {"Ok"}
           /\ build(b, address) # "NoMemoryCave"
           /\ build(b, address) = "Ok" =>
                /\ b.length = b.size
                /\ \A i \in DOMAIN b.exits :
                     relative_offset_fits(address + b.exits[i].next,
                                          b.exits[i].target)
<1>. DEFINE failing == {i \in DOMAIN b.exits :
                          ExitResult(b.exits[i], address) # "Ok"}
            first == CHOOSE i \in failing : \A j \in failing : i <= j
<1>1. build(b, address) =
        IF b.fails THEN "BuildFailed"
        ELSE IF failing # {} THEN ExitResult(b.exits[first], address)
        ELSE IF b.length # b.size THEN "UnexpectedTrampolineSize"
        ELSE "Ok"
  BY DEF build
<1>2. failing # {} => ExitResult(b.exits[first], address) # "Ok"
  <2>1. failing \subseteq Nat
    <3>1. DOMAIN b.exits \subseteq Nat
      BY DEF Builder
    <3>. QED  BY <3>1
  <2>2. failing # {} => \E m \in failing : \A n \in failing : m <= n
    <3>. HIDE DEF failing
    <3>. QED  BY <2>1, LeastElement
  <2>3. failing # {} => first \in failing
    <3>. HIDE DEF failing
    <3>. QED  BY <2>2
  <2>. QED  BY <2>3
<1>3. failing = {} =>
        \A i \in DOMAIN b.exits :
          relative_offset_fits(address + b.exits[i].next, b.exits[i].target)
  BY ExitResults
<1>4. ExitResult(b.exits[first], address) \in
        {"BuildFailed", "AddressOverflow", "RelativeJumpOutOfRange", "Ok"}
  <2>. HIDE DEF first
  <2>. QED  BY ExitResults
<1>. HIDE DEF failing, first
<1>. QED  BY <1>1, <1>2, <1>3, <1>4 DEF Errors

(* slot_range finds room after what is used, or none. *)
LEMMA SlotFits ==
    ASSUME NEW used \in 0 .. PageSize, NEW size \in Nat,
           NEW slot, slot = slot_range(used, size, PageSize), slot # NoSlot
    PROVE  /\ slot.start \in Nat /\ used <= slot.start
           /\ slot.start % TRAMPOLINE_ALIGNMENT = 0
           /\ slot.end = slot.start + size
           /\ slot.end \in 0 .. PageSize
<1>. DEFINE start == align_up(used, TRAMPOLINE_ALIGNMENT)
            A == TRAMPOLINE_ALIGNMENT
<1>0. used \in Nat /\ A \in Nat \ {0} /\ PageSize \in Nat /\ UsizeMax \in Nat
  BY Numbers
<1>1. /\ start # None /\ checked_add(start, size) # None
      /\ start + size <= PageSize
      /\ slot = [start |-> start, end |-> start + size]
  <2>. HIDE DEF start
  <2>1. slot = IF start = None \/ checked_add(start, size) = None
                  \/ start + size > PageSize
               THEN NoSlot
               ELSE [start |-> start, end |-> start + size]
    BY DEF slot_range, start
  <2>2. ~(start = None \/ checked_add(start, size) = None
            \/ start + size > PageSize)
    BY <2>1
  <2>3. start \in Int
    BY <1>0, Numbers DEF start, align_up, checked_add, None
  <2>. QED  BY <1>0, <2>1, <2>2, <2>3
<1>2. used <= UsizeMax
  <2>1. CASE used % A = 0
    <3>1. start = used
      BY <2>1 DEF align_up
    <3>2. used + size <= UsizeMax
      BY <1>1, <3>1 DEF checked_add
    <3>. QED  BY <1>0, <3>2
  <2>2. CASE used % A # 0
    <3>1. start = checked_add(used, A - (used % A))
      BY <2>2 DEF align_up
    <3>2. used % A \in 0 .. A - 1
      BY <1>0, ModDiv
    <3>. HIDE DEF A
    <3>3. used + (A - (used % A)) <= UsizeMax
      BY <1>1, <3>1 DEF checked_add
    <3>. QED  BY <1>0, <3>2, <3>3
  <2>. QED  BY <2>1, <2>2
<1>3. start \in Nat /\ used <= start /\ start % A = 0
  BY <1>0, <1>1, <1>2, AlignUp
<1>. HIDE DEF start
<1>. QED  BY <1>0, <1>1, <1>3

LEMMA SlotResults ==
    ASSUME NEW c, c.builder \in Builder,
           NEW page \in MutableCodePage, NEW slot, NEW result,
           slot = slot_range(page.used, c.builder.size, PageSize),
           result = SlotResult(c, page, slot)
    PROVE  /\ result \in Errors \cup {"Ok", "next page"}
           /\ result # "NoMemoryCave"
           /\ result = "Ok" =>
                LET at == page.base + slot.start IN
                /\ slot # NoSlot /\ at \in Address
                /\ relative_offset_fits(c.address + NEAR_JUMP_SIZE, at)
                /\ build(c.builder, at) = "Ok"
<1>. DEFINE at == checked_add(page.base, slot.start)
<1>1. result = IF slot = NoSlot THEN "next page"
               ELSE IF at = None THEN "AddressOverflow"
               ELSE IF ~relative_offset_fits(c.address + NEAR_JUMP_SIZE, at)
                       \/ build(c.builder, at) = "RelativeJumpOutOfRange"
               THEN "next page"
               ELSE build(c.builder, at)
  BY DEF SlotResult
<1>2. /\ build(c.builder, at) \in Errors \cup {"Ok"}
      /\ build(c.builder, at) # "NoMemoryCave"
  BY BuildResult
<1>3. slot # NoSlot /\ at # None =>
        at = page.base + slot.start /\ at \in Address
  <2>1. page.used \in 0 .. PageSize /\ page.base \in Granules
    BY DEF MutableCodePage
  <2>2. c.builder.size \in Nat
    BY DEF Builder
  <2>3. slot # NoSlot => slot.start \in Nat
    BY <2>1, <2>2, SlotFits
  <2>4. page.base \in Nat /\ UsizeMax \in Nat
    BY <2>1, Numbers
  <2>5. slot # NoSlot /\ at # None =>
          at = page.base + slot.start /\ page.base + slot.start <= UsizeMax
    BY DEF checked_add
  <2>. HIDE DEF at
  <2>. QED  BY <2>3, <2>4, <2>5 DEF Address
<1>. HIDE DEF at
<1>. QED  BY <1>1, <1>2, <1>3 DEF Errors

-----------------------------------------------------------------------------
(* The candidates are places where a page can be mapped.                   *)

LEMMA FirstCandidates ==
    ASSUME NEW c, c.address \in Address,
           c.address + NEAR_JUMP_SIZE <= UsizeMax,
           search_error(c) = "Ok"
    PROVE  /\ Minimum(c) \in Address /\ Minimum(c) # None
           /\ new_lower(c.address, Minimum(c), Maximum(c), Granularity)
                \in Granules \cup {None}
           /\ new_upper(c.address, Minimum(c), Maximum(c), Granularity)
                \in Granules \cup {None}
<1>. DEFINE G == Granularity
            n == c.address + NEAR_JUMP_SIZE
            lo == Minimum(c)
            hi == Maximum(c)
            r == round_up_hook(c.address, lo, G)
<1>0. /\ c.address \in Nat /\ n \in Nat /\ n <= UsizeMax /\ G \in Nat \ {0}
      /\ UsizeMax \in Nat
  <2>1. c.address \in Nat
    BY Numbers
  <2>. QED  BY <2>1, Numbers
<1>1. lo # None /\ r # None
  BY DEF search_error
<1>2. lo \in Nat /\ lo <= UsizeMax
  <2>. DEFINE least == Greater(n + I32Min, 0)
  <2>1. least \in Nat /\ least <= UsizeMax
    BY <1>0, Numbers DEF Greater, I32Min
  <2>2. lo = align_up(least, G)
    BY DEF Minimum, lowest_base
  <2>. HIDE DEF least, lo
  <2>. QED  BY <1>0, <1>1, <2>1, <2>2, AlignUp
<1>3. hi \in Nat
  <2>. DEFINE most == Lesser(n + I32Max, UsizeMax - Greater(PageSize - 1, 0))
  <2>1. most \in Nat
    BY <1>0, Numbers DEF Lesser, Greater
  <2>2. hi = align_down(most, G)
    BY DEF Maximum, highest_base
  <2>. HIDE DEF most, hi
  <2>. QED  BY <1>0, <2>1, <2>2, AlignDown
<1>. HIDE DEF lo, hi
<1>4. /\ r \in Nat /\ r <= UsizeMax /\ r % G = 0
  <2>. DEFINE y == Greater(c.address, lo)
  <2>1. y \in Nat /\ y <= UsizeMax
    BY <1>0, <1>2, Numbers DEF Greater, Address
  <2>2. r = align_up(y, G)
    BY DEF round_up_hook
  <2>. HIDE DEF y, r
  <2>. QED  BY <1>0, <1>1, <2>1, <2>2, AlignUp
<1>5. new_lower(c.address, lo, hi, G) \in Granules \cup {None}
  <2>. DEFINE x == Lesser(c.address, hi)
              d == align_down(x, G)
  <2>1. x \in Nat /\ x <= c.address
    BY <1>0, <1>3 DEF Lesser
  <2>2. d \in Nat /\ d <= x /\ d % G = 0
    <3>. HIDE DEF x
    <3>. QED  BY <1>0, <2>1, AlignDown
  <2>3. new_lower(c.address, lo, hi, G) \in {d, None}
    BY DEF new_lower, InBounds
  <2>. HIDE DEF x, d
  <2>. QED  BY <1>0, <2>1, <2>2, <2>3 DEF Granules, Address
<1>6. new_upper(c.address, lo, hi, G) \in Granules \cup {None}
  <2>1. /\ InBounds(r, lo, hi) \in {r, None}
        /\ InBounds(checked_add(r, G), lo, hi) \in {checked_add(r, G), None}
    BY DEF InBounds
  <2>2. new_upper(c.address, lo, hi, G) \in {r, checked_add(r, G), None}
    <3>. HIDE DEF r
    <3>1. new_upper(c.address, lo, hi, G) =
            LET upper == InBounds(r, lo, hi)
            IN IF upper # None
                  /\ upper = new_lower(c.address, lo, hi, G)
               THEN InBounds(checked_add(upper, G), lo, hi)
               ELSE upper
      BY DEF new_upper, r
    <3>. QED  BY <2>1, <3>1
  <2>. HIDE DEF r
  <2>3. r \in Granules
    BY <1>0, <1>4 DEF Granules, Address
  <2>4. checked_add(r, G) \in Granules \cup {None}
    <3>1. (r + G) % G = 0
      BY <1>0, <1>4, StepMultiple
    <3>. QED  BY <1>0, <1>4, <3>1 DEF checked_add, Granules, Address
  <2>. QED  BY <2>2, <2>3, <2>4
<1>. QED  BY <1>1, <1>2, <1>5, <1>6 DEF lo, hi, Address

LEMMA NextCandidates ==
    ASSUME NEW b \in Granules, NEW minimum \in Address, NEW maximum
    PROVE  /\ below(b, minimum, Granularity) \in Granules \cup {None}
           /\ above(b, maximum, Granularity) \in Granules \cup {None}
<1>. DEFINE G == Granularity
<1>0. b \in Nat /\ b <= UsizeMax /\ b % G = 0 /\ G \in Nat \ {0}
      /\ minimum \in Nat /\ UsizeMax \in Nat
  BY Numbers DEF Granules, Address
<1>1. (b + G) % G = 0 /\ (G <= b => (b - G) % G = 0)
  BY <1>0, StepMultiple
<1>2. below(b, minimum, G) \in Granules \cup {None}
  BY <1>0, <1>1 DEF below, Granules, Address
<1>3. above(b, maximum, G) \in Granules \cup {None}
  BY <1>0, <1>1 DEF above, checked_add, Granules, Address, None
<1>. QED  BY <1>2, <1>3

LEMMA MinimumIsAddress ==
    ASSUME NEW c, c.address \in Address,
           c.address + NEAR_JUMP_SIZE <= UsizeMax, Minimum(c) # None
    PROVE  Minimum(c) \in Address
<1>. DEFINE least == Greater(c.address + NEAR_JUMP_SIZE + I32Min, 0)
<1>1. least \in Nat /\ least <= UsizeMax
  <2>1. c.address \in Nat
    BY Numbers
  <2>. QED  BY <2>1, Numbers DEF Greater, I32Min
<1>2. Minimum(c) = align_up(least, Granularity)
  BY DEF Minimum, lowest_base
<1>. HIDE DEF least
<1>. QED  BY <1>1, <1>2, Numbers, AlignUp DEF Address

-----------------------------------------------------------------------------
(* The call a thread is in.                                                *)

PagesCall == [phase : {"pages"}, address : Address, size : Nat,
              builder : Builder, cursor : Nat]
NextCall == [phase : {"next"}, address : Address, size : Nat,
             builder : Builder,
             lower : Address \cup {None}, upper : Address \cup {None}]
BuildCall == [phase : {"build"}, address : Address, size : Nat,
              builder : Builder, candidate : Granules, mapping : Granules,
              lower : Address \cup {None}, upper : Address \cup {None}]

LEMMA Calls ==
    /\ Call = {Idle, [phase |-> "dropped"]}
                \cup PagesCall \cup NextCall \cup BuildCall
    /\ Idle.phase = "idle" /\ [phase |-> "dropped"].phase = "dropped"
    /\ \A c \in PagesCall : c.phase = "pages"
    /\ \A c \in NextCall : c.phase = "next"
    /\ \A c \in BuildCall : c.phase = "build"
BY DEF Call, Idle, PagesCall, NextCall, BuildCall

LEMMA CallShape ==
    ASSUME NEW c \in Call
    PROVE  /\ c.phase \in Searching =>
                c.address \in Address /\ c.size \in Nat /\ c.builder \in Builder
           /\ c.phase = "pages" => c \in PagesCall
           /\ c.phase = "next" => c \in NextCall
           /\ c.phase = "build" => c \in BuildCall /\ c.mapping \in Granules
           /\ c.phase \in {"idle", "dropped"} \cup Searching
<1>1. /\ c.phase = "pages" => c \in PagesCall
      /\ c.phase = "next" => c \in NextCall
      /\ c.phase = "build" => c \in BuildCall
      /\ c.phase \in {"idle", "dropped"} \cup Searching
  BY Calls DEF Searching
<1>2. c \in PagesCall \cup NextCall \cup BuildCall =>
        c.address \in Address /\ c.size \in Nat /\ c.builder \in Builder
  BY DEF PagesCall, NextCall, BuildCall
<1>3. c \in BuildCall => c.mapping \in Granules
  BY DEF BuildCall
<1>. QED  BY <1>1, <1>2, <1>3 DEF Searching

LEMMA Advanced ==
    ASSUME NEW c \in PagesCall, NEW d, d = [c EXCEPT !.cursor = @ + 1]
    PROVE  /\ d \in Call /\ d.phase = "pages" /\ d.address = c.address
           /\ d.size = c.size /\ d.builder = c.builder
<1>1. d \in PagesCall
  BY DEF PagesCall
<1>2. d.address = c.address /\ d.size = c.size /\ d.builder = c.builder
  BY DEF PagesCall
<1>. QED  BY <1>1, <1>2, Calls

LEMMA IdleOK ==
    /\ Idle \in Call /\ CallOK(Idle) /\ Idle.phase = "idle"
    /\ LET c == [phase |-> "dropped"] IN
       c \in Call /\ CallOK(c) /\ c.phase = "dropped"
<1>1. Idle.phase = "idle"
  BY DEF Idle
<1>2. CallOK(Idle) /\ CallOK([phase |-> "dropped"])
  BY <1>1 DEF CallOK, Searching
<1>3. Idle \in Call /\ [phase |-> "dropped"] \in Call
  BY Zenon DEF Call
<1>. QED  BY <1>1, <1>2, <1>3

(* A thread goes on outside the new page: nothing else changes. *)
LEMMA Moves ==
    ASSUME IInv, NEW s \in Sessions, NEW c \in Call, CallOK(c),
           c.phase # "build", call[s].phase # "build",
           call' = [call EXCEPT ![s] = c],
           answer' \in [Sessions -> Errors \cup {"none", "Ok"}],
           UNCHANGED <<pages, code, pending, place>>
    PROVE  IInv'
<1>1. /\ call' \in [Sessions -> Call] /\ call'[s] = c
      /\ \A t \in Sessions : t # s => call'[t] = call[t]
  BY DEF IInv, TypeOK
<1>2. TypeOK'
  BY <1>1 DEF IInv, TypeOK
<1>3. CallInv'
  BY <1>1 DEF IInv, CallInv, CallOK, Minimum
<1>4. PageInv' /\ NoPageLeaks'
  <2>1. \A t \in Sessions : Bases(t)' = Bases(t)
    BY DEF Bases
  <2>. QED  BY <1>1, <2>1 DEF IInv, PageInv, NoPageLeaks
<1>5. CodeInv' /\ DetoursConnect'
  BY DEF IInv, CodeInv, InPage, DetoursConnect
<1>. QED  BY <1>2, <1>3, <1>4, <1>5 DEF IInv

(* The new page turned out useless and is given back. *)
LEMMA GivesBack ==
    ASSUME IInv, NEW s \in Sessions, NEW c \in Call, CallOK(c),
           c.phase # "build", call[s].phase = "build",
           call' = [call EXCEPT ![s] = c],
           answer' \in [Sessions -> Errors \cup {"none", "Ok"}],
           GiveBack(call[s]),
           UNCHANGED <<pages, code, pending>>
    PROVE  IInv'
<1>. DEFINE g == call[s].mapping
<1>1. /\ call' \in [Sessions -> Call] /\ call'[s] = c
      /\ \A t \in Sessions : t # s => call'[t] = call[t]
  BY DEF IInv, TypeOK
<1>2. g \in Granules /\ Free \notin Sessions
  BY CallShape, SessionAssumption DEF IInv, TypeOK
<1>3. /\ place' \in [Granules -> Sessions \cup {Free}]
      /\ place'[g] = Free
      /\ \A h \in Granules : h # g => place'[h] = place[h]
  BY <1>2 DEF GiveBack, IInv, TypeOK
<1>4. place[g] = s /\ g \notin Bases(s)
  BY <1>2 DEF IInv, NoPageLeaks, PageInv
<1>5. TypeOK'
  BY <1>1, <1>3 DEF IInv, TypeOK
<1>6. CallInv'
  BY <1>1 DEF IInv, CallInv, CallOK, Minimum
<1>7. \A t \in Sessions : Bases(t)' = Bases(t)
  BY DEF Bases
<1>8. PageInv'
  BY <1>1, <1>7 DEF IInv, PageInv
<1>9. NoPageLeaks'
  <2>. SUFFICES ASSUME NEW h \in Granules, NEW t \in Sessions
       PROVE  place'[h] = t <=>
                \/ h \in Bases(t)
                \/ call'[t].phase = "build" /\ call'[t].mapping = h
    BY <1>7 DEF NoPageLeaks
  <2>1. place[h] = t <=>
          \/ h \in Bases(t)
          \/ call[t].phase = "build" /\ call[t].mapping = h
    BY DEF IInv, NoPageLeaks
  <2>2. CASE h = g
    <3>1. t # s => h \notin Bases(t)
                   /\ ~(call[t].phase = "build" /\ call[t].mapping = h)
      BY <1>4, <2>1, <2>2
    <3>. QED  BY <1>1, <1>2, <1>3, <1>4, <2>2, <3>1
  <2>3. CASE h # g
    BY <1>1, <1>3, <2>1, <2>3
  <2>. QED  BY <2>2, <2>3
<1>10. CodeInv' /\ DetoursConnect'
  BY DEF IInv, CodeInv, InPage, DetoursConnect
<1>. QED  BY <1>5, <1>6, <1>8, <1>9, <1>10 DEF IInv

-----------------------------------------------------------------------------
(* Requests.                                                               *)

LEMMA Fails ==
    ASSUME IInv, NEW s \in Sessions, NEW error \in Errors,
           Fail(s, error), UNCHANGED place, call[s].phase # "build"
    PROVE  IInv'
<1>1. answer' \in [Sessions -> Errors \cup {"none", "Ok"}]
  BY DEF Fail, Answer, IInv, TypeOK
<1>2. call' = [call EXCEPT ![s] = Idle]
  BY DEF Fail, Answer
<1>. QED  BY <1>1, <1>2, IdleOK, Moves DEF Fail

LEMMA CheckedOverlap ==
    ASSUME NEW s, NEW address, NEW size
    PROVE  LET checked == ensure_patch_does_not_overlap(s, address, size) IN
           /\ checked \in Errors \cup {"Ok"}
           /\ checked = "Ok" => size # 0
BY DEF ensure_patch_does_not_overlap, Errors

(* A patch is added to those prepared. *)
LEMMA Pushed ==
    ASSUME IInv, NEW s \in Sessions, NEW address \in Address,
           NEW size \in Nat, size # 0,
           NEW trampoline \in Address \cup {None},
           Push(s, address, size, trampoline)
    PROVE  /\ pending' \in [Sessions -> Seq(PendingPatch)]
           /\ Len(pending'[s]) = Len(pending[s]) + 1
           /\ \A t \in Sessions : t # s => pending'[t] = pending[t]
           /\ \A i \in DOMAIN pending'[s] :
                \/ i \in DOMAIN pending[s] /\ pending'[s][i] = pending[s][i]
                \/ /\ pending'[s][i].address = address
                   /\ pending'[s][i].trampoline = trampoline
<1>. DEFINE patch == [address |-> address, size |-> size,
                      trampoline |-> trampoline]
<1>1. patch \in PendingPatch
  BY DEF PendingPatch
<1>2. patch.address = address /\ patch.trampoline = trampoline
  OBVIOUS
<1>3. pending' = [pending EXCEPT ![s] = Append(@, patch)]
  BY DEF Push
<1>4. pending \in [Sessions -> Seq(PendingPatch)]
  BY DEF IInv, TypeOK
<1>. HIDE DEF patch
<1>5. pending'[s] = Append(pending[s], patch) /\ pending[s] \in Seq(PendingPatch)
  BY <1>3, <1>4
<1>. QED  BY <1>1, <1>2, <1>3, <1>4, <1>5

LEMMA OverwriteIInv ==
    ASSUME IInv, NEW s \in Sessions, NEW address \in Sites, NEW size \in Sizes,
           Overwrite(s, address, size)
    PROVE  IInv'
<1>. DEFINE checked == ensure_patch_does_not_overlap(s, address, size)
<1>1. address \in Address /\ size \in Nat
  BY SessionAssumption
<1>2. call[s].phase # "build"
  BY IdleOK DEF Overwrite
<1>3. CASE checked # "Ok" /\ Fail(s, checked)
  <2>1. checked \in Errors
    BY <1>3, CheckedOverlap
  <2>. HIDE DEF checked
  <2>. QED  BY <1>2, <1>3, <2>1, Fails DEF Overwrite
<1>4. CASE /\ checked = "Ok" /\ Push(s, address, size, None)
           /\ Answer(s, "Ok") /\ UNCHANGED <<pages, code>>
  <2>1. size # 0
    BY <1>4, CheckedOverlap
  <2>2. /\ pending' \in [Sessions -> Seq(PendingPatch)]
        /\ \A t \in Sessions : t # s => pending'[t] = pending[t]
        /\ \A i \in DOMAIN pending'[s] :
             \/ i \in DOMAIN pending[s] /\ pending'[s][i] = pending[s][i]
             \/ pending'[s][i].trampoline = None
    BY <1>1, <1>4, <2>1, Pushed
  <2>3. /\ call' \in [Sessions -> Call] /\ call'[s] = Idle
        /\ \A t \in Sessions : t # s => call'[t] = call[t]
    BY <1>4, IdleOK DEF Answer, IInv, TypeOK
  <2>4. place' = place /\ pages' = pages /\ code' = code
    BY <1>4 DEF Overwrite
  <2>5. TypeOK'
    BY <1>4, <2>2, <2>3, <2>4 DEF Answer, IInv, TypeOK
  <2>6. CallInv'
    BY <2>3, IdleOK DEF IInv, CallInv, CallOK, Minimum
  <2>7. PageInv' /\ NoPageLeaks'
    <3>1. \A t \in Sessions : Bases(t)' = Bases(t)
      BY <2>4 DEF Bases
    <3>. QED  BY <1>2, <2>3, <2>4, <3>1, IdleOK DEF IInv, PageInv, NoPageLeaks
  <2>8. CodeInv'
    BY <2>4 DEF IInv, CodeInv, InPage
  <2>9. DetoursConnect'
    <3>1. \A i \in DOMAIN pending'[s] :
            \/ i \in DOMAIN pending[s] /\ pending'[s][i] = pending[s][i]
            \/ Connected(pending'[s][i], code'[s])
      BY <2>2 DEF Connected
    <3>. QED  BY <2>2, <2>4, <3>1, StayConnected DEF IInv
  <2>. QED  BY <2>5, <2>6, <2>7, <2>8, <2>9 DEF IInv
<1>. QED  BY <1>3, <1>4 DEF Overwrite

LEMMA PrepareIInv ==
    ASSUME IInv, NEW s \in Sessions, NEW address \in Address,
           NEW size \in Nat, NEW builder \in Builder,
           prepare_detour(s, address, size, builder),
           UNCHANGED place, call[s] = Idle
    PROVE  IInv'
<1>. DEFINE error == detour_error(s, address, size, builder)
            c == [phase |-> "pages", address |-> address, size |-> size,
                  builder |-> builder, cursor |-> 1]
<1>1. call[s].phase # "build"
  BY IdleOK
<1>2. /\ error \in Errors \cup {"Ok"}
      /\ error = "Ok" => /\ size # 0 /\ builder.size <= PageSize
                         /\ address + NEAR_JUMP_SIZE <= UsizeMax
  <2>1. builder.size \in Nat /\ PageSize \in Nat /\ UsizeMax \in Nat
        /\ address \in Nat /\ NEAR_JUMP_SIZE \in Nat
    BY Numbers DEF Builder
  <2>2. error \in Errors \cup {"Ok"}
    BY CheckedOverlap DEF detour_error, Errors
  <2>3. error = "Ok" => size # 0
    BY CheckedOverlap DEF detour_error
  <2>4. error = "Ok" => ~(builder.size > PageSize)
    BY DEF detour_error
  <2>5. error = "Ok" => checked_add(address, NEAR_JUMP_SIZE) # None
    BY DEF detour_error
  <2>. HIDE DEF error
  <2>. QED  BY <2>1, <2>2, <2>3, <2>4, <2>5 DEF checked_add
<1>3. CASE error # "Ok" /\ Fail(s, error)
  <2>. HIDE DEF error
  <2>. QED  BY <1>1, <1>2, <1>3, Fails
<1>4. CASE /\ error = "Ok" /\ call' = [call EXCEPT ![s] = c]
           /\ UNCHANGED <<pages, code, pending, answer>>
  <2>1. c \in Call
    BY DEF Call
  <2>2. c.phase = "pages" /\ CallOK(c)
    BY <1>2, <1>4 DEF CallOK
  <2>3. answer' \in [Sessions -> Errors \cup {"none", "Ok"}]
    BY <1>4 DEF IInv, TypeOK
  <2>. HIDE DEF c
  <2>. QED  BY <1>1, <1>4, <2>1, <2>2, <2>3, Moves
<1>. QED  BY <1>3, <1>4 DEF prepare_detour

LEMMA PatchCallIInv ==
    ASSUME IInv, NEW s \in Sessions, NEW address \in Sites, NEW size \in Sizes,
           NEW n \in CallSizes, PatchCall(s, address, size, n)
    PROVE  IInv'
<1>1. address \in Address /\ size \in Nat /\ n \in Nat
  BY SessionAssumption
<1>2. call[s] = Idle /\ call[s].phase # "build" /\ place' = place
  BY IdleOK DEF PatchCall
<1>3. "PatchTooSmall" \in Errors /\ "AddressOverflow" \in Errors
  BY DEF Errors
<1>4. CASE checked_add(address, size) # None
  <2>1. address + size \in Address
    BY <1>1, <1>4, Numbers DEF checked_add, Address
  <2>2. PatchCallBuilder(address, size, n) \in Builder
    <3>1. [next |-> n, target |-> address + size] \in Exit
      BY <1>1, <2>1 DEF Exit
    <3>. QED  BY <1>1, <3>1 DEF PatchCallBuilder, Builder
  <2>. QED  BY <1>1, <1>2, <1>3, <1>4, <2>2, Fails, PrepareIInv DEF PatchCall
<1>5. CASE checked_add(address, size) = None
  BY <1>2, <1>3, <1>5, Fails DEF PatchCall
<1>. QED  BY <1>4, <1>5

LEMMA DetourWithIInv ==
    ASSUME IInv, NEW s \in Sessions, NEW address \in Sites, NEW size \in Sizes,
           NEW b \in Builders, DetourWith(s, address, size, b)
    PROVE  IInv'
<1>1. address \in Address /\ size \in Nat /\ b \in Builder
  BY SessionAssumption
<1>2. call[s] = Idle /\ call[s].phase # "build" /\ place' = place
  BY IdleOK DEF DetourWith
<1>3. "PatchTooSmall" \in Errors /\ "EmptyTrampoline" \in Errors
  BY DEF Errors
<1>. QED  BY <1>1, <1>2, <1>3, Fails, PrepareIInv DEF DetourWith

-----------------------------------------------------------------------------
(* A trampoline that was built is copied and its hook connected.           *)

LEMMA Placed ==
    ASSUME IInv, NEW s \in Sessions, NEW at \in Address,
           call[s].phase \in Searching,
           relative_offset_fits(call[s].address + NEAR_JUMP_SIZE, at),
           build(call[s].builder, at) = "Ok",
           PlaceTrampoline(s, at, at)
    PROVE  /\ \E e \in Code :
                /\ e.at = at /\ e.length = call[s].builder.size
                /\ code' = [code EXCEPT ![s] = @ \cup {e}]
           /\ call' \in [Sessions -> Call] /\ call'[s] = Idle
           /\ \A t \in Sessions : t # s => call'[t] = call[t]
           /\ answer' \in [Sessions -> Errors \cup {"none", "Ok"}]
           /\ answer'[s] = "Ok"
           /\ pending' \in [Sessions -> Seq(PendingPatch)]
           /\ Len(pending'[s]) = Len(pending[s]) + 1
           /\ \A t \in Sessions : t # s =>
                pending'[t] = pending[t] /\ answer'[t] = answer[t]
           /\ DetoursConnect'
<1>. DEFINE c == call[s]
            b == c.builder
            e == [at |-> at, length |-> b.length, exits |-> b.exits,
                  displacements |-> [i \in DOMAIN b.exits |->
                      b.exits[i].target - (at + b.exits[i].next)]]
<1>1. /\ c.address \in Address /\ c.size \in Nat /\ b \in Builder /\ c.size # 0
  BY CallShape DEF IInv, TypeOK, CallInv, CallOK
<1>2. /\ code' = [code EXCEPT ![s] = @ \cup {e}]
      /\ Push(s, c.address, c.size, at)
      /\ Answer(s, "Ok")
  BY DEF PlaceTrampoline
<1>3. /\ b.length = b.size /\ b.length \in Nat /\ b.exits \in Seq(Exit)
      /\ \A i \in DOMAIN b.exits :
           relative_offset_fits(at + b.exits[i].next, b.exits[i].target)
  BY <1>1, BuildResult DEF Builder
<1>. HIDE DEF b, c
<1>4. \A i \in DOMAIN b.exits :
        /\ b.exits[i].next \in Int /\ b.exits[i].target \in Int
  <2>1. \A i \in DOMAIN b.exits : b.exits[i] \in Exit
    BY <1>3
  <2>2. \A x \in Exit : x.next \in Int /\ x.target \in Int
    BY Numbers DEF Exit, None
  <2>. QED  BY <2>1, <2>2
<1>5. at \in Int
  BY Numbers
<1>6. e \in Code
  <2>1. [i \in DOMAIN b.exits |-> b.exits[i].target - (at + b.exits[i].next)]
          \in Seq(Int)
    <3>1. b.exits \in Seq(Exit)
      BY <1>3
    <3>. DEFINE n == Len(b.exits)
    <3>2. n \in Nat /\ DOMAIN b.exits = 1 .. n
      BY <3>1
    <3>3. \A i \in 1 .. n : b.exits[i].target - (at + b.exits[i].next) \in Int
      BY <1>4, <1>5, <3>2
    <3>. HIDE DEF n
    <3>. QED  BY <3>2, <3>3
  <2>. QED  BY <1>3, <2>1 DEF Code
<1>7. /\ e.at = at /\ e.length = b.size /\ e.exits = b.exits
      /\ \A k \in DOMAIN b.exits :
           e.displacements[k] = b.exits[k].target - (at + b.exits[k].next)
  BY <1>3
<1>. HIDE DEF e
<1>8. /\ code' \in [Sessions -> SUBSET Code]
      /\ code'[s] = code[s] \cup {e}
      /\ \A t \in Sessions : code[t] \subseteq code'[t]
  BY <1>2, <1>6 DEF IInv, TypeOK
<1>9. /\ pending' \in [Sessions -> Seq(PendingPatch)]
      /\ Len(pending'[s]) = Len(pending[s]) + 1
      /\ \A t \in Sessions : t # s => pending'[t] = pending[t]
      /\ \A i \in DOMAIN pending'[s] :
           \/ i \in DOMAIN pending[s] /\ pending'[s][i] = pending[s][i]
           \/ /\ pending'[s][i].address = c.address
              /\ pending'[s][i].trampoline = at
  BY <1>1, <1>2, Pushed
<1>10. /\ call' \in [Sessions -> Call] /\ call'[s] = Idle
       /\ \A t \in Sessions : t # s => call'[t] = call[t]
       /\ answer' \in [Sessions -> Errors \cup {"none", "Ok"}]
       /\ answer'[s] = "Ok"
       /\ \A t \in Sessions : t # s => answer'[t] = answer[t]
  BY <1>2, IdleOK DEF Answer, IInv, TypeOK
<1>11. ASSUME NEW patch, patch.address = c.address, patch.trampoline = at
       PROVE  Connected(patch, code'[s])
  <2>1. relative_offset_fits(patch.address + NEAR_JUMP_SIZE, patch.trampoline)
    BY <1>11 DEF c
  <2>2. ASSUME NEW k \in DOMAIN e.exits
        PROVE  /\ e.displacements[k] \in I32Min .. I32Max
               /\ e.at + e.exits[k].next + e.displacements[k] = e.exits[k].target
    <3>1. relative_offset_fits(at + e.exits[k].next, e.exits[k].target)
      BY <1>3, <1>7
    <3>2. e.displacements[k] = e.exits[k].target - (at + e.exits[k].next)
      BY <1>7
    <3>3. e.exits[k].next \in Int /\ e.exits[k].target \in Int
      BY <1>4, <1>7
    <3>. QED  BY <1>5, <1>7, <3>1, <3>2, <3>3 DEF relative_offset_fits
  <2>3. e \in code'[s] /\ e.at = patch.trampoline
    BY <1>7, <1>8, <1>11
  <2>. QED  BY <2>1, <2>2, <2>3 DEF Connected
<1>12. DetoursConnect'
  <2>1. \A i \in DOMAIN pending'[s] :
          \/ i \in DOMAIN pending[s] /\ pending'[s][i] = pending[s][i]
          \/ Connected(pending'[s][i], code'[s])
    BY <1>9, <1>11
  <2>. QED  BY <1>8, <1>9, <2>1, StayConnected DEF IInv
<1>. QED  BY <1>2, <1>6, <1>7, <1>9, <1>10, <1>12 DEF b, c

LEMMA PageShape ==
    ASSUME IInv, NEW s \in Sessions
    PROVE  /\ pages[s] \in Seq(MutableCodePage)
           /\ \A i \in DOMAIN pages[s] :
                /\ pages[s][i] \in MutableCodePage
                /\ pages[s][i].base \in Granules
                /\ pages[s][i].used \in Nat /\ pages[s][i].used <= PageSize
<1>1. pages \in [Sessions -> Seq(MutableCodePage)]
  BY DEF IInv, TypeOK
<1>2. pages[s] \in Seq(MutableCodePage)
  BY <1>1
<1>3. \A i \in DOMAIN pages[s] : pages[s][i] \in MutableCodePage
  BY <1>2
<1>4. \A p \in MutableCodePage :
        p.base \in Granules /\ p.used \in Nat /\ p.used <= PageSize
  BY Numbers DEF MutableCodePage
<1>. QED  BY <1>2, <1>3, <1>4

(* Trampolines in different pages share no byte. *)
LEMMA PagesApart ==
    ASSUME NEW p \in MutableCodePage, NEW q \in MutableCodePage,
           p.base # q.base, NEW c \in Code, NEW d \in Code,
           InPage(c, p), InPage(d, q)
    PROVE  ~RangesOverlap(c.at, c.length, d.at, d.length)
<1>1. /\ p.base \in Granules /\ p.used \in 0 .. PageSize
      /\ q.base \in Granules /\ q.used \in 0 .. PageSize
  BY DEF MutableCodePage
<1>2. /\ p.base \in Nat /\ p.base % Granularity = 0
      /\ q.base \in Nat /\ q.base % Granularity = 0
      /\ p.used \in Nat /\ p.used <= PageSize
      /\ q.used \in Nat /\ q.used <= PageSize
  BY <1>1, Numbers
<1>3. c.at \in Nat /\ c.length \in Nat /\ d.at \in Nat /\ d.length \in Nat
  BY Numbers DEF Code
<1>4. p.base < q.base => p.base + Granularity <= q.base
  BY <1>2, Numbers, NextMultiple
<1>5. q.base < p.base => q.base + Granularity <= p.base
  BY <1>2, Numbers, NextMultiple
<1>. QED  BY <1>2, <1>3, <1>4, <1>5, Numbers DEF InPage, RangesOverlap

(* A trampoline is added where no other lies. *)
LEMMA CodeAdded ==
    ASSUME IInv, NEW s \in Sessions, NEW e \in Code,
           code' = [code EXCEPT ![s] = @ \cup {e}],
           \A t \in Sessions : t # s => pages'[t] = pages[t],
           \A i \in DOMAIN pages[s] :
               /\ i \in DOMAIN pages'[s]
               /\ pages'[s][i].base = pages[s][i].base
               /\ pages'[s][i].used \in Nat
               /\ pages[s][i].used <= pages'[s][i].used,
           \E i \in DOMAIN pages'[s] : InPage(e, pages'[s][i]),
           \A d \in code[s] : ~RangesOverlap(e.at, e.length, d.at, d.length)
    PROVE  CodeInv'
<1>1. /\ code \in [Sessions -> SUBSET Code]
      /\ code'[s] = code[s] \cup {e}
      /\ \A t \in Sessions : t # s => code'[t] = code[t]
  BY DEF IInv, TypeOK
<1>2. ASSUME NEW c \in code[s]
      PROVE  \E i \in DOMAIN pages'[s] : InPage(c, pages'[s][i])
  <2>1. PICK i \in DOMAIN pages[s] : InPage(c, pages[s][i])
    BY DEF IInv, CodeInv
  <2>2. pages[s][i] \in MutableCodePage /\ c \in Code
    BY <1>1 DEF IInv, TypeOK
  <2>3. pages[s][i].used \in Nat /\ pages[s][i].base \in Nat
        /\ c.at \in Nat /\ c.length \in Nat
    <3>1. pages[s][i].used \in 0 .. PageSize /\ pages[s][i].base \in Granules
      BY <2>2 DEF MutableCodePage
    <3>. QED  BY <2>2, <3>1, Numbers DEF Code
  <2>4. InPage(c, pages'[s][i])
    BY <2>1, <2>3 DEF InPage
  <2>. QED  BY <2>4
<1>3. ASSUME NEW c \in code'[s], NEW d \in code'[s], c # d
      PROVE  ~RangesOverlap(c.at, c.length, d.at, d.length)
  <2>1. CASE c = e
    BY <1>1, <1>3, <2>1
  <2>2. CASE d = e
    BY <1>1, <1>3, <2>2 DEF RangesOverlap
  <2>3. CASE c \in code[s] /\ d \in code[s]
    BY <1>3, <2>3 DEF IInv, CodeInv
  <2>. QED  BY <1>1, <2>1, <2>2, <2>3
<1>4. ASSUME NEW t \in Sessions, NEW c \in code'[t]
      PROVE  /\ \E i \in DOMAIN pages'[t] : InPage(c, pages'[t][i])
             /\ \A d \in code'[t] :
                  c # d => ~RangesOverlap(c.at, c.length, d.at, d.length)
  <2>1. CASE t = s
    BY <1>1, <1>2, <1>3, <2>1
  <2>2. CASE t # s
    BY <1>1, <2>2 DEF IInv, CodeInv
  <2>. QED  BY <2>1, <2>2
<1>. QED  BY <1>4 DEF CodeInv, InPage

LEMMA TryPageIInv ==
    ASSUME IInv, NEW s \in Sessions, TryPage(s)
    PROVE  IInv'
<1>. DEFINE c == call[s]
            k == c.cursor
            page == pages[s][k]
            slot == slot_range(page.used, c.builder.size, PageSize)
            result == SlotResult(c, page, slot)
            at == page.base + slot.start
<1>1. /\ c.phase = "pages" /\ k \in DOMAIN pages[s] /\ place' = place
      /\ \/ result = "next page" /\ NextPage(s)
         \/ result \in Errors /\ Fail(s, result)
         \/ /\ result = "Ok"
            /\ pages' = [pages EXCEPT ![s][k].used = slot.end]
            /\ PlaceTrampoline(s, at, at)
  BY DEF TryPage
<1>2. c \in Call /\ CallOK(c) /\ c.builder \in Builder /\ c.address \in Address
  BY <1>1, CallShape DEF IInv, TypeOK, CallInv, Searching
<1>3. page \in MutableCodePage
  BY <1>1, PageShape
<1>. HIDE DEF page
<1>4. CASE result \in Errors /\ Fail(s, result)
  <2>. HIDE DEF result
  <2>. QED  BY <1>1, <1>4, Fails
<1>5. CASE result = "next page" /\ NextPage(s)
  <2>. DEFINE d == [c EXCEPT !.cursor = @ + 1]
  <2>1. call' = [call EXCEPT ![s] = d]
    BY <1>5 DEF NextPage
  <2>3. /\ d \in Call /\ d.phase = "pages" /\ d.address = c.address
        /\ d.size = c.size /\ d.builder = c.builder
    <3>1. c \in PagesCall
      BY <1>1, <1>2, CallShape
    <3>. QED  BY <3>1, Advanced
  <2>5. CallOK(d)
    <3>. HIDE DEF d, c
    <3>. QED  BY <1>1, <1>2, <2>3 DEF CallOK, Searching
  <2>6. answer' \in [Sessions -> Errors \cup {"none", "Ok"}]
    BY <1>5 DEF NextPage, IInv, TypeOK
  <2>. HIDE DEF d
  <2>. QED  BY <1>1, <1>5, <2>1, <2>3, <2>5, <2>6, Moves DEF NextPage
<1>6. CASE /\ result = "Ok"
           /\ pages' = [pages EXCEPT ![s][k].used = slot.end]
           /\ PlaceTrampoline(s, at, at)
  <2>1. /\ slot # NoSlot /\ at \in Address
        /\ relative_offset_fits(c.address + NEAR_JUMP_SIZE, at)
        /\ build(c.builder, at) = "Ok"
    <3>. HIDE DEF c, slot
    <3>. QED  BY <1>2, <1>3, <1>6, SlotResults DEF slot
  <2>2. page.used \in 0 .. PageSize /\ page.base \in Granules
    BY <1>3 DEF MutableCodePage
  <2>3. /\ slot.start \in Nat /\ page.used <= slot.start
        /\ slot.start % TRAMPOLINE_ALIGNMENT = 0
        /\ slot.end = slot.start + c.builder.size
        /\ slot.end \in 0 .. PageSize
    <3>1. c.builder.size \in Nat
      BY <1>2 DEF Builder
    <3>. HIDE DEF slot, c
    <3>. QED  BY <2>1, <2>2, <3>1, SlotFits DEF slot
  <2>. HIDE DEF slot
  <2>13. c.phase \in Searching
    BY <1>1 DEF Searching
  <2>4. PICK e \in Code :
          /\ e.at = at /\ e.length = c.builder.size
          /\ code' = [code EXCEPT ![s] = @ \cup {e}]
    <3>. HIDE DEF at, result
    <3>. QED  BY <1>6, <2>1, <2>13, Placed
  <2>5. /\ call' \in [Sessions -> Call] /\ call'[s] = Idle
        /\ \A t \in Sessions : t # s => call'[t] = call[t]
        /\ answer' \in [Sessions -> Errors \cup {"none", "Ok"}]
        /\ pending' \in [Sessions -> Seq(PendingPatch)]
        /\ DetoursConnect'
    <3>. HIDE DEF at, result
    <3>. QED  BY <1>6, <2>1, <2>13, Placed
  <2>6. /\ page.used \in Nat /\ page.base \in Nat /\ c.builder.size \in Nat
    BY <1>2, <2>2, Numbers DEF Builder
  <2>7. /\ pages' \in [Sessions -> Seq(MutableCodePage)]
        /\ DOMAIN pages'[s] = DOMAIN pages[s]
        /\ pages'[s][k].base = page.base /\ pages'[s][k].used = slot.end
        /\ \A i \in DOMAIN pages[s] : i # k => pages'[s][i] = pages[s][i]
        /\ \A t \in Sessions : t # s => pages'[t] = pages[t]
    <3>. DEFINE new == [page EXCEPT !.used = slot.end]
    <3>1. new \in MutableCodePage /\ new.base = page.base /\ new.used = slot.end
      BY <1>3, <2>3 DEF MutableCodePage
    <3>2. pages' = [pages EXCEPT ![s] = [pages[s] EXCEPT ![k] = new]]
      BY <1>6 DEF page
    <3>3. pages \in [Sessions -> Seq(MutableCodePage)]
      BY DEF IInv, TypeOK
    <3>4. pages[s] \in Seq(MutableCodePage) /\ k \in DOMAIN pages[s]
      BY <1>1, <3>3
    <3>. DEFINE list == [pages[s] EXCEPT ![k] = new]
    <3>. HIDE DEF new, k
    <3>5. /\ list \in Seq(MutableCodePage) /\ DOMAIN list = DOMAIN pages[s]
          /\ list[k] = new
          /\ \A i \in DOMAIN pages[s] : i # k => list[i] = pages[s][i]
      BY <3>1, <3>4
    <3>6. pages' = [pages EXCEPT ![s] = list]
      BY <3>2
    <3>. HIDE DEF list
    <3>. QED  BY <3>1, <3>3, <3>5, <3>6
  <2>8. TypeOK'
    <3>1. code' \in [Sessions -> SUBSET Code]
      BY <2>4 DEF IInv, TypeOK
    <3>. QED  BY <1>1, <2>5, <2>7, <3>1 DEF IInv, TypeOK
  <2>9. CallInv'
    BY <2>5, IdleOK DEF IInv, CallInv, CallOK, Minimum
  <2>10. \A t \in Sessions : Bases(t)' = Bases(t)
    <3>1. \A i \in DOMAIN pages[s] : pages'[s][i].base = pages[s][i].base
      BY <2>7 DEF page
    <3>2. Bases(s)' = Bases(s)
      BY <2>7, <3>1 DEF Bases
    <3>3. \A t \in Sessions : t # s => Bases(t)' = Bases(t)
      <4>1. \A t \in Sessions : pages'[t] = pages[t] => Bases(t)' = Bases(t)
        BY DEF Bases
      <4>. QED  BY <2>7, <4>1
    <3>. QED  BY <3>2, <3>3
  <2>11. PageInv' /\ NoPageLeaks'
    <3>1. \A i \in DOMAIN pages[s] : pages'[s][i].base = pages[s][i].base
      BY <2>7 DEF page
    <3>2. ASSUME NEW t \in Sessions
          PROVE  /\ \A i, j \in DOMAIN pages'[t] :
                      pages'[t][i].base = pages'[t][j].base => i = j
                 /\ call'[t].phase = "build" =>
                      call'[t].mapping \notin Bases(t)
      <4>1. /\ \A i, j \in DOMAIN pages[t] :
                 pages[t][i].base = pages[t][j].base => i = j
            /\ call[t].phase = "build" => call[t].mapping \notin Bases(t)
        BY DEF IInv, PageInv
      <4>2. CASE t = s
        BY <2>5, <2>7, <3>1, <4>1, <4>2, IdleOK
      <4>3. CASE t # s
        BY <2>5, <2>7, <4>1, <4>3
      <4>. QED  BY <4>2, <4>3
    <3>3. PageInv'
      BY <2>10, <3>2 DEF PageInv
    <3>4. \A t \in Sessions :
            call'[t].phase = "build" <=> call[t].phase = "build"
      BY <1>1, <2>5, IdleOK
    <3>5. \A t \in Sessions : call'[t].phase = "build" => call'[t] = call[t]
      BY <2>5, IdleOK
    <3>6. NoPageLeaks'
      <4>. SUFFICES ASSUME NEW g \in Granules, NEW t \in Sessions
           PROVE  place'[g] = t <=>
                    \/ g \in Bases(t)
                    \/ call'[t].phase = "build" /\ call'[t].mapping = g
        BY <2>10 DEF NoPageLeaks
      <4>1. place[g] = t <=>
              \/ g \in Bases(t)
              \/ call[t].phase = "build" /\ call[t].mapping = g
        BY DEF IInv, NoPageLeaks
      <4>. QED  BY <1>1, <3>4, <3>5, <4>1
    <3>. QED  BY <3>3, <3>6
  <2>12. CodeInv'
    <3>1. InPage(e, pages'[s][k])
      BY <2>3, <2>4, <2>6, <2>7 DEF InPage
    <3>2. ASSUME NEW d \in code[s]
          PROVE  ~RangesOverlap(e.at, e.length, d.at, d.length)
      <4>1. PICK i \in DOMAIN pages[s] : InPage(d, pages[s][i])
        BY DEF IInv, CodeInv
      <4>2. d \in Code
        BY DEF IInv, TypeOK
      <4>3. CASE i = k
        <5>1. d.at + d.length <= page.base + page.used
          BY <4>1, <4>3 DEF InPage, page
        <5>2. d.at \in Nat /\ d.length \in Nat
          BY <4>2, Numbers DEF Code
        <5>. QED  BY <2>3, <2>4, <2>6, <5>1, <5>2 DEF RangesOverlap
      <4>4. CASE i # k
        <5>1. pages[s][i].base # pages'[s][k].base
          BY <1>1, <2>7, <4>4 DEF IInv, PageInv, page
        <5>2. pages[s][i] \in MutableCodePage /\ pages'[s][k] \in MutableCodePage
          <6>1. pages'[s] \in Seq(MutableCodePage)
            BY <2>7
          <6>2. k \in DOMAIN pages'[s]
            BY <1>1, <2>7
          <6>. HIDE DEF k
          <6>. QED  BY <6>1, <6>2, PageShape
        <5>. QED  BY <3>1, <4>1, <4>2, <5>1, <5>2, PagesApart
      <4>. QED  BY <4>3, <4>4
    <3>3. \A i \in DOMAIN pages[s] :
            /\ i \in DOMAIN pages'[s]
            /\ pages'[s][i].base = pages[s][i].base
            /\ pages'[s][i].used \in Nat
            /\ pages[s][i].used <= pages'[s][i].used
      <4>. SUFFICES ASSUME NEW i \in DOMAIN pages[s]
           PROVE  /\ pages'[s][i].base = pages[s][i].base
                  /\ pages'[s][i].used \in Nat
                  /\ pages[s][i].used <= pages'[s][i].used
        BY <2>7
      <4>1. CASE i = k
        BY <2>3, <2>6, <2>7, <4>1, Numbers, SMTT(30) DEF page
      <4>2. CASE i # k
        <5>1. pages[s][i].used \in Nat
          BY PageShape
        <5>2. pages'[s][i] = pages[s][i]
          BY <2>7, <4>2
        <5>. QED  BY <5>1, <5>2
      <4>. QED  BY <4>1, <4>2
    <3>4. k \in DOMAIN pages'[s]
      BY <1>1, <2>7
    <3>. HIDE DEF k
    <3>. QED  BY <2>4, <2>7, <3>1, <3>2, <3>3, <3>4, CodeAdded
  <2>. QED  BY <2>5, <2>8, <2>9, <2>11, <2>12 DEF IInv
<1>. QED  BY <1>1, <1>4, <1>5, <1>6

-----------------------------------------------------------------------------
(* Looking for a new page.                                                 *)

LEMMA SearchPlacesIInv ==
    ASSUME IInv, NEW s \in Sessions, SearchPlaces(s)
    PROVE  IInv'
<1>. DEFINE c == call[s]
            lower == new_lower(c.address, Minimum(c), Maximum(c), Granularity)
            upper == new_upper(c.address, Minimum(c), Maximum(c), Granularity)
            d == [phase |-> "next", address |-> c.address, size |-> c.size,
                  builder |-> c.builder, lower |-> lower, upper |-> upper]
<1>1. /\ c.phase = "pages" /\ place' = place
      /\ \/ search_error(c) # "Ok" /\ Fail(s, search_error(c))
         \/ /\ search_error(c) = "Ok"
            /\ call' = [call EXCEPT ![s] = d]
            /\ UNCHANGED <<pages, code, pending, answer>>
  BY DEF SearchPlaces
<1>2. /\ c \in Call /\ CallOK(c)
      /\ c.address \in Address /\ c.size \in Nat /\ c.builder \in Builder
  BY <1>1, CallShape DEF IInv, TypeOK, CallInv, Searching
<1>3. CASE search_error(c) # "Ok" /\ Fail(s, search_error(c))
  <2>1. search_error(c) \in Errors
    BY <1>3 DEF search_error, Errors
  <2>. QED  BY <1>1, <1>3, <2>1, Fails
<1>4. CASE /\ search_error(c) = "Ok"
           /\ call' = [call EXCEPT ![s] = d]
           /\ UNCHANGED <<pages, code, pending, answer>>
  <2>. HIDE DEF c
  <2>1. c.size # 0 /\ c.builder.size <= PageSize
        /\ c.address + NEAR_JUMP_SIZE <= UsizeMax
    BY <1>1, <1>2 DEF CallOK, Searching
  <2>2. /\ Minimum(c) # None
        /\ lower \in Granules \cup {None} /\ upper \in Granules \cup {None}
    BY <1>2, <1>4, <2>1, FirstCandidates
  <2>. HIDE DEF lower, upper
  <2>3. d \in Call
    <3>1. lower \in Address \cup {None} /\ upper \in Address \cup {None}
      BY <2>2, Numbers
    <3>. QED  BY <1>2, <3>1 DEF Call
  <2>4. /\ d.phase = "next" /\ d.size = c.size /\ d.address = c.address
        /\ d.builder = c.builder /\ d.lower = lower /\ d.upper = upper
    OBVIOUS
  <2>5. CallOK(d)
    <3>1. Minimum(d) = Minimum(c)
      BY <2>4 DEF Minimum
    <3>. HIDE DEF d
    <3>. QED  BY <2>1, <2>2, <2>4, <3>1 DEF CallOK, Searching
  <2>6. answer' \in [Sessions -> Errors \cup {"none", "Ok"}]
    BY <1>4 DEF IInv, TypeOK
  <2>. HIDE DEF d
  <2>. QED  BY <1>1, <1>4, <2>3, <2>4, <2>5, <2>6, Moves DEF c
<1>. QED  BY <1>1, <1>3, <1>4

LEMMA TryCandidateIInv ==
    ASSUME IInv, NEW s \in Sessions, TryCandidate(s)
    PROVE  IInv'
<1>. DEFINE c == call[s]
            takes_lower == take_lower(c.address, c.lower, c.upper)
            candidate == IF takes_lower THEN c.lower ELSE c.upper
            lower == IF takes_lower
                     THEN below(c.lower, Minimum(c), Granularity)
                     ELSE c.lower
            upper == IF takes_lower
                     THEN c.upper
                     ELSE above(c.upper, Maximum(c), Granularity)
            d == [c EXCEPT !.lower = lower, !.upper = upper]
            b(m) == [phase |-> "build", address |-> c.address,
                     size |-> c.size, builder |-> c.builder,
                     candidate |-> candidate, mapping |-> m,
                     lower |-> lower, upper |-> upper]
<1>1. /\ c.phase = "next" /\ (c.lower # None \/ c.upper # None)
      /\ pages' = pages /\ code' = code /\ pending' = pending /\ answer' = answer
  BY DEF TryCandidate
<1>8. \/ /\ call' = [call EXCEPT ![s].lower = lower, ![s].upper = upper]
         /\ UNCHANGED place
      \/ \E m \in Granules :
           /\ place[m] = Free
           /\ place' = [place EXCEPT ![m] = s]
           /\ call' = [call EXCEPT ![s] = b(m)]
  BY DEF TryCandidate
<1>2. /\ c \in Call /\ CallOK(c)
      /\ c.address \in Address /\ c.size \in Nat /\ c.builder \in Builder
      /\ call \in [Sessions -> Call]
  <2>1. c \in Call /\ CallOK(c) /\ call \in [Sessions -> Call]
    BY DEF IInv, TypeOK, CallInv
  <2>. HIDE DEF c
  <2>. QED  BY <1>1, <2>1, CallShape DEF Searching
<1>. HIDE DEF c
<1>3. /\ c.size # 0 /\ c.builder.size <= PageSize
      /\ c.address + NEAR_JUMP_SIZE <= UsizeMax
      /\ Minimum(c) # None
      /\ c.lower \in Granules \cup {None} /\ c.upper \in Granules \cup {None}
  BY <1>1, <1>2 DEF CallOK, Searching
<1>4. /\ candidate \in Granules
      /\ lower \in Granules \cup {None} /\ upper \in Granules \cup {None}
  <2>1. Minimum(c) \in Address
    BY <1>2, <1>3, MinimumIsAddress
  <2>2. takes_lower => c.lower # None
    BY DEF take_lower
  <2>3. ~takes_lower => c.upper # None
    BY <1>1 DEF take_lower
  <2>4. candidate \in Granules
    BY <1>3, <2>2, <2>3
  <2>5. takes_lower => below(c.lower, Minimum(c), Granularity)
                         \in Granules \cup {None}
    BY <1>3, <2>1, <2>2, NextCandidates
  <2>6. ~takes_lower => above(c.upper, Maximum(c), Granularity)
                          \in Granules \cup {None}
    BY <1>3, <2>1, <2>3, NextCandidates
  <2>. QED  BY <1>3, <2>4, <2>5, <2>6
<1>5. lower \in Address \cup {None} /\ upper \in Address \cup {None}
  BY <1>4, Numbers
<1>. HIDE DEF lower, upper, candidate
<1>6. CASE /\ call' = [call EXCEPT ![s].lower = lower, ![s].upper = upper]
           /\ UNCHANGED place
  <2>1. call' = [call EXCEPT ![s] = d]
    BY <1>2, <1>6 DEF c
  <2>4. /\ d \in Call /\ d.phase = "next" /\ d.size = c.size
        /\ d.address = c.address /\ d.builder = c.builder
        /\ d.lower = lower /\ d.upper = upper
    <3>1. c \in NextCall
      BY <1>1, <1>2, CallShape
    <3>2. d \in NextCall
      BY <1>5, <3>1 DEF NextCall
    <3>3. /\ d.size = c.size /\ d.address = c.address
          /\ d.builder = c.builder
          /\ d.lower = lower /\ d.upper = upper
      BY <3>1 DEF NextCall
    <3>. HIDE DEF d
    <3>. QED  BY <3>2, <3>3, Calls
  <2>5. CallOK(d)
    <3>1. Minimum(d) = Minimum(c)
      BY <2>4 DEF Minimum
    <3>. HIDE DEF d
    <3>. QED  BY <1>3, <1>4, <2>4, <3>1 DEF CallOK, Searching
  <2>6. answer' \in [Sessions -> Errors \cup {"none", "Ok"}]
    BY <1>1 DEF IInv, TypeOK
  <2>. HIDE DEF d
  <2>. QED  BY <1>1, <1>6, <2>1, <2>4, <2>5, <2>6, Moves DEF c
<1>7. ASSUME NEW m \in Granules, place[m] = Free,
             place' = [place EXCEPT ![m] = s],
             call' = [call EXCEPT ![s] = b(m)]
      PROVE  IInv'
  <2>. DEFINE built == b(m)
  <2>1. built \in Call
    BY <1>2, <1>4, <1>5 DEF Call
  <2>2. /\ built.phase = "build" /\ built.size = c.size
        /\ built.address = c.address /\ built.builder = c.builder
        /\ built.lower = lower /\ built.upper = upper /\ built.mapping = m
    OBVIOUS
  <2>3. CallOK(built)
    <3>1. Minimum(built) = Minimum(c)
      BY <2>2 DEF Minimum
    <3>. HIDE DEF built
    <3>. QED  BY <1>3, <1>4, <2>2, <3>1 DEF CallOK, Searching
  <2>13. call' = [call EXCEPT ![s] = built]
    BY <1>7
  <2>. HIDE DEF built
  <2>4. /\ call' \in [Sessions -> Call] /\ call'[s] = built
        /\ \A t \in Sessions : t # s => call'[t] = call[t]
    BY <1>2, <2>1, <2>13
  <2>5. /\ place' \in [Granules -> Sessions \cup {Free}]
        /\ place'[m] = s
        /\ \A h \in Granules : h # m => place'[h] = place[h]
    BY <1>4, <1>7 DEF IInv, TypeOK
  <2>6. \A t \in Sessions :
          /\ m \notin Bases(t)
          /\ ~(call[t].phase = "build" /\ call[t].mapping = m)
    BY <1>4, <1>7, SessionAssumption DEF IInv, NoPageLeaks
  <2>7. TypeOK'
    BY <1>1, <2>4, <2>5 DEF IInv, TypeOK
  <2>8. CallInv'
    BY <2>3, <2>4 DEF IInv, CallInv, CallOK, Minimum
  <2>9. \A t \in Sessions : Bases(t)' = Bases(t)
    BY <1>1 DEF Bases
  <2>10. PageInv'
    BY <1>1, <2>2, <2>4, <2>6, <2>9 DEF IInv, PageInv
  <2>11. NoPageLeaks'
    <3>. SUFFICES ASSUME NEW h \in Granules, NEW t \in Sessions
         PROVE  place'[h] = t <=>
                  \/ h \in Bases(t)
                  \/ call'[t].phase = "build" /\ call'[t].mapping = h
      BY <2>9 DEF NoPageLeaks
    <3>1. place[h] = t <=>
            \/ h \in Bases(t)
            \/ call[t].phase = "build" /\ call[t].mapping = h
      BY DEF IInv, NoPageLeaks
    <3>2. CASE h = m
      BY <2>2, <2>4, <2>5, <2>6, <3>2
    <3>3. CASE h # m /\ t = s
      BY <1>1, <2>2, <2>4, <2>5, <3>1, <3>3 DEF c
    <3>4. CASE h # m /\ t # s
      BY <2>4, <2>5, <3>1, <3>4
    <3>. QED  BY <3>2, <3>3, <3>4
  <2>12. CodeInv' /\ DetoursConnect'
    BY <1>1 DEF IInv, CodeInv, InPage, DetoursConnect
  <2>. QED  BY <2>7, <2>8, <2>10, <2>11, <2>12 DEF IInv
<1>. QED  BY <1>6, <1>7, <1>8

LEMMA ExhaustedIInv ==
    ASSUME IInv, NEW s \in Sessions, Exhausted(s)
    PROVE  IInv'
<1>1. "NoMemoryCave" \in Errors
  BY DEF Errors
<1>. QED  BY <1>1, Fails DEF Exhausted

-----------------------------------------------------------------------------
(* Building in the new page, and the end of a session.                     *)

LEMMA BuildInNewPageIInv ==
    ASSUME IInv, NEW s \in Sessions, BuildInNewPage(s)
    PROVE  IInv'
<1>. DEFINE c == call[s]
            result == NewPageResult(c)
            d == [phase |-> "next", address |-> c.address, size |-> c.size,
                  builder |-> c.builder, lower |-> c.lower, upper |-> c.upper]
            page == [base |-> c.mapping, used |-> c.builder.size]
<1>1. c.phase = "build"
  BY DEF BuildInNewPage
<1>2. \/ /\ result = "next candidate"
         /\ GiveBack(c)
         /\ call' = [call EXCEPT ![s] = d]
         /\ UNCHANGED <<pages, code, pending, answer>>
      \/ /\ result \in Errors
         /\ GiveBack(c)
         /\ Fail(s, result)
      \/ /\ result = "Ok"
         /\ pages' = [pages EXCEPT ![s] = Append(@, page)]
         /\ PlaceTrampoline(s, c.mapping, c.mapping)
         /\ UNCHANGED place
  BY DEF BuildInNewPage
<1>3. /\ c \in BuildCall /\ CallOK(c) /\ c.mapping \in Granules
      /\ c.address \in Address /\ c.size \in Nat /\ c.builder \in Builder
  <2>1. c \in Call /\ CallOK(c)
    BY DEF IInv, TypeOK, CallInv
  <2>. HIDE DEF c
  <2>. QED  BY <1>1, <2>1, CallShape DEF Searching
<1>. HIDE DEF c
<1>4. /\ c.size # 0 /\ c.builder.size <= PageSize
      /\ c.address + NEAR_JUMP_SIZE <= UsizeMax
      /\ Minimum(c) # None
      /\ c.lower \in Granules \cup {None} /\ c.upper \in Granules \cup {None}
  BY <1>1, <1>3 DEF CallOK, Searching
<1>5. result = "Ok" =>
        /\ relative_offset_fits(c.address + NEAR_JUMP_SIZE, c.mapping)
        /\ build(c.builder, c.mapping) = "Ok"
  BY DEF NewPageResult
<1>. HIDE DEF result
<1>6. CASE /\ GiveBack(c)
           /\ call' = [call EXCEPT ![s] = d]
           /\ UNCHANGED <<pages, code, pending, answer>>
  <2>1. d \in NextCall
    BY <1>3, <1>4, Numbers DEF NextCall
  <2>2. d \in Call
    BY <2>1, Calls
  <2>3. /\ d.phase = "next" /\ d.size = c.size /\ d.address = c.address
        /\ d.builder = c.builder /\ d.lower = c.lower /\ d.upper = c.upper
    OBVIOUS
  <2>4. CallOK(d)
    <3>1. Minimum(d) = Minimum(c)
      BY <2>3 DEF Minimum
    <3>. HIDE DEF d
    <3>. QED  BY <1>4, <2>3, <3>1 DEF CallOK, Searching
  <2>5. answer' \in [Sessions -> Errors \cup {"none", "Ok"}]
    BY <1>6 DEF IInv, TypeOK
  <2>. HIDE DEF d
  <2>. QED  BY <1>1, <1>6, <2>2, <2>3, <2>4, <2>5, GivesBack DEF c
<1>7. CASE result \in Errors /\ GiveBack(c) /\ Fail(s, result)
  <2>1. answer' \in [Sessions -> Errors \cup {"none", "Ok"}]
    BY <1>7 DEF Fail, Answer, IInv, TypeOK
  <2>2. call' = [call EXCEPT ![s] = Idle] /\ UNCHANGED <<pages, code, pending>>
    BY <1>7 DEF Fail, Answer
  <2>. QED  BY <1>1, <1>7, <2>1, <2>2, IdleOK, GivesBack DEF c
<1>8. CASE /\ result = "Ok"
           /\ pages' = [pages EXCEPT ![s] = Append(@, page)]
           /\ PlaceTrampoline(s, c.mapping, c.mapping)
           /\ UNCHANGED place
  <2>. DEFINE at == c.mapping
              n == Len(pages[s]) + 1
  <2>1. /\ at \in Address
        /\ relative_offset_fits(c.address + NEAR_JUMP_SIZE, at)
        /\ build(c.builder, at) = "Ok"
        /\ c.builder.size \in Nat
    BY <1>3, <1>5, <1>8, Numbers DEF Builder
  <2>2. PICK e \in Code :
          /\ e.at = at /\ e.length = c.builder.size
          /\ code' = [code EXCEPT ![s] = @ \cup {e}]
    BY <1>1, <1>8, <2>1, Placed DEF Searching, c
  <2>3. /\ call' \in [Sessions -> Call] /\ call'[s] = Idle
        /\ \A t \in Sessions : t # s => call'[t] = call[t]
        /\ answer' \in [Sessions -> Errors \cup {"none", "Ok"}]
        /\ pending' \in [Sessions -> Seq(PendingPatch)]
        /\ DetoursConnect'
    BY <1>1, <1>8, <2>1, Placed DEF Searching, c
  <2>4. page \in MutableCodePage /\ page.base = at /\ page.used = c.builder.size
    BY <1>3, <1>4, <2>1, Numbers DEF MutableCodePage
  <2>5. pages \in [Sessions -> Seq(MutableCodePage)]
    BY DEF IInv, TypeOK
  <2>6. pages' = [pages EXCEPT ![s] = Append(@, page)]
    BY <1>8
  <2>. HIDE DEF page
  <2>7. /\ pages' \in [Sessions -> Seq(MutableCodePage)]
        /\ \A t \in Sessions : t # s => pages'[t] = pages[t]
        /\ pages'[s] = Append(pages[s], page)
    BY <2>4, <2>5, <2>6
  <2>8. /\ n \in Nat \ {0} /\ DOMAIN pages[s] = 1 .. n - 1
        /\ DOMAIN pages'[s] = 1 .. n /\ pages'[s][n] = page
        /\ \A i \in DOMAIN pages[s] : pages'[s][i] = pages[s][i]
    BY <2>4, <2>7, PageShape
  <2>. HIDE DEF n
  <2>9. /\ DOMAIN pages'[s] = DOMAIN pages[s] \cup {n}
        /\ n \notin DOMAIN pages[s]
    BY <2>8
  <2>10. at \notin Bases(s)
    BY <1>1 DEF IInv, PageInv, c
  <2>11. /\ Bases(s)' = Bases(s) \cup {at}
         /\ \A t \in Sessions : t # s => Bases(t)' = Bases(t)
    <3>1. Bases(s)' = Bases(s) \cup {at}
      BY <2>4, <2>8, <2>9 DEF Bases
    <3>2. \A t \in Sessions : pages'[t] = pages[t] => Bases(t)' = Bases(t)
      BY DEF Bases
    <3>. QED  BY <2>7, <3>1, <3>2
  <2>12. TypeOK'
    <3>1. code' \in [Sessions -> SUBSET Code]
      BY <2>2 DEF IInv, TypeOK
    <3>. QED  BY <1>8, <2>3, <2>7, <3>1 DEF IInv, TypeOK
  <2>13. CallInv'
    BY <2>3, IdleOK DEF IInv, CallInv, CallOK, Minimum
  <2>14. PageInv'
    <3>. SUFFICES ASSUME NEW t \in Sessions
         PROVE  /\ \A i, j \in DOMAIN pages'[t] :
                     pages'[t][i].base = pages'[t][j].base => i = j
                /\ call'[t].phase = "build" =>
                     call'[t].mapping \notin Bases(t)'
      BY DEF PageInv
    <3>1. /\ \A i, j \in DOMAIN pages[t] :
               pages[t][i].base = pages[t][j].base => i = j
          /\ call[t].phase = "build" => call[t].mapping \notin Bases(t)
      BY DEF IInv, PageInv
    <3>2. CASE t = s
      <4>1. \A i \in DOMAIN pages[s] : pages[s][i].base # at
        BY <2>10 DEF Bases
      <4>2. pages'[s][n].base = at
        BY <2>4, <2>8
      <4>3. ASSUME NEW i \in DOMAIN pages'[s], NEW j \in DOMAIN pages'[s],
                   pages'[s][i].base = pages'[s][j].base
            PROVE  i = j
        <5>1. i \in DOMAIN pages[s] /\ j \in DOMAIN pages[s] => i = j
          BY <2>8, <3>1, <3>2, <4>3
        <5>2. i = n /\ j \in DOMAIN pages[s] => FALSE
          BY <2>8, <4>1, <4>2, <4>3
        <5>3. j = n /\ i \in DOMAIN pages[s] => FALSE
          BY <2>8, <4>1, <4>2, <4>3
        <5>. QED  BY <2>9, <5>1, <5>2, <5>3
      <4>. QED  BY <2>3, <3>2, <4>3, IdleOK
    <3>3. CASE t # s
      BY <2>3, <2>7, <2>11, <3>1, <3>3
    <3>. QED  BY <3>2, <3>3
  <2>15. NoPageLeaks'
    <3>. SUFFICES ASSUME NEW g \in Granules, NEW t \in Sessions
         PROVE  place'[g] = t <=>
                  \/ g \in Bases(t)'
                  \/ call'[t].phase = "build" /\ call'[t].mapping = g
      BY DEF NoPageLeaks
    <3>1. place[g] = t <=>
            \/ g \in Bases(t)
            \/ call[t].phase = "build" /\ call[t].mapping = g
      BY DEF IInv, NoPageLeaks
    <3>2. place' = place
      BY <1>8
    <3>3. CASE t = s
      BY <1>1, <2>3, <2>11, <3>1, <3>2, <3>3, IdleOK DEF c
    <3>4. CASE t # s
      BY <2>3, <2>11, <3>1, <3>2, <3>4
    <3>. QED  BY <3>3, <3>4
  <2>16. CodeInv'
    <3>1. InPage(e, pages'[s][n])
      <4>1. at \in Nat /\ at - at = 0 /\ at + 0 = at
        BY <2>1, Numbers
      <4>2. 0 % TRAMPOLINE_ALIGNMENT = 0
        BY Numbers
      <4>. QED  BY <2>1, <2>2, <2>4, <2>8, <4>1, <4>2 DEF InPage
    <3>2. ASSUME NEW f \in code[s]
          PROVE  ~RangesOverlap(e.at, e.length, f.at, f.length)
      <4>1. PICK i \in DOMAIN pages[s] : InPage(f, pages[s][i])
        BY DEF IInv, CodeInv
      <4>2. f \in Code
        BY DEF IInv, TypeOK
      <4>3. pages[s][i].base # page.base
        BY <2>4, <2>10 DEF Bases
      <4>. QED  BY <2>4, <2>8, <3>1, <4>1, <4>2, <4>3, PageShape, PagesApart
    <3>3. \A i \in DOMAIN pages[s] :
            /\ i \in DOMAIN pages'[s]
            /\ pages'[s][i].base = pages[s][i].base
            /\ pages'[s][i].used \in Nat
            /\ pages[s][i].used <= pages'[s][i].used
      <4>1. \A i \in DOMAIN pages[s] : pages[s][i].used \in Nat
        BY PageShape
      <4>2. \A x \in Nat : x <= x
        OBVIOUS
      <4>. QED  BY <2>8, <2>9, <4>1, <4>2
    <3>4. n \in DOMAIN pages'[s]
      BY <2>9
    <3>. QED  BY <2>2, <2>7, <3>1, <3>2, <3>3, <3>4, CodeAdded
  <2>. QED  BY <2>3, <2>12, <2>13, <2>14, <2>15, <2>16 DEF IInv
<1>. QED  BY <1>2, <1>6, <1>7, <1>8

LEMMA DropIInv ==
    ASSUME IInv, NEW s \in Sessions, DropSession(s)
    PROVE  IInv'
<1>. DEFINE gone == [phase |-> "dropped"]
<1>1. /\ call[s] = Idle /\ answer' = answer
      /\ call' = [call EXCEPT ![s] = gone]
      /\ pages' = [pages EXCEPT ![s] = <<>>]
      /\ code' = [code EXCEPT ![s] = {}]
      /\ pending' = [pending EXCEPT ![s] = <<>>]
      /\ place' = [g \in Granules |-> IF g \in Bases(s) THEN Free ELSE place[g]]
  BY DEF DropSession, Bases
<1>. HIDE DEF gone
<1>2. /\ call' \in [Sessions -> Call] /\ call'[s] = gone
      /\ \A t \in Sessions : t # s => call'[t] = call[t]
      /\ gone.phase = "dropped" /\ CallOK(gone)
  BY <1>1, IdleOK DEF IInv, TypeOK, gone
<1>3. /\ pages' \in [Sessions -> Seq(MutableCodePage)] /\ pages'[s] = <<>>
      /\ \A t \in Sessions : t # s => pages'[t] = pages[t]
  BY <1>1 DEF IInv, TypeOK
<1>4. /\ code' \in [Sessions -> SUBSET Code] /\ code'[s] = {}
      /\ \A t \in Sessions : t # s => code'[t] = code[t]
  BY <1>1 DEF IInv, TypeOK
<1>5. /\ pending' \in [Sessions -> Seq(PendingPatch)] /\ pending'[s] = <<>>
      /\ \A t \in Sessions : t # s => pending'[t] = pending[t]
  BY <1>1 DEF IInv, TypeOK
<1>6. /\ place' \in [Granules -> Sessions \cup {Free}]
      /\ \A g \in Granules :
           place'[g] = IF g \in Bases(s) THEN Free ELSE place[g]
  BY <1>1 DEF IInv, TypeOK
<1>7. TypeOK'
  BY <1>1, <1>2, <1>3, <1>4, <1>5, <1>6 DEF IInv, TypeOK
<1>8. CallInv'
  BY <1>2 DEF IInv, CallInv, CallOK, Minimum
<1>9. /\ Bases(s)' = {}
      /\ \A t \in Sessions : t # s => Bases(t)' = Bases(t)
  <2>1. \A t \in Sessions : pages'[t] = pages[t] => Bases(t)' = Bases(t)
    BY DEF Bases
  <2>2. Bases(s)' = {}
    BY <1>3 DEF Bases
  <2>. QED  BY <1>3, <2>1, <2>2
<1>10. PageInv'
  <2>. SUFFICES ASSUME NEW t \in Sessions
       PROVE  /\ \A i, j \in DOMAIN pages'[t] :
                   pages'[t][i].base = pages'[t][j].base => i = j
              /\ call'[t].phase = "build" =>
                   call'[t].mapping \notin Bases(t)'
    BY DEF PageInv
  <2>1. CASE t = s
    BY <1>2, <1>3, <2>1
  <2>2. CASE t # s
    BY <1>2, <1>3, <1>9, <2>2 DEF IInv, PageInv
  <2>. QED  BY <2>1, <2>2
<1>11. NoPageLeaks'
  <2>. SUFFICES ASSUME NEW g \in Granules, NEW t \in Sessions
       PROVE  place'[g] = t <=>
                \/ g \in Bases(t)'
                \/ call'[t].phase = "build" /\ call'[t].mapping = g
    BY DEF NoPageLeaks
  <2>1. \A u \in Sessions :
          place[g] = u <=> \/ g \in Bases(u)
                           \/ call[u].phase = "build" /\ call[u].mapping = g
    BY DEF IInv, NoPageLeaks
  <2>2. Free \notin Sessions /\ call[s].phase # "build"
    BY <1>1, IdleOK, SessionAssumption
  <2>3. CASE t = s
    BY <1>2, <1>6, <1>9, <2>1, <2>2, <2>3
  <2>4. CASE t # s
    BY <1>2, <1>6, <1>9, <2>1, <2>2, <2>4
  <2>. QED  BY <2>3, <2>4
<1>12. CodeInv'
  <2>. SUFFICES ASSUME NEW t \in Sessions, NEW c \in code'[t]
       PROVE  /\ \E i \in DOMAIN pages'[t] : InPage(c, pages'[t][i])
              /\ \A d \in code'[t] :
                   c # d => ~RangesOverlap(c.at, c.length, d.at, d.length)
    BY DEF CodeInv, InPage
  <2>1. t # s
    BY <1>4
  <2>. QED  BY <1>3, <1>4, <2>1 DEF IInv, CodeInv
<1>13. DetoursConnect'
  <2>1. \A t \in Sessions : \A i \in DOMAIN pending'[t] :
          Connected(pending'[t][i], code'[t])
    <3>1. \A t \in Sessions : t # s => \A i \in DOMAIN pending'[t] :
            Connected(pending'[t][i], code'[t])
      BY <1>4, <1>5, AllConnected DEF IInv
    <3>. QED  BY <1>5, <3>1
  <2>. QED  BY <2>1 DEF DetoursConnect, Connected
<1>. QED  BY <1>7, <1>8, <1>10, <1>11, <1>12, <1>13 DEF IInv
-----------------------------------------------------------------------------
(* A call prepares a patch or leaves its session as it was.                *)

(* PreparesAllOrNothing says this of every session. *)
AllOrNothing(t) ==
    \/ UNCHANGED <<pages[t], code[t], pending[t]>>
    \/ call'[t].phase = "dropped"
    \/ answer'[t] = "Ok" /\ Len(pending'[t]) = Len(pending[t]) + 1

LEMMA PlacedIsAll ==
    ASSUME IInv, NEW s \in Sessions, NEW at \in Address,
           call[s].phase \in Searching,
           relative_offset_fits(call[s].address + NEAR_JUMP_SIZE, at),
           build(call[s].builder, at) = "Ok",
           PlaceTrampoline(s, at, at),
           \A t \in Sessions : t # s => pages'[t] = pages[t],
           NEW t \in Sessions
    PROVE  AllOrNothing(t)
<1>1. /\ answer'[s] = "Ok" /\ Len(pending'[s]) = Len(pending[s]) + 1
      /\ t # s => pending'[t] = pending[t]
  BY Placed
<1>2. PICK e \in Code : code' = [code EXCEPT ![s] = @ \cup {e}]
  BY Placed
<1>3. t # s => code'[t] = code[t]
  BY <1>2 DEF IInv, TypeOK
<1>. QED  BY <1>1, <1>3 DEF AllOrNothing

LEMMA RequestPrepares ==
    ASSUME IInv, NEW s \in Sessions, Request(s), NEW t \in Sessions
    PROVE  AllOrNothing(t)
<1>1. ASSUME UNCHANGED <<pages, code, pending>>
      PROVE  AllOrNothing(t)
  BY <1>1 DEF AllOrNothing
<1>2. ASSUME NEW address \in Sites, NEW size \in Sizes,
             Overwrite(s, address, size)
      PROVE  AllOrNothing(t)
  <2>. DEFINE checked == ensure_patch_does_not_overlap(s, address, size)
  <2>1. CASE Fail(s, checked)
    BY <1>1, <2>1 DEF Fail
  <2>2. CASE /\ checked = "Ok" /\ Push(s, address, size, None)
             /\ Answer(s, "Ok") /\ UNCHANGED <<pages, code>>
    <3>1. address \in Address /\ size \in Nat /\ size # 0
      BY <2>2, CheckedOverlap, SessionAssumption
    <3>2. /\ Len(pending'[s]) = Len(pending[s]) + 1
          /\ t # s => pending'[t] = pending[t]
      BY <2>2, <3>1, Pushed
    <3>3. answer'[s] = "Ok"
      BY <2>2 DEF Answer, IInv, TypeOK
    <3>. QED  BY <2>2, <3>2, <3>3 DEF AllOrNothing
  <2>. QED  BY <1>2, <2>1, <2>2 DEF Overwrite
<1>3. ASSUME NEW address \in Sites, NEW size \in Sizes, NEW n \in CallSizes,
             PatchCall(s, address, size, n)
      PROVE  AllOrNothing(t)
  BY <1>1, <1>3 DEF PatchCall, prepare_detour, Fail
<1>4. ASSUME NEW address \in Sites, NEW size \in Sizes, NEW b \in Builders,
             DetourWith(s, address, size, b)
      PROVE  AllOrNothing(t)
  BY <1>1, <1>4 DEF DetourWith, prepare_detour, Fail
<1>. QED  BY <1>2, <1>3, <1>4 DEF Request

LEMMA AllocatePrepares ==
    ASSUME IInv, NEW s \in Sessions, Allocate(s), NEW t \in Sessions
    PROVE  AllOrNothing(t)
<1>. DEFINE c == call[s]
<1>1. ASSUME UNCHANGED <<pages, code, pending>>
      PROVE  AllOrNothing(t)
  BY <1>1 DEF AllOrNothing
<1>2. CASE SearchPlaces(s) \/ TryCandidate(s) \/ Exhausted(s)
  BY <1>1, <1>2 DEF SearchPlaces, TryCandidate, Exhausted, Fail
<1>3. CASE TryPage(s)
  <2>. DEFINE k == c.cursor
              page == pages[s][k]
              slot == slot_range(page.used, c.builder.size, PageSize)
              result == SlotResult(c, page, slot)
              at == page.base + slot.start
  <2>1. /\ c.phase = "pages" /\ k \in DOMAIN pages[s]
        /\ \/ result = "next page" /\ NextPage(s)
           \/ result \in Errors /\ Fail(s, result)
           \/ /\ result = "Ok"
              /\ pages' = [pages EXCEPT ![s][k].used = slot.end]
              /\ PlaceTrampoline(s, at, at)
    BY <1>3 DEF TryPage
  <2>2. CASE NextPage(s) \/ Fail(s, result)
    BY <1>1, <2>2 DEF NextPage, Fail
  <2>3. CASE /\ result = "Ok"
             /\ pages' = [pages EXCEPT ![s][k].used = slot.end]
             /\ PlaceTrampoline(s, at, at)
    <3>1. /\ c \in Call /\ CallOK(c) /\ c.builder \in Builder
          /\ c.address \in Address /\ page \in MutableCodePage
      BY <2>1, CallShape, PageShape DEF IInv, TypeOK, CallInv, Searching
    <3>2. \A u \in Sessions : u # s => pages'[u] = pages[u]
      BY <2>3 DEF IInv, TypeOK
    <3>. HIDE DEF page
    <3>3. /\ at \in Address
          /\ relative_offset_fits(c.address + NEAR_JUMP_SIZE, at)
          /\ build(c.builder, at) = "Ok"
      <4>. HIDE DEF c, slot
      <4>. QED  BY <2>3, <3>1, SlotResults DEF slot
    <3>. HIDE DEF at
    <3>. QED  BY <2>1, <2>3, <3>2, <3>3, PlacedIsAll DEF Searching
  <2>. QED  BY <2>1, <2>2, <2>3
<1>4. CASE BuildInNewPage(s)
  <2>. DEFINE result == NewPageResult(c)
              page == [base |-> c.mapping, used |-> c.builder.size]
  <2>1. /\ c.phase = "build"
        /\ \/ UNCHANGED <<pages, code, pending>>
           \/ /\ result = "Ok"
              /\ pages' = [pages EXCEPT ![s] = Append(@, page)]
              /\ PlaceTrampoline(s, c.mapping, c.mapping)
    BY <1>4 DEF BuildInNewPage, Fail
  <2>2. CASE /\ result = "Ok"
             /\ pages' = [pages EXCEPT ![s] = Append(@, page)]
             /\ PlaceTrampoline(s, c.mapping, c.mapping)
    <3>1. c.mapping \in Address
      BY <2>1, CallShape, Numbers DEF IInv, TypeOK
    <3>2. /\ relative_offset_fits(c.address + NEAR_JUMP_SIZE, c.mapping)
          /\ build(c.builder, c.mapping) = "Ok"
      BY <2>2 DEF NewPageResult
    <3>3. \A u \in Sessions : u # s => pages'[u] = pages[u]
      BY <2>2 DEF IInv, TypeOK
    <3>. QED  BY <2>1, <2>2, <3>1, <3>2, <3>3, PlacedIsAll DEF Searching
  <2>. QED  BY <1>1, <2>1, <2>2
<1>. QED  BY <1>2, <1>3, <1>4 DEF Allocate

LEMMA DropKeepsOthers ==
    ASSUME IInv, NEW s \in Sessions, DropSession(s), NEW t \in Sessions
    PROVE  AllOrNothing(t)
<1>1. CASE t = s
  BY <1>1 DEF DropSession, AllOrNothing, IInv, TypeOK
<1>2. CASE t # s
  BY <1>2 DEF DropSession, AllOrNothing, IInv, TypeOK
<1>. QED  BY <1>1, <1>2

-----------------------------------------------------------------------------
(* Results.                                                                *)

LEMMA InitIInv == Init => IInv
<1>. SUFFICES ASSUME Init PROVE IInv
  OBVIOUS
<1>1. TypeOK
  BY Calls DEF Init, TypeOK
<1>2. CallInv
  BY IdleOK DEF Init, CallInv
<1>3. PageInv
  BY IdleOK DEF Init, PageInv
<1>4. NoPageLeaks
  BY IdleOK, SessionAssumption DEF Init, NoPageLeaks, Bases
<1>5. CodeInv /\ DetoursConnect
  BY DEF Init, CodeInv, DetoursConnect
<1>. QED  BY <1>1, <1>2, <1>3, <1>4, <1>5 DEF IInv

LEMMA NextIInv ==
    ASSUME IInv, [Next]_vars
    PROVE  IInv'
<1>1. CASE UNCHANGED vars
  BY <1>1 DEF vars, IInv, TypeOK, CallInv, CallOK, Minimum, PageInv, Bases,
     NoPageLeaks, CodeInv, InPage, DetoursConnect
<1>2. ASSUME NEW s \in Sessions, Request(s)
      PROVE  IInv'
  BY <1>2, OverwriteIInv, PatchCallIInv, DetourWithIInv DEF Request
<1>3. ASSUME NEW s \in Sessions, Allocate(s)
      PROVE  IInv'
  BY <1>3, TryPageIInv, SearchPlacesIInv, TryCandidateIInv,
     BuildInNewPageIInv, ExhaustedIInv DEF Allocate
<1>. QED  BY <1>1, <1>2, <1>3, DropIInv DEF Next, Finished

(***************************************************************************)
(* The inductive invariant: what a call has checked when it reaches the    *)
(* allocator, which places are whose, and which part of a page is used     *)
(* (patch.rs 150-202, session.rs 98-230).                                  *)
(***************************************************************************)
THEOREM Invariance == Spec => []IInv
BY InitIInv, NextIInv, PTL DEF Spec

(***************************************************************************)
(* The pages, trampolines and patches of every session, and every answer,  *)
(* are what their types say (session.rs 20-53).                            *)
(***************************************************************************)
THEOREM TypeCorrect == Spec => []TypeOK
<1>1. IInv => TypeOK
  BY DEF IInv
<1>. QED  BY <1>1, Invariance, PTL

(***************************************************************************)
(* A trampoline lies aligned in one page of its session and is never       *)
(* copied over (session.rs 119-138, relative_jump.rs 45-49).               *)
(***************************************************************************)
THEOREM NeverCopiedOver == Spec => []TrampolinesDisjoint
<1>1. ASSUME IInv, NEW s \in Sessions, NEW c \in code[s]
      PROVE  \E b \in Bases(s) :
                /\ b <= c.at
                /\ c.at + c.length <= b + PageSize
                /\ (c.at - b) % TRAMPOLINE_ALIGNMENT = 0
  <2>1. PICK i \in DOMAIN pages[s] : InPage(c, pages[s][i])
    BY <1>1 DEF IInv, CodeInv
  <2>2. /\ pages[s][i].base \in Nat /\ pages[s][i].used \in Nat
        /\ pages[s][i].used <= PageSize
    BY <1>1, PageShape, Numbers
  <2>3. c.at \in Nat /\ c.length \in Nat
    <3>1. c \in Code
      BY <1>1 DEF IInv, TypeOK
    <3>. QED  BY <3>1, Numbers DEF Code
  <2>4. c.at + c.length <= pages[s][i].base + PageSize
    BY <2>1, <2>2, <2>3, Numbers DEF InPage
  <2>. QED  BY <2>1, <2>4 DEF InPage, Bases
<1>2. IInv => TrampolinesDisjoint
  BY <1>1 DEF TrampolinesDisjoint, IInv, CodeInv
<1>. QED  BY <1>2, Invariance, PTL

(***************************************************************************)
(* Every detour is connected at both ends: the near jump reaches its       *)
(* trampoline, and every exit's displacement leads from there to its       *)
(* target (session.rs 98-231, patch.rs 58-83 and 188-195).                 *)
(***************************************************************************)
THEOREM AlwaysConnected == Spec => []DetoursConnect
<1>1. IInv => DetoursConnect
  BY DEF IInv
<1>. QED  BY <1>1, Invariance, PTL

(***************************************************************************)
(* No mapping is forgotten and none is used that is not the session's      *)
(* (session.rs 198-221).                                                   *)
(***************************************************************************)
THEOREM PagesAccountedFor == Spec => []NoPageLeaks
<1>1. IInv => NoPageLeaks
  BY DEF IInv
<1>. QED  BY <1>1, Invariance, PTL

(***************************************************************************)
(* A step changes a session's pages, trampolines or patches only when the  *)
(* call returns Ok with one patch more, or the session is dropped: what    *)
(* fails leaves nothing behind (session.rs 113-230, patch.rs 188-195).     *)
(***************************************************************************)
THEOREM AllOrNothingPrepared == Spec => PreparesAllOrNothing
<1>. DEFINE Step == \A s \in Sessions : AllOrNothing(s)
<1>1. IInv /\ [Next]_vars => [Step]_vars
  <2>. SUFFICES ASSUME IInv, Next, NEW t \in Sessions, ~ UNCHANGED vars
       PROVE  AllOrNothing(t)
    OBVIOUS
  <2>. QED  BY RequestPrepares, AllocatePrepares, DropKeepsOthers
            DEF Next, Finished
<1>2. Step <=> \A s \in Sessions :
         \/ UNCHANGED <<pages[s], code[s], pending[s]>>
         \/ call'[s].phase = "dropped"
         \/ answer'[s] = "Ok" /\ Len(pending'[s]) = Len(pending[s]) + 1
  BY DEF AllOrNothing
<1>. QED  BY <1>1, <1>2, Invariance, PTL DEF Spec, PreparesAllOrNothing
-----------------------------------------------------------------------------
(* The order of the search.                                                *)

(* The lemmas about the iterator; they are about no state of a search.     *)
Candidates == INSTANCE CandidateSearchProofs WITH
    Hooks <- {h \in Address : h + NEAR_JUMP_SIZE <= UsizeMax},
    hook <- 0, lower <- None, upper <- None,
    phase <- "next", outcome <- "searching"

LEMMA CandidatesAssumptions ==
    /\ Candidates!UsizeMaxAssumption
    /\ Candidates!RelativeJumpAssumption
    /\ Candidates!SearchAssumption
<1>1. PageSize \in 1 .. UsizeMax + 1
  BY Numbers
<1>. QED  BY <1>1, Numbers, UsizeMaxAssumption, RelativeJumpAssumption
          DEF Candidates!UsizeMaxAssumption, Candidates!RelativeJumpAssumption,
              Candidates!SearchAssumption, Candidates!I32Min, I32Min,
              Candidates!Address

(* The two ends of a search are places on either side of its hook.         *)
SidesOK(c) ==
    Candidates!IterOK(c.address, Minimum(c), Maximum(c), c.lower, c.upper)

SearchInv ==
    \A s \in Sessions : call[s].phase \in {"next", "build"} => SidesOK(call[s])

LEMMA RemainingIsRest ==
    ASSUME NEW c
    PROVE  Remaining(c) =
             Candidates!Rest(Minimum(c), Maximum(c), c.lower, c.upper)
BY DEF Remaining, Granules, Candidates!Rest, Candidates!Address, Address,
       Candidates!None, None

(* Equal addresses have equal bounds. *)
LEMMA SameBounds ==
    ASSUME NEW c, NEW d, d.address = c.address
    PROVE  Minimum(d) = Minimum(c) /\ Maximum(d) = Maximum(c)
BY DEF Minimum, Maximum

LEMMA SearchBounds ==
    ASSUME NEW c, c.address \in Address,
           c.address + NEAR_JUMP_SIZE <= UsizeMax
    PROVE  /\ Minimum(c) # None =>
                /\ Minimum(c) \in Address /\ Minimum(c) % Granularity = 0
                /\ ReachedFrom(c) =
                     {b \in Address : /\ b % Granularity = 0
                                      /\ Minimum(c) <= b
                                      /\ b <= Maximum(c)}
           /\ Maximum(c) \in Address
           /\ Maximum(c) <= align_down(UsizeMax, Granularity)
<1>. DEFINE h == c.address
            n == h + NEAR_JUMP_SIZE
            lo == Minimum(c)
            hi == Maximum(c)
<1>1. h \in {x \in Address : x + NEAR_JUMP_SIZE <= UsizeMax}
  OBVIOUS
<1>2. /\ lo = Candidates!lowest_base(n, Granularity)
      /\ hi = Candidates!highest_base(n, PageSize, Granularity)
  BY DEF Minimum, Maximum, lowest_base, highest_base, align_up, align_down,
         Greater, Lesser, I32Min, checked_add, None,
         Candidates!lowest_base, Candidates!highest_base,
         Candidates!align_up, Candidates!align_down, Candidates!Greater,
         Candidates!Lesser, Candidates!I32Min, Candidates!checked_add,
         Candidates!None
<1>. HIDE DEF h, lo, hi
<1>3. /\ lo # Candidates!None =>
           /\ lo \in Candidates!Address /\ lo % Granularity = 0
           /\ Candidates!Places(n, PageSize, Granularity) =
                {b \in Candidates!Address : /\ b % Granularity = 0
                                            /\ lo <= b /\ b <= hi}
      /\ hi \in Candidates!Address
      /\ hi <= Candidates!align_down(UsizeMax, Granularity)
  <2>. HIDE DEF n
  <2>1. n = h + NEAR_JUMP_SIZE
    BY DEF n
  <2>. QED  BY <1>1, <1>2, <2>1, CandidatesAssumptions, Candidates!Bounds
<1>4. ReachedFrom(c) = Candidates!Places(n, PageSize, Granularity)
  BY DEF ReachedFrom, Places, Address, relative_offset_fits, I32Min, h,
         Candidates!Places, Candidates!Address,
         Candidates!relative_offset_fits, Candidates!I32Min
<1>. QED  BY <1>3, <1>4
          DEF lo, hi, Candidates!None, None, Candidates!Address, Address,
              Candidates!align_down, align_down

(* A search starts with every place the hook reaches, or fails. *)
LEMMA SearchStarts ==
    ASSUME NEW c, c.address \in Address,
           c.address + NEAR_JUMP_SIZE <= UsizeMax,
           NEW d, d.address = c.address,
           d.lower = new_lower(c.address, Minimum(c), Maximum(c), Granularity),
           d.upper = new_upper(c.address, Minimum(c), Maximum(c), Granularity)
    PROVE  /\ search_error(c) = "Ok" =>
                SidesOK(d) /\ Remaining(d) = ReachedFrom(c)
           /\ search_error(c) = "NoMemoryCave" => ReachedFrom(c) = {}
<1>. DEFINE h == c.address
            lo == Minimum(c)
            hi == Maximum(c)
            l == d.lower
            u == d.upper
            r == round_up_hook(h, lo, Granularity)
<1>1. /\ lo # None =>
           /\ lo \in Address /\ lo % Granularity = 0
           /\ ReachedFrom(c) = {b \in Address : /\ b % Granularity = 0
                                                /\ lo <= b /\ b <= hi}
      /\ hi \in Address
      /\ hi <= align_down(UsizeMax, Granularity)
  BY SearchBounds
<1>2. search_error(c) = (IF lo = None THEN "AddressOverflow"
                         ELSE IF lo > hi THEN "NoMemoryCave"
                         ELSE IF r = None THEN "AddressOverflow"
                         ELSE "Ok")
  BY DEF search_error
<1>3. /\ l = Candidates!new_lower(h, lo, hi, Granularity)
      /\ u = Candidates!new_upper(h, lo, hi, Granularity)
      /\ r = Candidates!round_up_hook(h, lo, Granularity)
  <2>. HIDE DEF lo, hi
  <2>. USE DEF InBounds, Lesser, Greater, align_down, align_up, checked_add,
               None, Candidates!InBounds, Candidates!Lesser,
               Candidates!Greater, Candidates!align_down, Candidates!align_up,
               Candidates!checked_add, Candidates!None
  <2>1. l = Candidates!new_lower(h, lo, hi, Granularity)
    BY DEF lo, hi, new_lower, Candidates!new_lower
  <2>2. r = Candidates!round_up_hook(h, lo, Granularity)
    BY DEF round_up_hook, Candidates!round_up_hook
  <2>3. u = Candidates!new_upper(h, lo, hi, Granularity)
    BY DEF lo, hi, new_upper, Candidates!new_upper, new_lower,
           Candidates!new_lower, round_up_hook, Candidates!round_up_hook
  <2>. QED  BY <2>1, <2>2, <2>3
<1>. HIDE DEF lo, hi, l, u, r
<1>4. ASSUME search_error(c) = "Ok"
      PROVE  SidesOK(d) /\ Remaining(d) = ReachedFrom(c)
  <2>1. lo # None /\ ~(lo > hi) /\ r # None
    BY <1>2, <1>4
  <2>2. /\ h \in Candidates!Address /\ lo \in Candidates!Address
        /\ hi \in Candidates!Address /\ lo % Granularity = 0 /\ lo <= hi
        /\ hi <= Candidates!align_down(UsizeMax, Granularity)
        /\ r # Candidates!None
    <3>1. lo \in Nat /\ hi \in Nat
      BY <1>1, <2>1, Numbers
    <3>. QED  BY <1>1, <2>1, <3>1
              DEF h, Candidates!Address, Address, Candidates!align_down,
                  align_down, Candidates!None, None
  <2>3. /\ Candidates!IterOK(h, lo, hi, l, u)
        /\ Candidates!Rest(lo, hi, l, u) =
             {b \in Candidates!Address : /\ b % Granularity = 0
                                         /\ lo <= b /\ b <= hi}
    <3>. HIDE DEF h
    <3>. QED  BY <1>3, <2>2, CandidatesAssumptions, Candidates!NewIterator
  <2>4. Minimum(d) = lo /\ Maximum(d) = hi
    BY SameBounds DEF lo, hi
  <2>5. SidesOK(d)
    BY <2>3, <2>4 DEF SidesOK, h, l, u
  <2>6. Remaining(d) = Candidates!Rest(lo, hi, l, u)
    BY <2>4, RemainingIsRest DEF l, u
  <2>. QED  BY <1>1, <2>1, <2>3, <2>5, <2>6 DEF Candidates!Address, Address
<1>5. ASSUME search_error(c) = "NoMemoryCave"
      PROVE  ReachedFrom(c) = {}
  <2>1. lo # None /\ lo > hi
    BY <1>2, <1>5
  <2>2. lo \in Nat /\ hi \in Nat /\ \A b \in Address : b \in Nat
    BY <1>1, <2>1, Numbers
  <2>3. \A b \in Address : ~(lo <= b /\ b <= hi)
    BY <2>1, <2>2
  <2>4. ReachedFrom(c) = {b \in Address : /\ b % Granularity = 0
                                         /\ lo <= b /\ b <= hi}
    BY <1>1, <2>1
  <2>. QED  BY <2>3, <2>4
<1>. QED  BY <1>4, <1>5

(* One request takes the nearest place left and leaves the others. *)
LEMMA NearestTaken ==
    ASSUME NEW c, c.address \in Address,
           c.address + NEAR_JUMP_SIZE <= UsizeMax,
           Minimum(c) # None, SidesOK(c),
           c.lower # None \/ c.upper # None,
           NEW takes_lower,
           takes_lower = take_lower(c.address, c.lower, c.upper),
           NEW b, b = (IF takes_lower THEN c.lower ELSE c.upper),
           NEW d, d.address = c.address,
           d.lower = (IF takes_lower
                      THEN below(c.lower, Minimum(c), Granularity)
                      ELSE c.lower),
           d.upper = (IF takes_lower
                      THEN c.upper
                      ELSE above(c.upper, Maximum(c), Granularity))
    PROVE  /\ SidesOK(d)
           /\ b \in Remaining(c) /\ Nearest(b, c)
           /\ Remaining(d) = Remaining(c) \ {b}
<1>. DEFINE h == c.address
            lo == Minimum(c)
            hi == Maximum(c)
            l == c.lower
            u == c.upper
            rest == Candidates!Rest(lo, hi, l, u)
<1>1. /\ h \in Candidates!Address /\ lo \in Candidates!Address
      /\ hi \in Candidates!Address /\ lo % Granularity = 0
  BY SearchBounds DEF Candidates!Address, Address
<1>2. Candidates!IterOK(h, lo, hi, l, u)
  BY DEF SidesOK
<1>3. Minimum(d) = lo /\ Maximum(d) = hi
  BY SameBounds
<1>4. /\ Remaining(c) = rest
      /\ Remaining(d) = Candidates!Rest(lo, hi, d.lower, d.upper)
      /\ SidesOK(d) <=> Candidates!IterOK(h, lo, hi, d.lower, d.upper)
  BY <1>3, RemainingIsRest DEF SidesOK
<1>5. takes_lower <=> Candidates!take_lower(h, l, u)
  BY DEF take_lower, abs_diff, Lesser, Greater, None,
         Candidates!take_lower, Candidates!abs_diff, Candidates!Lesser,
         Candidates!Greater, Candidates!None
<1>6. ASSUME NEW x, NEW y  PROVE Candidates!abs_diff(x, y) = abs_diff(x, y)
  BY DEF abs_diff, Lesser, Greater, Candidates!abs_diff, Candidates!Lesser,
         Candidates!Greater
<1>7. CASE takes_lower
  <2>1. l # Candidates!None
    BY <1>5, <1>7 DEF Candidates!take_lower
  <2>2. d.lower = Candidates!below(l, lo, Granularity)
    BY <1>7 DEF below, Candidates!below, None, Candidates!None
  <2>3. d.upper = u /\ b = l
    BY <1>7
  <2>. DEFINE m == d.lower
  <2>. HIDE DEF h, lo, hi, l, u, m, rest
  <2>4. /\ Candidates!IterOK(h, lo, hi, m, u)
        /\ l \in Candidates!Rest(lo, hi, l, u)
        /\ Candidates!Rest(lo, hi, m, u) =
             Candidates!Rest(lo, hi, l, u) \ {l}
    BY <1>1, <1>2, <2>1, <2>2, CandidatesAssumptions, Candidates!StepDown
       DEF m
  <2>5. ASSUME NEW x \in rest  PROVE abs_diff(l, h) <= abs_diff(x, h)
    BY <1>1, <1>2, <1>5, <1>6, <1>7, CandidatesAssumptions,
       Candidates!NearerEnd DEF rest
  <2>. QED  BY <1>4, <2>3, <2>4, <2>5 DEF Nearest, rest, m, h
<1>8. CASE ~takes_lower
  <2>1. u # Candidates!None
    BY <1>8 DEF take_lower, None, Candidates!None
  <2>2. d.upper = Candidates!above(u, hi, Granularity)
    BY <1>8 DEF above, Candidates!above, None, Candidates!None, checked_add,
                Candidates!checked_add
  <2>3. d.lower = l /\ b = u
    BY <1>8
  <2>. DEFINE m == d.upper
  <2>. HIDE DEF h, lo, hi, l, u, m, rest
  <2>4. /\ Candidates!IterOK(h, lo, hi, l, m)
        /\ u \in Candidates!Rest(lo, hi, l, u)
        /\ Candidates!Rest(lo, hi, l, m) =
             Candidates!Rest(lo, hi, l, u) \ {u}
    BY <1>1, <1>2, <2>1, <2>2, CandidatesAssumptions, Candidates!StepUp
       DEF m
  <2>5. ASSUME NEW x \in rest  PROVE abs_diff(u, h) <= abs_diff(x, h)
    BY <1>1, <1>2, <1>5, <1>6, <1>8, <2>1, CandidatesAssumptions,
       Candidates!NearerEnd DEF rest
  <2>. QED  BY <1>4, <2>3, <2>4, <2>5 DEF Nearest, rest, m, h
<1>. QED  BY <1>7, <1>8

(* The step takes the search on, and leaves its ends in order. *)
GoesOn(c, d, result) ==
    /\ Ordered(c, d, result)
    /\ d.phase \in {"next", "build"} => SidesOK(d)

(* A session that takes no step goes on with its search. *)
LEMMA StaysOrdered ==
    ASSUME SearchInv, NEW t \in Sessions, call'[t] = call[t]
    PROVE  GoesOn(call[t], call'[t], answer'[t])
BY DEF GoesOn, Ordered, SearchInv

LEMMA RequestGoesOn ==
    ASSUME IInv, SearchInv, NEW s \in Sessions, Request(s) \/ DropSession(s),
           NEW t \in Sessions
    PROVE  GoesOn(call[t], call'[t], answer'[t])
<1>1. call \in [Sessions -> Call]
  BY DEF IInv, TypeOK
<1>2. /\ call[s].phase = "idle"
      /\ \E d : /\ call' = [call EXCEPT ![s] = d]
                /\ d.phase \in {"idle", "pages", "dropped"}
  <2>1. ASSUME NEW error, Fail(s, error)
        PROVE  call' = [call EXCEPT ![s] = Idle]
    BY <2>1 DEF Fail, Answer
  <2>2. ASSUME NEW address \in Sites, NEW size \in Sizes,
               Overwrite(s, address, size)
        PROVE  call[s] = Idle /\ call' = [call EXCEPT ![s] = Idle]
    BY <2>2 DEF Overwrite, Fail, Answer
  <2>3. ASSUME NEW address, NEW size, NEW builder,
               prepare_detour(s, address, size, builder)
        PROVE  \E d : /\ call' = [call EXCEPT ![s] = d]
                      /\ d.phase \in {"idle", "pages"}
    <3>. DEFINE d == [phase |-> "pages", address |-> address, size |-> size,
                      builder |-> builder, cursor |-> 1]
    <3>1. d.phase = "pages"
      OBVIOUS
    <3>2. \/ call' = [call EXCEPT ![s] = Idle]
          \/ call' = [call EXCEPT ![s] = d]
      BY <2>1, <2>3 DEF prepare_detour
    <3>. HIDE DEF d
    <3>. QED  BY <3>1, <3>2, IdleOK
  <2>4. ASSUME NEW address \in Sites, NEW size \in Sizes, NEW n \in CallSizes,
               PatchCall(s, address, size, n)
        PROVE  /\ call[s] = Idle
               /\ \E d : /\ call' = [call EXCEPT ![s] = d]
                         /\ d.phase \in {"idle", "pages"}
    BY <2>1, <2>3, <2>4, IdleOK DEF PatchCall
  <2>5. ASSUME NEW address \in Sites, NEW size \in Sizes, NEW b \in Builders,
               DetourWith(s, address, size, b)
        PROVE  /\ call[s] = Idle
               /\ \E d : /\ call' = [call EXCEPT ![s] = d]
                         /\ d.phase \in {"idle", "pages"}
    BY <2>1, <2>3, <2>5, IdleOK DEF DetourWith
  <2>6. CASE Request(s)
    BY <2>2, <2>4, <2>5, <2>6, IdleOK DEF Request
  <2>7. CASE DropSession(s)
    BY <2>7, IdleOK DEF DropSession
  <2>. QED  BY <2>6, <2>7
<1>3. PICK d : /\ call' = [call EXCEPT ![s] = d]
               /\ d.phase \in {"idle", "pages", "dropped"}
  BY <1>2
<1>4. /\ call'[s].phase \in {"idle", "pages", "dropped"}
      /\ t # s => call'[t] = call[t]
  BY <1>1, <1>3
<1>5. CASE t = s
  BY <1>2, <1>4, <1>5 DEF GoesOn, Ordered
<1>. QED  BY <1>4, <1>5, StaysOrdered

LEMMA TryPageGoesOn ==
    ASSUME IInv, SearchInv, NEW s \in Sessions, TryPage(s)
    PROVE  GoesOn(call[s], call'[s], answer'[s])
<1>. DEFINE c == call[s]
            page == pages[s][c.cursor]
            slot == slot_range(page.used, c.builder.size, PageSize)
            result == SlotResult(c, page, slot)
            at == page.base + slot.start
<1>1. /\ c.phase = "pages" /\ c.cursor \in DOMAIN pages[s]
      /\ \/ result = "next page" /\ NextPage(s)
         \/ result \in Errors /\ Fail(s, result)
         \/ result = "Ok" /\ PlaceTrampoline(s, at, at)
  BY DEF TryPage
<1>2. /\ c \in Call /\ c.builder \in Builder /\ page \in MutableCodePage
      /\ call \in [Sessions -> Call]
      /\ answer \in [Sessions -> Errors \cup {"none", "Ok"}]
  BY <1>1, CallShape, PageShape DEF IInv, TypeOK, Searching
<1>3. result # "NoMemoryCave"
  <2>. HIDE DEF c, page, slot
  <2>. QED  BY <1>2, SlotResults DEF slot
<1>. HIDE DEF result, page, slot, at
<1>4. ASSUME NEW error, Answer(s, error)
      PROVE  call'[s].phase = "idle" /\ answer'[s] = error
  BY <1>2, <1>4, IdleOK DEF Answer
<1>5. CASE NextPage(s)
  <2>1. c \in PagesCall
    BY <1>1, <1>2, CallShape
  <2>2. call'[s] = [c EXCEPT !.cursor = @ + 1]
    BY <1>2, <1>5 DEF NextPage
  <2>3. call'[s].phase = "pages"
    <3>. HIDE DEF c
    <3>. QED  BY <2>1, <2>2, Advanced
  <2>. QED  BY <1>1, <2>3 DEF GoesOn, Ordered
<1>6. CASE Fail(s, result)
  <2>1. Answer(s, result)
    BY <1>6 DEF Fail
  <2>2. call'[s].phase = "idle" /\ answer'[s] # "NoMemoryCave"
    BY <1>3, <1>4, <2>1
  <2>. QED  BY <1>1, <2>2 DEF GoesOn, Ordered
<1>7. CASE PlaceTrampoline(s, at, at)
  <2>1. Answer(s, "Ok") \/ Answer(s, "RelativeJumpOutOfRange")
    BY <1>7 DEF PlaceTrampoline
  <2>2. call'[s].phase = "idle" /\ answer'[s] # "NoMemoryCave"
    BY <1>4, <2>1
  <2>. QED  BY <1>1, <2>2 DEF GoesOn, Ordered
<1>. QED  BY <1>1, <1>5, <1>6, <1>7

LEMMA SearchPlacesGoesOn ==
    ASSUME IInv, SearchInv, NEW s \in Sessions, SearchPlaces(s)
    PROVE  GoesOn(call[s], call'[s], answer'[s])
<1>. DEFINE c == call[s]
            lower == new_lower(c.address, Minimum(c), Maximum(c), Granularity)
            upper == new_upper(c.address, Minimum(c), Maximum(c), Granularity)
            d == [phase |-> "next", address |-> c.address, size |-> c.size,
                  builder |-> c.builder, lower |-> lower, upper |-> upper]
<1>1. /\ c.phase = "pages"
      /\ \/ search_error(c) # "Ok" /\ Fail(s, search_error(c))
         \/ search_error(c) = "Ok" /\ call' = [call EXCEPT ![s] = d]
  BY DEF SearchPlaces
<1>2. /\ c.address \in Address /\ c.address + NEAR_JUMP_SIZE <= UsizeMax
      /\ call \in [Sessions -> Call]
      /\ answer \in [Sessions -> Errors \cup {"none", "Ok"}]
  <2>1. c \in Call /\ CallOK(c)
    BY DEF IInv, TypeOK, CallInv
  <2>2. call \in [Sessions -> Call]
        /\ answer \in [Sessions -> Errors \cup {"none", "Ok"}]
    BY DEF IInv, TypeOK
  <2>. HIDE DEF c
  <2>. QED  BY <1>1, <2>1, <2>2, CallShape DEF CallOK, Searching
<1>3. /\ d.phase = "next" /\ d.address = c.address
      /\ d.lower = lower /\ d.upper = upper
  OBVIOUS
<1>. HIDE DEF d
<1>4. /\ search_error(c) = "Ok" =>
           SidesOK(d) /\ Remaining(d) = ReachedFrom(c)
      /\ search_error(c) = "NoMemoryCave" => ReachedFrom(c) = {}
  <2>. HIDE DEF c
  <2>. QED  BY <1>2, <1>3, SearchStarts
<1>5. CASE Fail(s, search_error(c))
  <2>1. call'[s].phase = "idle" /\ answer'[s] = search_error(c)
    BY <1>2, <1>5, IdleOK DEF Fail, Answer
  <2>. QED  BY <1>1, <1>4, <2>1 DEF GoesOn, Ordered
<1>6. CASE search_error(c) = "Ok" /\ call' = [call EXCEPT ![s] = d]
  <2>1. call'[s] = d
    BY <1>2, <1>6
  <2>. HIDE DEF c
  <2>2. GoesOn(c, d, answer'[s])
    BY <1>1, <1>3, <1>4, <1>6 DEF GoesOn, Ordered
  <2>. QED  BY <2>1, <2>2 DEF c
<1>. QED  BY <1>1, <1>5, <1>6

LEMMA TryCandidateGoesOn ==
    ASSUME IInv, SearchInv, NEW s \in Sessions, TryCandidate(s)
    PROVE  GoesOn(call[s], call'[s], answer'[s])
<1>. DEFINE c == call[s]
            takes_lower == take_lower(c.address, c.lower, c.upper)
            candidate == IF takes_lower THEN c.lower ELSE c.upper
            lower == IF takes_lower
                     THEN below(c.lower, Minimum(c), Granularity)
                     ELSE c.lower
            upper == IF takes_lower
                     THEN c.upper
                     ELSE above(c.upper, Maximum(c), Granularity)
            e == [c EXCEPT !.lower = lower, !.upper = upper]
            b(m) == [phase |-> "build", address |-> c.address,
                     size |-> c.size, builder |-> c.builder,
                     candidate |-> candidate, mapping |-> m,
                     lower |-> lower, upper |-> upper]
<1>1. /\ c.phase = "next" /\ (c.lower # None \/ c.upper # None)
      /\ \/ call' = [call EXCEPT ![s].lower = lower, ![s].upper = upper]
         \/ \E m \in Granules : call' = [call EXCEPT ![s] = b(m)]
  BY DEF TryCandidate
<1>2. /\ c \in NextCall /\ CallOK(c) /\ c.address \in Address
      /\ call \in [Sessions -> Call]
  <2>1. c \in Call /\ CallOK(c) /\ call \in [Sessions -> Call]
    BY DEF IInv, TypeOK, CallInv
  <2>. HIDE DEF c
  <2>. QED  BY <1>1, <2>1, CallShape DEF Searching
<1>3. /\ c.address + NEAR_JUMP_SIZE <= UsizeMax /\ Minimum(c) # None
      /\ SidesOK(c)
  <2>1. SidesOK(c)
    BY <1>1 DEF SearchInv
  <2>. HIDE DEF c
  <2>. QED  BY <1>1, <1>2, <2>1 DEF CallOK, Searching
<1>4. call'[s] = e \/ \E m \in Granules : call'[s] = b(m)
  BY <1>1, <1>2
<1>. HIDE DEF c
<1>5. ASSUME NEW d, d = e \/ \E m \in Granules : d = b(m)
      PROVE  /\ d.address = c.address /\ d.lower = lower /\ d.upper = upper
             /\ d.phase \in {"next", "build"}
             /\ d.phase = "build" => d.candidate = candidate
  <2>. HIDE DEF lower, upper, candidate
  <2>1. /\ e.address = c.address /\ e.lower = lower /\ e.upper = upper
        /\ e.phase = "next"
    BY <1>2 DEF NextCall
  <2>2. \A m \in Granules :
          /\ b(m).address = c.address /\ b(m).lower = lower
          /\ b(m).upper = upper /\ b(m).phase = "build"
          /\ b(m).candidate = candidate
    OBVIOUS
  <2>. HIDE DEF e, b
  <2>. QED  BY <1>5, <2>1, <2>2
<1>6. PICK d : d = call'[s]
  OBVIOUS
<1>7. /\ d.address = c.address /\ d.lower = lower /\ d.upper = upper
      /\ d.phase \in {"next", "build"}
      /\ d.phase = "build" => d.candidate = candidate
  <2>. HIDE DEF e, b, lower, upper, candidate
  <2>. QED  BY <1>4, <1>5, <1>6
<1>8. /\ SidesOK(d)
      /\ candidate \in Remaining(c) /\ Nearest(candidate, c)
      /\ Remaining(d) = Remaining(c) \ {candidate}
  <2>. DEFINE takes == takes_lower
  <2>1. takes = take_lower(c.address, c.lower, c.upper)
    OBVIOUS
  <2>. QED  BY <1>1, <1>2, <1>3, <1>7, NearestTaken
<1>. HIDE DEF candidate
<1>9. GoesOn(c, d, answer'[s])
  BY <1>1, <1>7, <1>8 DEF GoesOn, Ordered
<1>. QED  BY <1>6, <1>9 DEF c

LEMMA BuildGoesOn ==
    ASSUME IInv, SearchInv, NEW s \in Sessions, BuildInNewPage(s)
    PROVE  GoesOn(call[s], call'[s], answer'[s])
<1>. DEFINE c == call[s]
            d == [phase |-> "next", address |-> c.address, size |-> c.size,
                  builder |-> c.builder, lower |-> c.lower, upper |-> c.upper]
<1>1. /\ c.phase = "build"
      /\ call' = [call EXCEPT ![s] = d] \/ call' = [call EXCEPT ![s] = Idle]
  BY DEF BuildInNewPage, Fail, Answer, PlaceTrampoline
<1>2. call'[s] = d \/ call'[s] = Idle
  BY <1>1 DEF IInv, TypeOK
<1>3. SidesOK(c)
  BY <1>1 DEF SearchInv
<1>4. /\ d.phase = "next" /\ d.address = c.address
      /\ d.lower = c.lower /\ d.upper = c.upper
  OBVIOUS
<1>. HIDE DEF c, d
<1>5. Remaining(d) = Remaining(c) /\ SidesOK(d)
  <2>1. Minimum(d) = Minimum(c) /\ Maximum(d) = Maximum(c)
    BY <1>4, SameBounds
  <2>. QED  BY <1>3, <1>4, <2>1 DEF Remaining, SidesOK
<1>6. CASE call'[s] = d
  <2>1. GoesOn(c, d, answer'[s])
    BY <1>1, <1>4, <1>5 DEF GoesOn, Ordered
  <2>. QED  BY <1>6, <2>1 DEF c
<1>7. CASE call'[s] = Idle
  BY <1>1, <1>7, IdleOK DEF GoesOn, Ordered, c
<1>. QED  BY <1>2, <1>6, <1>7

LEMMA ExhaustedGoesOn ==
    ASSUME IInv, SearchInv, NEW s \in Sessions, Exhausted(s)
    PROVE  GoesOn(call[s], call'[s], answer'[s])
<1>. DEFINE c == call[s]
<1>1. /\ c.phase = "next" /\ c.lower = None /\ c.upper = None
      /\ call'[s] = Idle /\ answer'[s] = "NoMemoryCave"
  BY DEF Exhausted, Fail, Answer, IInv, TypeOK
<1>2. Remaining(c) = {}
  BY <1>1 DEF Remaining
<1>. QED  BY <1>1, <1>2, IdleOK DEF GoesOn, Ordered

(* Only the session that takes the step leaves its call. *)
LEMMA AllocateElsewhere ==
    ASSUME IInv, NEW s \in Sessions, Allocate(s),
           NEW t \in Sessions, t # s
    PROVE  call'[t] = call[t]
<1>1. call \in [Sessions -> Call]
  BY DEF IInv, TypeOK
<1>2. CASE TryPage(s)
  BY <1>1, <1>2 DEF TryPage, NextPage, Fail, Answer, PlaceTrampoline
<1>3. CASE SearchPlaces(s)
  BY <1>1, <1>3 DEF SearchPlaces, Fail, Answer
<1>4. CASE TryCandidate(s)
  BY <1>1, <1>4 DEF TryCandidate
<1>5. CASE BuildInNewPage(s)
  BY <1>1, <1>5 DEF BuildInNewPage, Fail, Answer, PlaceTrampoline
<1>6. CASE Exhausted(s)
  BY <1>1, <1>6 DEF Exhausted, Fail, Answer
<1>. QED  BY <1>2, <1>3, <1>4, <1>5, <1>6 DEF Allocate

LEMMA NextGoesOn ==
    ASSUME IInv, SearchInv, [Next]_vars, NEW t \in Sessions
    PROVE  GoesOn(call[t], call'[t], answer'[t])
<1>1. CASE UNCHANGED vars
  BY <1>1, StaysOrdered DEF vars
<1>2. ASSUME NEW s \in Sessions, Request(s) \/ DropSession(s)
      PROVE  GoesOn(call[t], call'[t], answer'[t])
  BY <1>2, RequestGoesOn
<1>3. ASSUME NEW s \in Sessions, Allocate(s)
      PROVE  GoesOn(call[t], call'[t], answer'[t])
  <2>1. CASE t = s
    BY <1>3, <2>1, TryPageGoesOn, SearchPlacesGoesOn, TryCandidateGoesOn,
       BuildGoesOn, ExhaustedGoesOn DEF Allocate
  <2>2. CASE t # s
    BY <1>3, <2>2, AllocateElsewhere, StaysOrdered
  <2>. QED  BY <2>1, <2>2
<1>. QED  BY <1>1, <1>2, <1>3 DEF Next, Finished

(***************************************************************************)
(* The two ends of every search stay on their side of its hook, within the *)
(* bounds, on places a page can have (relative_jump.rs 73-151).            *)
(***************************************************************************)
THEOREM SearchInvariance == Spec => []SearchInv
<1>1. Init => SearchInv
  BY IdleOK DEF Init, SearchInv
<1>2. IInv /\ SearchInv /\ [Next]_vars => SearchInv'
  <2>. SUFFICES ASSUME IInv, SearchInv, [Next]_vars,
                       NEW s \in Sessions,
                       call'[s].phase \in {"next", "build"}
                PROVE  SidesOK(call[s])'
    BY DEF SearchInv
  <2>1. SidesOK(call'[s])
    BY NextGoesOn DEF GoesOn
  <2>. QED  BY <2>1 DEF SidesOK, Minimum, Maximum
<1>. QED  BY <1>1, <1>2, Invariance, PTL DEF Spec

(***************************************************************************)
(* In every session, whatever the others do: a search starts with every    *)
(* place its hook reaches, asks for the nearest one left each time, loses  *)
(* none when a page is given back, and NoMemoryCave means that all were    *)
(* tried (session.rs 158-173 and 198-221).                                 *)
(***************************************************************************)
THEOREM EveryPlaceNearestFirst == Spec => SearchesNearestFirst
<1>. DEFINE Step == \A s \in Sessions : Ordered(call[s], call'[s], answer'[s])
<1>1. IInv /\ SearchInv /\ [Next]_vars => [Step]_vars
  BY NextGoesOn DEF GoesOn
<1>. QED  BY <1>1, Invariance, SearchInvariance, PTL
          DEF Spec, SearchesNearestFirst
=============================================================================
