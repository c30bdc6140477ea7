----------------------------- MODULE Trampoline -----------------------------
(***************************************************************************)
(* The trampoline builder of src/src/trampoline.rs.  A caller appends      *)
(* instructions, creates labels and binds them to positions, in any order, *)
(* and then has the code built for an address.  A branch is appended as an *)
(* opcode and a displacement of zero bytes, with a fixup that says where   *)
(* the displacement is and what it must reach; build resolves the fixups.  *)
(*                                                                         *)
(* A byte is what it is for: opaque data, an opcode, or one byte of the    *)
(* encoding of a displacement.                                             *)
(***************************************************************************)
EXTENDS RelativeJump, Sequences, FiniteSets

CONSTANTS
    Trampolines,        \* the Trampoline values of the process
    DataLengths,        \* lengths of bytes and of preserved calls
    ABSOLUTE_CALL_SIZE, \* 16 in the source
    ABSOLUTE_JUMP_SIZE, \* 14 in the source
    DISPLACEMENT_SIZE,  \* 4 in the source
    Destinations,       \* addresses callers jump to
    ForeignLabels,      \* may a label be used with another trampoline?
    MaxCode, MaxLabels  \* bounds on the code and the labels of a trampoline

ASSUME TrampolineAssumption ==
    /\ DataLengths \subseteq Nat
    /\ {ABSOLUTE_CALL_SIZE, ABSOLUTE_JUMP_SIZE} \subseteq Nat
    /\ DISPLACEMENT_SIZE \in Nat \ {0}
    /\ Destinations \subseteq Address
    /\ ForeignLabels \in BOOLEAN
    /\ {MaxCode, MaxLabels} \subseteq Nat

VARIABLES
    code,               \* Vec<u8>
    labels,             \* Vec<Option<usize>>, here counted from 1
    relative_fixups,    \* Vec<RelativeFixup>
    asked               \* the branches the caller appended, as instructions

vars == <<code, labels, relative_fixups, asked>>

Data == [kind |-> "data", value |-> 0, part |-> 0]
Opcode == [kind |-> "opcode", value |-> 0, part |-> 0]
(* i32::to_le_bytes *)
Encoding(displacement) ==
    [k \in 1 .. DISPLACEMENT_SIZE |->
        [kind |-> "displacement", value |-> displacement, part |-> k]]

Byte == {Data, Opcode} \cup {Encoding(0)[k] : k \in 1 .. DISPLACEMENT_SIZE}

(* A label is its index; home is the trampoline that created it. *)
Label == [index : 1 .. MaxLabels, home : Trampolines]
ToAddress(a) == [kind |-> "address", value |-> a]
ToLabel(label) == [kind |-> "label", value |-> label.index]
Target == [kind : {"address", "label"}, value : Nat]
RelativeFixup == [displacement_offset : Nat, next_instruction_offset : Nat,
                  target : Target]

(* Labels and displacements lie in the code: build's slice never panics.   *)
TypeOK ==
    /\ code \in [Trampolines -> Seq(Byte)]
    /\ labels \in [Trampolines -> Seq(Nat \cup {None})]
    /\ relative_fixups \in [Trampolines -> Seq(RelativeFixup)]
    /\ \A t \in Trampolines :
         /\ \A i \in DOMAIN labels[t] : labels[t][i] <= Len(code[t])
         /\ \A i \in DOMAIN relative_fixups[t] :
              relative_fixups[t][i].displacement_offset + DISPLACEMENT_SIZE
                <= Len(code[t])

Init ==
    /\ code = [t \in Trampolines |-> <<>>]
    /\ labels = [t \in Trampolines |-> <<>>]
    /\ relative_fixups = [t \in Trampolines |-> <<>>]
    /\ asked = [t \in Trampolines |-> <<>>]
-----------------------------------------------------------------------------
(* Instructions that do not depend on the address.                         *)

Extend(t, n) ==
    /\ Len(code[t]) + n <= MaxCode
    /\ code' = [code EXCEPT ![t] = @ \o [i \in 1 .. n |-> Data]]
    /\ UNCHANGED <<labels, relative_fixups, asked>>

bytes(t) == \E n \in DataLengths : Extend(t, n)
preserved_call(t) == \E n \in DataLengths : Extend(t, n)
absolute_call(t) == Extend(t, ABSOLUTE_CALL_SIZE)
absolute_jump(t) == Extend(t, ABSOLUTE_JUMP_SIZE)
-----------------------------------------------------------------------------
(* Labels.                                                                 *)

new_label(t) ==
    /\ Len(labels[t]) < MaxLabels
    /\ labels' = [labels EXCEPT ![t] = Append(@, None)]
    /\ UNCHANGED <<code, relative_fixups, asked>>

(* A caller has the label, and uses it with t. *)
Usable(label, t) ==
    /\ label.index \in DOMAIN labels[label.home]
    /\ label.home = t \/ ForeignLabels

(* The errors InvalidLabel and LabelAlreadyBound change nothing. *)
bind(t, label) ==
    /\ label.index \in DOMAIN labels[t]
    /\ labels[t][label.index] = None
    /\ labels' = [labels EXCEPT ![t][label.index] = Len(code[t])]
    /\ UNCHANGED <<code, relative_fixups, asked>>
-----------------------------------------------------------------------------
(* Branches.                                                               *)

(* Mutant: the displacement is looked for after its four bytes. *)
fixup_after_displacement(offset, target) ==
    [displacement_offset |-> offset + DISPLACEMENT_SIZE,
     next_instruction_offset |-> offset + DISPLACEMENT_SIZE,
     target |-> target]

(* Mutant: the displacement counts from where it starts. *)
fixup_from_displacement(offset, target) ==
    [displacement_offset |-> offset,
     next_instruction_offset |-> offset,
     target |-> target]

fixup(offset, target) ==
    [displacement_offset |-> offset,
     next_instruction_offset |-> offset + DISPLACEMENT_SIZE,
     target |-> target]

(* The opcode, then push_relative_fixup.  asked is a ghost: the caller's   *)
(* instruction starts at start and ends at end.                            *)
push_branch(t, opcode_size, target, meant) ==
    LET start == Len(code[t])
        end == start + opcode_size + DISPLACEMENT_SIZE
    IN /\ end <= MaxCode
       /\ code' = [code EXCEPT ![t] =
            @ \o [i \in 1 .. opcode_size |-> Opcode] \o Encoding(0)]
       /\ relative_fixups' = [relative_fixups EXCEPT ![t] =
            Append(@, fixup(start + opcode_size, target))]
       /\ asked' = [asked EXCEPT ![t] =
            Append(@, [start |-> start, end |-> end, meant |-> meant])]
       /\ UNCHANGED labels

relative_jump(t, destination) ==
    push_branch(t, 1, ToAddress(destination), ToAddress(destination))
jump_to(t, label) == push_branch(t, 1, ToLabel(label), label)
jump_if(t, label) == push_branch(t, 2, ToLabel(label), label)
-----------------------------------------------------------------------------
(* build: pure, for any address.                                           *)

Value(v) == [error |-> "Ok", value |-> v]
Error(e) == [error |-> e, value |-> None]

(* Mutant: a label that was never bound is the start of the code. *)
resolve_unbound_to_start(t, target, address) ==
    IF target.kind = "address" THEN Value(target.value)
    ELSE IF target.value \notin DOMAIN labels[t] THEN Error("InvalidLabel")
    ELSE Value(address + Greater(labels[t][target.value], 0))

(* Where a fixup leads from a trampoline at address. *)
resolve(t, target, address) ==
    IF target.kind = "address" THEN Value(target.value)
    ELSE IF target.value \notin DOMAIN labels[t] THEN Error("InvalidLabel")
    ELSE IF labels[t][target.value] = None THEN Error("UnboundLabel")
    ELSE IF checked_add(address, labels[t][target.value]) = None
    THEN Error("AddressOverflow")
    ELSE Value(address + labels[t][target.value])

(* The displacement of a fixup, or the error that ends build's loop. *)
displacement(t, f, address) ==
    LET target == resolve(t, f.target, address)
        next_instruction == checked_add(address, f.next_instruction_offset)
    IN IF target.error # "Ok" THEN target
       ELSE IF next_instruction = None THEN Error("AddressOverflow")
       ELSE IF ~relative_offset_fits(next_instruction, target.value)
       THEN Error("RelativeJumpOutOfRange")
       ELSE Value(target.value - next_instruction)

(* The fixups are applied in order to a copy of the code. *)
build(t, address) ==
    LET fixups == relative_fixups[t]
        found == [i \in DOMAIN fixups |-> displacement(t, fixups[i], address)]
        failing == {i \in DOMAIN found : found[i].error # "Ok"}
        first == CHOOSE i \in failing : \A j \in failing : i <= j
        Covering(k) == {i \in DOMAIN fixups :
            k - fixups[i].displacement_offset \in 1 .. DISPLACEMENT_SIZE}
        Latest(S) == CHOOSE i \in S : \A j \in S : j <= i
        Resolved(k) ==
            IF Covering(k) = {} THEN code[t][k]
            ELSE LET i == Latest(Covering(k))
                 IN Encoding(found[i].value)[k - fixups[i].displacement_offset]
    IN IF failing # {}
       THEN [error |-> found[first].error, code |-> <<>>]
       ELSE [error |-> "Ok", code |-> [k \in DOMAIN code[t] |-> Resolved(k)]]

(* The caller builds the trampoline, or hands it to detour_trampoline. *)
Build(t) == UNCHANGED vars
-----------------------------------------------------------------------------
Next ==
    \E t \in Trampolines :
        \/ bytes(t) \/ preserved_call(t) \/ absolute_call(t) \/ absolute_jump(t)
        \/ new_label(t)
        \/ \E label \in {l \in Label : Usable(l, t)} :
             bind(t, label) \/ jump_to(t, label) \/ jump_if(t, label)
        \/ \E destination \in Destinations : relative_jump(t, destination)
        \/ Build(t)

Spec == Init /\ [][Next]_vars
-----------------------------------------------------------------------------
(* Properties.                                                             *)

(* The processor reads a displacement where an instruction ends. *)
Decodes(built, end, v) ==
    SubSeq(built, end - DISPLACEMENT_SIZE + 1, end) = Encoding(v)

(* The address the caller meant, for a trampoline at address. *)
MeantAddress(t, meant, address) ==
    IF "home" \in DOMAIN meant
    THEN address + labels[t][meant.index]
    ELSE meant.value

(***************************************************************************)
(* Executed at the address it was built for, every branch leads where the  *)
(* caller said: to its address, or to where its label was bound, before or *)
(* after the branch was appended.  The displacement is read from the bytes *)
(* that build returns, so the fixups may neither miss their instruction    *)
(* nor touch another one's bytes (trampoline.rs 189-222).                  *)
(***************************************************************************)
BranchesLeadToTargets ==
    \A t \in Trampolines, address \in Address :
        LET built == build(t, address) IN built.error = "Ok" =>
            /\ \A i \in DOMAIN asked[t] :
                 LET branch == asked[t][i] IN
                 \E v \in I32Min .. I32Max :
                     /\ Decodes(built.code, branch.end, v)
                     /\ address + branch.end + v
                          = MeantAddress(t, branch.meant, address)
            /\ \A k \in DOMAIN built.code :
                 \/ built.code[k] = code[t][k]
                 \/ \E i \in DOMAIN asked[t] :
                      k \in asked[t][i].end - DISPLACEMENT_SIZE + 1
                              .. asked[t][i].end

(* What allocate_trampoline is given: its exits leave the code, or cannot  *)
(* be resolved; a branch to a bound label always reaches it.               *)
Closure == INSTANCE Builder

Lost(t, target) ==
    /\ target.kind = "label"
    /\ \/ target.value \notin DOMAIN labels[t]
       \/ labels[t][target.value] = None

(* The fixups that are exits, and the k-th of them. *)
Leaving(t) ==
    {i \in DOMAIN relative_fixups[t] :
        LET target == relative_fixups[t][i].target
        IN target.kind = "address" \/ Lost(t, target)}
Rank(S, i) == Cardinality({j \in S : j <= i})
Nth(S, k) == CHOOSE i \in S : Rank(S, i) = k

AsExit(t, f) ==
    [next |-> f.next_instruction_offset,
     target |-> IF Lost(t, f.target) THEN None ELSE f.target.value]

AsBuilder(t) ==
    [size |-> Len(code[t]), length |-> Len(code[t]), fails |-> FALSE,
     exits |-> [k \in 1 .. Cardinality(Leaving(t)) |->
                  AsExit(t, relative_fixups[t][Nth(Leaving(t), k)])]]

(***************************************************************************)
(* Wherever the allocator may put it, a trampoline within the reach of a   *)
(* displacement builds or fails as the Builder that PatchSession allocates *)
(* for: the same first error, which decides whether the next page is tried *)
(* (trampoline.rs 189-213 and session.rs 119-135).                         *)
(***************************************************************************)
BuildsLikeABuilder ==
    \A t \in Trampolines :
        /\ AsBuilder(t) \in Closure!Builder
        /\ \A address \in Address :
             Len(code[t]) <= I32Max /\ address + Len(code[t]) <= UsizeMax =>
                 LET error == build(t, address).error
                     as_seen == IF error \in {"InvalidLabel", "UnboundLabel"}
                                THEN "BuildFailed" ELSE error
                 IN as_seen = Closure!build(AsBuilder(t), address)

(***************************************************************************)
(* "A trampoline label does not belong to the builder using it"            *)
(* (error.rs 98-99) is reported by build.  It is not when the index exists *)
(* in the builder: the branch leads to that builder's label.               *)
(***************************************************************************)
ForeignLabelsAreReported ==
    \A t \in Trampolines : \A i \in DOMAIN asked[t] :
        "home" \in DOMAIN asked[t][i].meant /\ asked[t][i].meant.home # t =>
            \A address \in Address : build(t, address).error # "Ok"
=============================================================================
