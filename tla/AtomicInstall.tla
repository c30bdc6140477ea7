---------------------------- MODULE AtomicInstall ----------------------------
(***************************************************************************)
(* What PatchSession::install_permanently promises, without its mutex, its *)
(* registry, its pages and its system calls: the patches of a session      *)
(* become permanent all together or not at all, one session at a time, and *)
(* the result says what a caller may rely on.  PatchInstall implements it. *)
(***************************************************************************)
EXTENDS AddressSpace, Sequences

CONSTANTS
    Sessions,
    Replacements,       \* byte strings a patch may install
    InitialCode,        \* the host's code before any patch
    HostCells, Data,    \* addresses the host may rewrite, and with what
    HostRaces           \* may the host write between check and replacement?

VARIABLES patches, phase, result, mem

vars == <<patches, phase, result, mem>>

Source(patch) == Cells(patch.address, Len(patch.replacement))
Overlap(p, q) == RangesOverlap(p.address, Len(p.replacement),
                               q.address, Len(q.replacement))
Holds(patch, content) ==
    \A k \in DOMAIN content : mem[patch.address + k - 1] = content[k]

(* Sessions whose patches are permanent, being written or all in place. *)
Permanent == {s \in Sessions : phase[s] \in {"committed", "installed"}}

(* A patch of s overlaps one that is permanent. *)
Collides(s) ==
    \E t \in Permanent : \E p \in patches[s], q \in patches[t] : Overlap(p, q)

(* Errors found before anything is permanent, results of what is. *)
Refusals == {"Mapping", "InstructionCache", "OverlappingPatch",
             "SourceChanged", "Protection"}
Completions == {"Ok", "Panic", "InstructionCache", "Protection"}

Init ==
    /\ patches = [s \in Sessions |-> {}]
    /\ phase = [s \in Sessions |-> "open"]
    /\ result = [s \in Sessions |-> "none"]
    /\ mem = InitialCode

(* A patch remembers the code it will replace. *)
Prepare(s) ==
    /\ phase[s] = "open"
    /\ \E address \in Address, replacement \in Replacements :
         LET patch == [address |-> address, replacement |-> replacement,
                       expected |-> [k \in DOMAIN replacement |->
                                       mem[address + k - 1]]]
         IN /\ checked_add(address, Len(replacement)) # None
            /\ \A q \in patches[s] : ~Overlap(patch, q)
            /\ patches' = [patches EXCEPT ![s] = @ \cup {patch}]
    /\ UNCHANGED <<phase, result, mem>>

End(s, last, outcome) ==
    /\ phase' = [phase EXCEPT ![s] = last]
    /\ result' = [result EXCEPT ![s] = outcome]
    /\ UNCHANGED <<patches, mem>>

Drop(s) == phase[s] = "open" /\ End(s, "refused", "Dropped")

Call(s) ==
    /\ phase[s] = "open"
    /\ phase' = [phase EXCEPT ![s] = "called"]
    /\ UNCHANGED <<patches, result, mem>>

Refuse(s) ==
    /\ phase[s] = "called"
    /\ \E error \in Refusals :
         /\ error = "OverlappingPatch" => Collides(s)
         /\ End(s, "refused", error)

(* All patches become permanent at once; no other session is at it. *)
Commit(s) ==
    /\ phase[s] = "called"
    /\ \A t \in Sessions : phase[t] # "committed"
    /\ ~Collides(s)
    /\ HostRaces \/ \A patch \in patches[s] : Holds(patch, patch.expected)
    /\ phase' = [phase EXCEPT ![s] = "committed"]
    /\ UNCHANGED <<patches, result, mem>>

Write(s) ==
    /\ phase[s] = "committed"
    /\ \E patch \in patches[s] :
         mem' = [a \in Address |->
                   IF a \in Source(patch)
                   THEN patch.replacement[a - patch.address + 1] ELSE mem[a]]
    /\ UNCHANGED <<patches, phase, result>>

(* Whatever the result says, every patch is in place. *)
Complete(s) ==
    /\ phase[s] = "committed"
    /\ \A patch \in patches[s] : Holds(patch, patch.replacement)
    /\ \E outcome \in Completions : End(s, "installed", outcome)

(* The host rewrites code of its own, never an installed patch. *)
HostWrite(a, b) ==
    /\ \A s \in Permanent : \A patch \in patches[s] : a \notin Source(patch)
    /\ mem' = [mem EXCEPT ![a] = b]
    /\ UNCHANGED <<patches, phase, result>>

Next ==
    \/ \E s \in Sessions :
         \/ Prepare(s) \/ Drop(s) \/ Call(s) \/ Refuse(s)
         \/ Commit(s) \/ Write(s) \/ Complete(s)
    \/ \E a \in HostCells, b \in Data : HostWrite(a, b)

Spec == Init /\ [][Next]_vars
=============================================================================
