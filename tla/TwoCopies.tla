----------------------------- MODULE TwoCopies -----------------------------
(***************************************************************************)
(* Two copies of the library in one process, as README.md 22-27 warns of:  *)
(* a mod that links Patchy statically, say, beside one that loads the DLL. *)
(* Each copy has a registry and a mutex of its own (session.rs 55-62) and  *)
(* runs PatchInstall without seeing the other's sessions; they share the   *)
(* host's code, its page protections, the instruction cache and the        *)
(* address space.                                                          *)
(***************************************************************************)
EXTENDS AddressSpace, Sequences

CONSTANTS
    Sessions1, Sessions2,       \* the sessions of each copy
    Sites1, Sites2,             \* the addresses each is asked to patch
    NoSession, CodePages, NoPage, Data, Nop, PageSize, NEAR_JUMP_SIZE,
    InitialCode, InitialProtection, Payloads, DetourSizes, MaxPatches

VARIABLES
    \* the first copy
    pages1, pending1, pc1, cursor1, protections1, failure1, restoreFailed1,
    result1, lock1, registry1,
    \* the second copy
    pages2, pending2, pc2, cursor2, protections2, failure2, restoreFailed2,
    result2, lock2, registry2,
    \* what they share
    codePage, mem, protection, stale

vars1 == <<pages1, pending1, pc1, cursor1, protections1, failure1,
           restoreFailed1, result1, lock1, registry1>>
vars2 == <<pages2, pending2, pc2, cursor2, protections2, failure2,
           restoreFailed2, result2, lock2, registry2>>
vars == <<vars1, vars2, codePage, mem, protection, stale>>

Copy1 == INSTANCE PatchInstall WITH
    Sessions <- Sessions1, Sites <- Sites1, HostCells <- {}, HostRaces <- FALSE,
    pages <- pages1, pending <- pending1, pc <- pc1, cursor <- cursor1,
    protections <- protections1, failure <- failure1,
    restoreFailed <- restoreFailed1, result <- result1, lock <- lock1,
    registry <- registry1

Copy2 == INSTANCE PatchInstall WITH
    Sessions <- Sessions2, Sites <- Sites2, HostCells <- {}, HostRaces <- FALSE,
    pages <- pages2, pending <- pending2, pc <- pc2, cursor <- cursor2,
    protections <- protections2, failure <- failure2,
    restoreFailed <- restoreFailed2, result <- result2, lock <- lock2,
    registry <- registry2

(* What PatchInstall assumes of its constants, for both copies. *)
ASSUME CopiesAssumption ==
    /\ NoSession \notin Sessions1 \cup Sessions2
    /\ NoPage \notin CodePages
    /\ Nop \in Data
    /\ PageSize \in Nat \ {0}
    /\ NEAR_JUMP_SIZE \in Nat \ {0}
    /\ MaxPatches \in Nat
    /\ \A p \in CodePages : Copy1!Jump(p) \notin Data
    /\ InitialCode \in [Address -> Data]
    /\ InitialProtection \in [Copy1!PageBases -> Copy1!Protection]
    /\ Payloads \subseteq Seq(Data)
    /\ Sites1 \cup Sites2 \subseteq Address
    /\ DetourSizes \subseteq Nat

(* Both statics start empty, over one address space. *)
Init == Copy1!Init /\ Copy2!Init

(* A thread runs in one copy of the library. *)
Next ==
    \/ Copy1!Next /\ UNCHANGED vars2
    \/ Copy2!Next /\ UNCHANGED vars1

Spec == Init /\ [][Next]_vars
-----------------------------------------------------------------------------
(* Properties: what the copies may count on although neither sees the      *)
(* other.                                                                  *)

SourcePages1 == Copy1!PatchedPages
SourcePages2 == Copy2!PatchedPages

(***************************************************************************)
(* No copy makes the other's jumps dangle: whoever wrote a jump last, its  *)
(* page is permanent, even where the copies' patches overlap, since each   *)
(* unmaps only pages of calls that wrote nothing (session.rs 387-448).     *)
(***************************************************************************)
JumpsStayAlive == Copy1!NoDanglingJump

(***************************************************************************)
(* A copy writes into writable pages as long as the other copy patches     *)
(* nothing in the same pages.  In a shared page it may fault: the other    *)
(* copy restores the page's protection under a mutex of its own            *)
(* (session.rs 299-326), so disjoint patches are not enough.               *)
(***************************************************************************)
UnsharedPagesAreWritable ==
    LET Safe(a) == \/ protection[align_down(a, PageSize)] = Copy1!RWX
                   \/ align_down(a, PageSize)
                        \in SourcePages1 \cap SourcePages2
    IN /\ \A s \in Sessions1 : pc1[s] = "copy" =>
            \A a \in Copy1!SourceCells(s) : Safe(a)
       /\ \A s \in Sessions2 : pc2[s] = "copy" =>
            \A a \in Copy2!SourceCells(s) : Safe(a)

(***************************************************************************)
(* When both copies are quiet, a page that only one of them patched has    *)
(* its original protection or was announced.  A shared page may stay       *)
(* writable in silence: each copy takes what the other one set for the     *)
(* original protection (session.rs 273-296).                               *)
(***************************************************************************)
UnsharedPagesAreRestored ==
    lock1 = NoSession /\ lock2 = NoSession =>
        \A g \in Copy1!PageBases :
            \/ protection[g] = InitialProtection[g]
            \/ g \in SourcePages1 \cap SourcePages2
            \/ \E s \in Sessions1 : g \in Copy1!SourcePages(s) /\
                 result1[s] \in {"Protection", "InstructionCache"}
            \/ \E s \in Sessions2 : g \in Copy2!SourcePages(s) /\
                 result2[s] \in {"Protection", "InstructionCache"}

(***************************************************************************)
(* A byte that one copy patched and the other never prepared a patch for   *)
(* stays what the first copy put there: disjoint patches do not corrupt    *)
(* each other, overlapping ones may (README.md 24-26), since the overlap   *)
(* check looks in the registry of its own copy (session.rs 344-371).       *)
(***************************************************************************)
UnsharedCodeStaysIntact ==
    /\ \A a \in Address \ Copy2!PatchedCells : Copy1!IntactAt(a)
    /\ \A a \in Address \ Copy1!PatchedCells : Copy2!IntactAt(a)
-----------------------------------------------------------------------------
(* The inductive invariant behind the theorems of TwoCopiesProofs.         *)

(* The kernel gives a place for a page to one copy only. *)
PagesApart == Copy1!OwnedPages \cap Copy2!OwnedPages = {}

(* Jumps lead to pages of either registry. *)
JumpInv ==
    \A a \in Address, p \in CodePages : mem[a] = Copy1!Jump(p) =>
        p \in Copy1!PermanentPages \cup Copy2!PermanentPages

(* Each copy accounts for the pages that only it patches. *)
ProtectionInv ==
    /\ \A g \in Copy1!PageBases \ SourcePages2 : Copy1!ProtectionAt(g)
    /\ \A g \in Copy2!PageBases \ SourcePages1 : Copy2!ProtectionAt(g)

IInv ==
    /\ Copy1!OwnInv /\ Copy2!OwnInv
    /\ PagesApart
    /\ JumpInv
    /\ ProtectionInv
    /\ UnsharedCodeStaysIntact
=============================================================================
