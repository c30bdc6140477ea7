-------------------------- MODULE TwoCopiesProofs --------------------------
(***************************************************************************)
(* Proofs about TwoCopies, for any number of sessions in each copy, every  *)
(* address space and every code.  The lemmas of PatchInstallProofs give    *)
(* what one copy relies on and what it guarantees; here each copy's        *)
(* guarantee is shown to give the other what it relies on.                 *)
(***************************************************************************)
EXTENDS TwoCopies, TLAPS

(* The copies of TwoCopies, with the lemmas proved about each. *)
Proofs1 == INSTANCE PatchInstallProofs WITH
    Sessions <- Sessions1, Sites <- Sites1, HostCells <- {}, HostRaces <- FALSE,
    pages <- pages1, pending <- pending1, pc <- pc1, cursor <- cursor1,
    protections <- protections1, failure <- failure1,
    restoreFailed <- restoreFailed1, result <- result1, lock <- lock1,
    registry <- registry1

Proofs2 == INSTANCE PatchInstallProofs WITH
    Sessions <- Sessions2, Sites <- Sites2, HostCells <- {}, HostRaces <- FALSE,
    pages <- pages2, pending <- pending2, pc <- pc2, cursor <- cursor2,
    protections <- protections2, failure <- failure2,
    restoreFailed <- restoreFailed2, result <- result2, lock <- lock2,
    registry <- registry2

(* The constants of each copy are as PatchInstall assumes. *)
LEMMA Assumptions1 ==
    /\ Proofs1!UsizeMaxAssumption
    /\ Proofs1!ConstantsAssumption
    /\ Proofs1!CodeAssumption
BY UsizeMaxAssumption, CopiesAssumption
   DEF Proofs1!UsizeMaxAssumption, Proofs1!ConstantsAssumption,
       Proofs1!CodeAssumption, Address, Copy1!Address, Proofs1!Address,
       Copy1!Jump, Proofs1!Jump, Copy1!PageBases, Proofs1!PageBases,
       Copy1!Protection, Proofs1!Protection, Copy1!RWX, Proofs1!RWX

LEMMA Assumptions2 ==
    /\ Proofs2!UsizeMaxAssumption
    /\ Proofs2!ConstantsAssumption
    /\ Proofs2!CodeAssumption
BY UsizeMaxAssumption, CopiesAssumption
   DEF Proofs2!UsizeMaxAssumption, Proofs2!ConstantsAssumption,
       Proofs2!CodeAssumption, Address, Copy1!Address, Proofs2!Address,
       Copy1!Jump, Proofs2!Jump, Copy1!PageBases, Proofs2!PageBases,
       Copy1!Protection, Proofs2!Protection, Copy1!RWX, Proofs2!RWX
-----------------------------------------------------------------------------
(* TwoCopies and PatchInstallProofs instantiate the same definitions:      *)
(* expanded, both sides of each implication are the same formula.          *)
LEMMA Steps1 ==
    /\ Copy1!Init => Proofs1!Init
    /\ [Copy1!Next]_Copy1!vars => [Proofs1!Next]_Proofs1!vars
BY Zenon
   DEF Copy1!Init, Proofs1!Init, Copy1!Next, Proofs1!Next, Copy1!Prepare,
       Proofs1!Prepare, Copy1!Overwrite, Proofs1!Overwrite,
       Copy1!PrepareDetour, Proofs1!PrepareDetour, Copy1!PushPending,
       Proofs1!PushPending, Copy1!ensure_patch_does_not_overlap,
       Proofs1!ensure_patch_does_not_overlap, Copy1!build_near_jump,
       Proofs1!build_near_jump, Copy1!Goto, Proofs1!Goto, Copy1!Advance,
       Proofs1!Advance, Copy1!Return, Proofs1!Return, Copy1!ReturnUnlocking,
       Proofs1!ReturnUnlocking, Copy1!DropSession, Proofs1!DropSession,
       Copy1!InstallPermanently, Proofs1!InstallPermanently, Copy1!SealPage,
       Proofs1!SealPage, Copy1!FlushPage, Proofs1!FlushPage, Copy1!PagesDone,
       Proofs1!PagesDone, Copy1!LockRegistry, Proofs1!LockRegistry,
       Copy1!OverlapsInstalled, Proofs1!OverlapsInstalled,
       Copy1!CheckOverlap, Proofs1!CheckOverlap, Copy1!SourceUnchanged,
       Proofs1!SourceUnchanged, Copy1!ValidatePatch, Proofs1!ValidatePatch,
       Copy1!ValidateDone, Proofs1!ValidateDone, Copy1!PatchPages,
       Proofs1!PatchPages, Copy1!SourcePages, Proofs1!SourcePages,
       Copy1!Held, Proofs1!Held, Copy1!ProtectPage, Proofs1!ProtectPage,
       Copy1!ProtectDone, Proofs1!ProtectDone, Copy1!RevalidatePatch,
       Proofs1!RevalidatePatch, Copy1!PatchSet, Proofs1!PatchSet,
       Copy1!Commit, Proofs1!Commit, Copy1!CopyPatch, Proofs1!CopyPatch,
       Copy1!CopyDone, Proofs1!CopyDone, Copy1!FlushPatch,
       Proofs1!FlushPatch, Copy1!FlushDone, Proofs1!FlushDone,
       Copy1!RestorePage, Proofs1!RestorePage, Copy1!Outcome,
       Proofs1!Outcome, Copy1!RestoreDone, Proofs1!RestoreDone, Copy1!Log,
       Proofs1!Log, Copy1!ReleasePages, Proofs1!ReleasePages,
       Copy1!HostWrite, Proofs1!HostWrite, Copy1!Install, Proofs1!Install,
       Copy1!Finished, Proofs1!Finished, Copy1!sessionVars,
       Proofs1!sessionVars, Copy1!callVars, Proofs1!callVars,
       Copy1!processVars, Proofs1!processVars, Copy1!vars, Proofs1!vars,
       Copy1!RWX, Proofs1!RWX, Copy1!Untouched, Proofs1!Untouched,
       Copy1!Jump, Proofs1!Jump, Copy1!PageBases, Proofs1!PageBases,
       Copy1!SeqElements, Proofs1!SeqElements, Copy1!Size, Proofs1!Size,
       Copy1!PatchCells, Proofs1!PatchCells, Copy1!SourceCells,
       Proofs1!SourceCells, Copy1!AllInstalled, Proofs1!AllInstalled,
       Copy1!InstalledCells, Proofs1!InstalledCells, Copy1!Address,
       Proofs1!Address, Copy1!checked_add, Proofs1!checked_add, Copy1!None,
       Proofs1!None, Copy1!RangesOverlap, Proofs1!RangesOverlap,
       Copy1!align_down, Proofs1!align_down, Copy1!Cells, Proofs1!Cells,
       Copy1!ReadCode, Proofs1!ReadCode

LEMMA Steps2 ==
    /\ Copy2!Init => Proofs2!Init
    /\ [Copy2!Next]_Copy2!vars => [Proofs2!Next]_Proofs2!vars
BY Zenon
   DEF Copy2!Init, Proofs2!Init, Copy2!Next, Proofs2!Next, Copy2!Prepare,
       Proofs2!Prepare, Copy2!Overwrite, Proofs2!Overwrite,
       Copy2!PrepareDetour, Proofs2!PrepareDetour, Copy2!PushPending,
       Proofs2!PushPending, Copy2!ensure_patch_does_not_overlap,
       Proofs2!ensure_patch_does_not_overlap, Copy2!build_near_jump,
       Proofs2!build_near_jump, Copy2!Goto, Proofs2!Goto, Copy2!Advance,
       Proofs2!Advance, Copy2!Return, Proofs2!Return, Copy2!ReturnUnlocking,
       Proofs2!ReturnUnlocking, Copy2!DropSession, Proofs2!DropSession,
       Copy2!InstallPermanently, Proofs2!InstallPermanently, Copy2!SealPage,
       Proofs2!SealPage, Copy2!FlushPage, Proofs2!FlushPage, Copy2!PagesDone,
       Proofs2!PagesDone, Copy2!LockRegistry, Proofs2!LockRegistry,
       Copy2!OverlapsInstalled, Proofs2!OverlapsInstalled,
       Copy2!CheckOverlap, Proofs2!CheckOverlap, Copy2!SourceUnchanged,
       Proofs2!SourceUnchanged, Copy2!ValidatePatch, Proofs2!ValidatePatch,
       Copy2!ValidateDone, Proofs2!ValidateDone, Copy2!PatchPages,
       Proofs2!PatchPages, Copy2!SourcePages, Proofs2!SourcePages,
       Copy2!Held, Proofs2!Held, Copy2!ProtectPage, Proofs2!ProtectPage,
       Copy2!ProtectDone, Proofs2!ProtectDone, Copy2!RevalidatePatch,
       Proofs2!RevalidatePatch, Copy2!PatchSet, Proofs2!PatchSet,
       Copy2!Commit, Proofs2!Commit, Copy2!CopyPatch, Proofs2!CopyPatch,
       Copy2!CopyDone, Proofs2!CopyDone, Copy2!FlushPatch,
       Proofs2!FlushPatch, Copy2!FlushDone, Proofs2!FlushDone,
       Copy2!RestorePage, Proofs2!RestorePage, Copy2!Outcome,
       Proofs2!Outcome, Copy2!RestoreDone, Proofs2!RestoreDone, Copy2!Log,
       Proofs2!Log, Copy2!ReleasePages, Proofs2!ReleasePages,
       Copy2!HostWrite, Proofs2!HostWrite, Copy2!Install, Proofs2!Install,
       Copy2!Finished, Proofs2!Finished, Copy2!sessionVars,
       Proofs2!sessionVars, Copy2!callVars, Proofs2!callVars,
       Copy2!processVars, Proofs2!processVars, Copy2!vars, Proofs2!vars,
       Copy2!RWX, Proofs2!RWX, Copy2!Untouched, Proofs2!Untouched,
       Copy2!Jump, Proofs2!Jump, Copy2!PageBases, Proofs2!PageBases,
       Copy2!SeqElements, Proofs2!SeqElements, Copy2!Size, Proofs2!Size,
       Copy2!PatchCells, Proofs2!PatchCells, Copy2!SourceCells,
       Proofs2!SourceCells, Copy2!AllInstalled, Proofs2!AllInstalled,
       Copy2!InstalledCells, Proofs2!InstalledCells, Copy2!Address,
       Proofs2!Address, Copy2!checked_add, Proofs2!checked_add, Copy2!None,
       Proofs2!None, Copy2!RangesOverlap, Proofs2!RangesOverlap,
       Copy2!align_down, Proofs2!align_down, Copy2!Cells, Proofs2!Cells,
       Copy2!ReadCode, Proofs2!ReadCode

(***************************************************************************)
(* IInv of TwoCopies, read through the instances that have the lemmas.     *)
(***************************************************************************)
Joint ==
    /\ Proofs1!OwnInv /\ Proofs2!OwnInv
    /\ Proofs1!OwnedPages \cap Proofs2!OwnedPages = {}
    /\ \A a \in Proofs1!Address, p \in CodePages : mem[a] = Proofs1!Jump(p) =>
         p \in Proofs1!PermanentPages \cup Proofs2!PermanentPages
    /\ \A g \in Proofs1!PageBases \ Proofs2!PatchedPages :
         Proofs1!ProtectionAt(g)
    /\ \A g \in Proofs2!PageBases \ Proofs1!PatchedPages :
         Proofs2!ProtectionAt(g)
    /\ \A a \in Proofs1!Address \ Proofs2!PatchedCells : Proofs1!IntactAt(a)
    /\ \A a \in Proofs2!Address \ Proofs1!PatchedCells : Proofs2!IntactAt(a)

LEMMA JointMeansIInv == Joint <=> IInv
BY Zenon
   DEF Joint, IInv, PagesApart, JumpInv, ProtectionInv,
       UnsharedCodeStaysIntact, SourcePages1, SourcePages2, Address,
       Copy1!OwnInv, Proofs1!OwnInv, Copy2!OwnInv, Proofs2!OwnInv,
       Copy1!TypeOK, Proofs1!TypeOK, Copy2!TypeOK, Proofs2!TypeOK,
       Copy1!LockInv, Proofs1!LockInv, Copy2!LockInv, Proofs2!LockInv,
       Copy1!PendingInv, Proofs1!PendingInv, Copy2!PendingInv,
       Proofs2!PendingInv, Copy1!RegistryInv, Proofs1!RegistryInv,
       Copy2!RegistryInv, Proofs2!RegistryInv, Copy1!PageInv,
       Proofs1!PageInv, Copy2!PageInv, Proofs2!PageInv, Copy1!DetourInv,
       Proofs1!DetourInv, Copy2!DetourInv, Proofs2!DetourInv,
       Copy1!OverlapInv, Proofs1!OverlapInv, Copy2!OverlapInv,
       Proofs2!OverlapInv, Copy1!HoldInv, Proofs1!HoldInv, Copy2!HoldInv,
       Proofs2!HoldInv, Copy1!ResultInv, Proofs1!ResultInv, Copy2!ResultInv,
       Proofs2!ResultInv, Copy1!ProtectionAt, Proofs1!ProtectionAt,
       Copy2!ProtectionAt, Proofs2!ProtectionAt, Copy1!IntactAt,
       Proofs1!IntactAt, Copy2!IntactAt, Proofs2!IntactAt, Copy1!Written,
       Proofs1!Written, Copy2!Written, Proofs2!Written, Copy1!Leaked,
       Proofs1!Leaked, Copy2!Leaked, Proofs2!Leaked, Copy1!Committed,
       Proofs1!Committed, Copy2!Committed, Proofs2!Committed,
       Copy1!OwnedPages, Proofs1!OwnedPages, Copy2!OwnedPages,
       Proofs2!OwnedPages, Copy1!PatchedPages, Proofs1!PatchedPages,
       Copy2!PatchedPages, Proofs2!PatchedPages, Copy1!PatchedCells,
       Proofs1!PatchedCells, Copy2!PatchedCells, Proofs2!PatchedCells,
       Copy1!PermanentPages, Proofs1!PermanentPages, Copy2!PermanentPages,
       Proofs2!PermanentPages, Copy1!LockedPhases, Proofs1!LockedPhases,
       Copy2!LockedPhases, Proofs2!LockedPhases, Copy1!Phases,
       Proofs1!Phases, Copy2!Phases, Proofs2!Phases, Copy1!Results,
       Proofs1!Results, Copy2!Results, Proofs2!Results, Copy1!Patch,
       Proofs1!Patch, Copy2!Patch, Proofs2!Patch, Copy1!InstalledPatch,
       Proofs1!InstalledPatch, Copy2!InstalledPatch, Proofs2!InstalledPatch,
       Copy1!PermanentPatchSet, Proofs1!PermanentPatchSet,
       Copy2!PermanentPatchSet, Proofs2!PermanentPatchSet, Copy1!Byte,
       Proofs1!Byte, Copy2!Byte, Proofs2!Byte, Copy1!Protection,
       Proofs1!Protection, Copy2!Protection, Proofs2!Protection,
       Copy1!PatchSet, Proofs1!PatchSet, Copy2!PatchSet, Proofs2!PatchSet,
       Copy1!OverlapsInstalled, Proofs1!OverlapsInstalled,
       Copy2!OverlapsInstalled, Proofs2!OverlapsInstalled,
       Copy1!AllInstalled, Proofs1!AllInstalled, Copy2!AllInstalled,
       Proofs2!AllInstalled, Copy1!SourcePages, Proofs1!SourcePages,
       Copy2!SourcePages, Proofs2!SourcePages, Copy1!SourceCells,
       Proofs1!SourceCells, Copy2!SourceCells, Proofs2!SourceCells,
       Copy1!PatchPages, Proofs1!PatchPages, Copy2!PatchPages,
       Proofs2!PatchPages, Copy1!PatchCells, Proofs1!PatchCells,
       Copy2!PatchCells, Proofs2!PatchCells, Copy1!Held, Proofs1!Held,
       Copy2!Held, Proofs2!Held, Copy1!RWX, Proofs1!RWX, Copy2!RWX,
       Proofs2!RWX, Copy1!Untouched, Proofs1!Untouched, Copy2!Untouched,
       Proofs2!Untouched, Copy1!Jump, Proofs1!Jump, Copy2!Jump, Proofs2!Jump,
       Copy1!PageBases, Proofs1!PageBases, Copy2!PageBases,
       Proofs2!PageBases, Copy1!SeqElements, Proofs1!SeqElements,
       Copy2!SeqElements, Proofs2!SeqElements, Copy1!Size, Proofs1!Size,
       Copy2!Size, Proofs2!Size, Copy1!Address, Proofs1!Address,
       Copy2!Address, Proofs2!Address, Copy1!RangesOverlap,
       Proofs1!RangesOverlap, Copy2!RangesOverlap, Proofs2!RangesOverlap,
       Copy1!align_down, Proofs1!align_down, Copy2!align_down,
       Proofs2!align_down, Copy1!Cells, Proofs1!Cells, Copy2!Cells,
       Proofs2!Cells

(* Both copies see the same addresses, pages and bytes. *)
LEMMA SameWorld ==
    /\ Proofs1!Address = Proofs2!Address /\ Proofs1!PageBases = Proofs2!PageBases
    /\ \A p : Proofs1!Jump(p) = Proofs2!Jump(p)
    /\ Proofs1!FreePages = Proofs2!FreePages
BY Zenon
   DEF Proofs1!Address, Proofs2!Address, Proofs1!PageBases,
       Proofs2!PageBases, Proofs1!Jump, Proofs2!Jump, Proofs1!FreePages,
       Proofs2!FreePages

(* What one copy leaves well typed is well typed for the other. *)
LEMMA SameTypes ==
    /\ Proofs1!TypeOK' /\ Proofs2!TypeOK /\ UNCHANGED vars2 => Proofs2!TypeOK'
    /\ Proofs2!TypeOK' /\ Proofs1!TypeOK /\ UNCHANGED vars1 => Proofs1!TypeOK'
<1>1. /\ Proofs1!Address = Proofs2!Address /\ Proofs1!Byte = Proofs2!Byte
      /\ Proofs1!Protection = Proofs2!Protection
      /\ Proofs1!PageBases = Proofs2!PageBases
  BY Zenon
     DEF Proofs1!Address, Proofs2!Address, Proofs1!Byte, Proofs2!Byte,
       Proofs1!Jump, Proofs2!Jump, Proofs1!Protection, Proofs2!Protection,
       Proofs1!RWX, Proofs2!RWX, Proofs1!PageBases, Proofs2!PageBases
<1>. QED  BY <1>1 DEF vars1, vars2, Proofs1!TypeOK, Proofs2!TypeOK
-----------------------------------------------------------------------------
(* The steps. *)

(* A step of copy 1, seen from copy 2. *)
LEMMA StepOfCopy1 ==
    ASSUME Joint, [Proofs1!Next]_Proofs1!vars, UNCHANGED vars2
    PROVE  Joint'
<1>1. /\ Proofs1!OwnInv' /\ Proofs1!Guarantee
      /\ \A g \in Proofs1!PageBases :
           Proofs1!ProtectionAt(g) => Proofs1!ProtectionAt(g)'
      /\ \A a \in Proofs1!Address : Proofs1!IntactAt(a) => Proofs1!IntactAt(a)'
  BY Assumptions1, Proofs1!OwnStep DEF Joint
<1>2. /\ Proofs2!OwnedPages \subseteq CodePages
      /\ Proofs2!OwnedPages \cap Proofs1!FreePages = {}
  BY Assumptions2, Proofs2!OwnedNotFree, SameWorld DEF Joint
<1>3. Proofs2!Rely
  <2>1. Proofs2!TypeOK'
    BY <1>1, SameTypes DEF Joint, Proofs1!OwnInv, Proofs2!OwnInv
  <2>2. \A p \in Proofs2!OwnedPages : codePage'[p] = codePage[p]
    BY <1>1, <1>2 DEF Joint, Proofs1!Guarantee
  <2>. QED  BY <2>1, <2>2 DEF Proofs2!Rely, vars2, Proofs2!sessionVars,
                              Proofs2!callVars
<1>4. Proofs2!OwnInv' /\ Proofs2!OwnedPages' = Proofs2!OwnedPages
  BY <1>3, Assumptions2, Proofs2!OwnInvRely DEF Joint
<1>5. /\ \A g \in Proofs2!PageBases :
           Proofs2!ProtectionAt(g) /\ protection'[g] = protection[g]
             => Proofs2!ProtectionAt(g)'
      /\ \A a \in Proofs2!Address :
           Proofs2!IntactAt(a) /\ mem'[a] = mem[a] => Proofs2!IntactAt(a)'
      /\ Proofs2!PatchedPages' = Proofs2!PatchedPages
      /\ Proofs2!PatchedCells' = Proofs2!PatchedCells
  BY <1>3, Assumptions2, Proofs2!ElsewhereKeeps DEF Joint
<1>6. (Proofs1!OwnedPages \cap Proofs2!OwnedPages = {})'
  BY <1>1, <1>2, <1>4 DEF Joint, Proofs1!Guarantee
<1>7. ASSUME NEW a \in Proofs1!Address, NEW p \in CodePages,
             mem'[a] = Proofs1!Jump(p)
      PROVE  p \in Proofs1!PermanentPages' \cup Proofs2!PermanentPages'
  <2>1. mem[a] = Proofs1!Jump(p) \/ p \in Proofs1!PermanentPages
    BY <1>1, <1>7, SameWorld DEF Proofs1!Guarantee
  <2>2. Proofs1!PermanentPages \subseteq Proofs1!PermanentPages'
    BY <1>1 DEF Proofs1!Guarantee
  <2>3. Proofs2!PermanentPages' = Proofs2!PermanentPages
    BY DEF vars2, Proofs2!PermanentPages
  <2>. QED  BY <1>7, <2>1, <2>2, <2>3 DEF Joint
<1>8. /\ \A g \in Proofs1!PageBases \ Proofs2!PatchedPages' :
           Proofs1!ProtectionAt(g)'
      /\ \A a \in Proofs1!Address \ Proofs2!PatchedCells' :
           Proofs1!IntactAt(a)'
  BY <1>1, <1>5 DEF Joint
<1>9. /\ \A g \in Proofs2!PageBases \ Proofs1!PatchedPages' :
           Proofs2!ProtectionAt(g)'
      /\ \A a \in Proofs2!Address \ Proofs1!PatchedCells' :
           Proofs2!IntactAt(a)'
  BY <1>1, <1>5, SameWorld DEF Joint, Proofs1!Guarantee
<1>. QED  BY <1>1, <1>4, <1>6, <1>7, <1>8, <1>9 DEF Joint

(* A step of copy 2, seen from copy 1. *)
LEMMA StepOfCopy2 ==
    ASSUME Joint, [Proofs2!Next]_Proofs2!vars, UNCHANGED vars1
    PROVE  Joint'
<1>1. /\ Proofs2!OwnInv' /\ Proofs2!Guarantee
      /\ \A g \in Proofs2!PageBases :
           Proofs2!ProtectionAt(g) => Proofs2!ProtectionAt(g)'
      /\ \A a \in Proofs2!Address : Proofs2!IntactAt(a) => Proofs2!IntactAt(a)'
  BY Assumptions2, Proofs2!OwnStep DEF Joint
<1>2. /\ Proofs1!OwnedPages \subseteq CodePages
      /\ Proofs1!OwnedPages \cap Proofs2!FreePages = {}
  BY Assumptions1, Proofs1!OwnedNotFree, SameWorld DEF Joint
<1>3. Proofs1!Rely
  <2>1. Proofs1!TypeOK'
    BY <1>1, SameTypes DEF Joint, Proofs2!OwnInv, Proofs1!OwnInv
  <2>2. \A p \in Proofs1!OwnedPages : codePage'[p] = codePage[p]
    BY <1>1, <1>2 DEF Joint, Proofs2!Guarantee
  <2>. QED  BY <2>1, <2>2 DEF Proofs1!Rely, vars1, Proofs1!sessionVars,
                              Proofs1!callVars
<1>4. Proofs1!OwnInv' /\ Proofs1!OwnedPages' = Proofs1!OwnedPages
  BY <1>3, Assumptions1, Proofs1!OwnInvRely DEF Joint
<1>5. /\ \A g \in Proofs1!PageBases :
           Proofs1!ProtectionAt(g) /\ protection'[g] = protection[g]
             => Proofs1!ProtectionAt(g)'
      /\ \A a \in Proofs1!Address :
           Proofs1!IntactAt(a) /\ mem'[a] = mem[a] => Proofs1!IntactAt(a)'
      /\ Proofs1!PatchedPages' = Proofs1!PatchedPages
      /\ Proofs1!PatchedCells' = Proofs1!PatchedCells
  BY <1>3, Assumptions1, Proofs1!ElsewhereKeeps DEF Joint
<1>6. (Proofs2!OwnedPages \cap Proofs1!OwnedPages = {})'
  BY <1>1, <1>2, <1>4 DEF Joint, Proofs2!Guarantee
<1>7. ASSUME NEW a \in Proofs1!Address, NEW p \in CodePages,
             mem'[a] = Proofs1!Jump(p)
      PROVE  p \in Proofs1!PermanentPages' \cup Proofs2!PermanentPages'
  <2>1. mem[a] = Proofs1!Jump(p) \/ p \in Proofs2!PermanentPages
    BY <1>1, <1>7, SameWorld DEF Proofs2!Guarantee
  <2>2. Proofs2!PermanentPages \subseteq Proofs2!PermanentPages'
    BY <1>1 DEF Proofs2!Guarantee
  <2>3. Proofs1!PermanentPages' = Proofs1!PermanentPages
    BY DEF vars1, Proofs1!PermanentPages
  <2>. QED  BY <1>7, <2>1, <2>2, <2>3 DEF Joint
<1>8. /\ \A g \in Proofs2!PageBases \ Proofs1!PatchedPages' :
           Proofs2!ProtectionAt(g)'
      /\ \A a \in Proofs2!Address \ Proofs1!PatchedCells' :
           Proofs2!IntactAt(a)'
  BY <1>1, <1>5 DEF Joint
<1>9. /\ \A g \in Proofs1!PageBases \ Proofs2!PatchedPages' :
           Proofs1!ProtectionAt(g)'
      /\ \A a \in Proofs1!Address \ Proofs2!PatchedCells' :
           Proofs1!IntactAt(a)'
  BY <1>1, <1>5, SameWorld DEF Joint, Proofs2!Guarantee
<1>. QED  BY <1>1, <1>4, <1>6, <1>7, <1>8, <1>9 DEF Joint
-----------------------------------------------------------------------------
LEMMA JointInit == Init => Joint
<1>. SUFFICES ASSUME Proofs1!Init, Proofs2!Init
              PROVE  Joint
  BY Steps1, Steps2 DEF Init
<1>1. /\ Proofs1!OwnInv /\ Proofs1!JumpInv /\ Proofs1!OwnedPages = {}
      /\ \A a \in Proofs1!Address : Proofs1!IntactAt(a)
      /\ \A g \in Proofs1!PageBases : Proofs1!ProtectionAt(g)
  BY Assumptions1, Proofs1!OwnInit
<1>2. /\ Proofs2!OwnInv /\ Proofs2!OwnedPages = {}
      /\ \A a \in Proofs2!Address : Proofs2!IntactAt(a)
      /\ \A g \in Proofs2!PageBases : Proofs2!ProtectionAt(g)
  BY Assumptions2, Proofs2!OwnInit
<1>. QED  BY <1>1, <1>2 DEF Joint, Proofs1!JumpInv

LEMMA JointStep == Joint /\ [Next]_vars => Joint'
<1>. SUFFICES ASSUME Joint, [Next]_vars
              PROVE  Joint'
  OBVIOUS
<1>1. \/ [Copy1!Next]_Copy1!vars /\ UNCHANGED vars2
      \/ [Copy2!Next]_Copy2!vars /\ UNCHANGED vars1
  BY DEF Next, vars, vars1, vars2, Copy1!vars, Copy2!vars
<1>. QED  BY <1>1, Steps1, Steps2, StepOfCopy1, StepOfCopy2

(* The inductive invariant holds in every reachable state. *)
THEOREM Invariance == Spec => []IInv
<1>1. Spec => []Joint
  BY JointInit, JointStep, PTL DEF Spec
<1>. QED  BY <1>1, JointMeansIInv, PTL
-----------------------------------------------------------------------------
(* The theorems. *)

(***************************************************************************)
(* Whichever copy wrote a jump last, its page is mapped, executable and    *)
(* flushed, and stays so: a copy unmaps only pages of its own calls that   *)
(* wrote nothing (session.rs 387-448).                                     *)
(***************************************************************************)
THEOREM NoJumpDangles == Spec => []JumpsStayAlive
<1>1. IInv => JumpsStayAlive
  BY DEF IInv, JumpInv, JumpsStayAlive, Address, Copy1!NoDanglingJump,
     Copy1!Address, Copy1!OwnInv, Copy1!PageInv, Copy2!OwnInv, Copy2!PageInv
<1>. QED  BY <1>1, Invariance, PTL

(***************************************************************************)
(* No copy faults in a page that only it patches: the other one changes    *)
(* the protections of its own source pages alone (session.rs 246-326).     *)
(***************************************************************************)
THEOREM UnsharedWritable == Spec => []UnsharedPagesAreWritable
<1>1. ASSUME Joint, NEW s \in Sessions1, pc1[s] = "copy",
             NEW a \in Proofs1!SourceCells(s),
             align_down(a, PageSize) \notin
               Proofs1!PatchedPages \cap Proofs2!PatchedPages
      PROVE  protection[align_down(a, PageSize)] = Proofs1!RWX
  <2>. DEFINE g == Proofs1!align_down(a, PageSize)
  <2>1. /\ g \in Proofs1!PageBases /\ g \in Proofs1!SourcePages(s)
        /\ Proofs1!ProtectionAt(g) => protection[g] = Proofs1!RWX
    BY <1>1, Assumptions1, Proofs1!CopiedPage DEF Joint
  <2>2. g = align_down(a, PageSize)
    BY DEF align_down, Proofs1!align_down
  <2>. QED  BY <1>1, <2>1, <2>2 DEF Joint, Proofs1!PatchedPages
<1>2. ASSUME Joint, NEW s \in Sessions2, pc2[s] = "copy",
             NEW a \in Proofs2!SourceCells(s),
             align_down(a, PageSize) \notin
               Proofs1!PatchedPages \cap Proofs2!PatchedPages
      PROVE  protection[align_down(a, PageSize)] = Proofs2!RWX
  <2>. DEFINE g == Proofs2!align_down(a, PageSize)
  <2>1. /\ g \in Proofs2!PageBases /\ g \in Proofs2!SourcePages(s)
        /\ Proofs2!ProtectionAt(g) => protection[g] = Proofs2!RWX
    BY <1>2, Assumptions2, Proofs2!CopiedPage DEF Joint
  <2>2. g = align_down(a, PageSize)
    BY DEF align_down, Proofs2!align_down
  <2>. QED  BY <1>2, <2>1, <2>2 DEF Joint, Proofs2!PatchedPages
<1>3. /\ SourcePages1 = Proofs1!PatchedPages
      /\ SourcePages2 = Proofs2!PatchedPages
      /\ Copy1!RWX = Proofs1!RWX /\ Copy1!RWX = Proofs2!RWX
      /\ \A s : Copy1!SourceCells(s) = Proofs1!SourceCells(s)
      /\ \A s : Copy2!SourceCells(s) = Proofs2!SourceCells(s)
  BY Zenon
     DEF SourcePages1, SourcePages2,
       Copy1!PatchedPages, Proofs1!PatchedPages, Copy2!PatchedPages,
       Proofs2!PatchedPages, Copy1!SourcePages, Proofs1!SourcePages,
       Copy2!SourcePages, Proofs2!SourcePages, Copy1!PatchPages,
       Proofs1!PatchPages, Copy2!PatchPages, Proofs2!PatchPages,
       Copy1!SourceCells, Proofs1!SourceCells, Copy2!SourceCells,
       Proofs2!SourceCells, Copy1!PatchCells, Proofs1!PatchCells,
       Copy2!PatchCells, Proofs2!PatchCells, Copy1!Cells, Proofs1!Cells,
       Copy2!Cells, Proofs2!Cells, Copy1!PageBases, Proofs1!PageBases,
       Copy2!PageBases, Proofs2!PageBases, Copy1!Address, Proofs1!Address,
       Copy2!Address, Proofs2!Address, Copy1!align_down, Proofs1!align_down,
       Copy2!align_down, Proofs2!align_down, Copy1!Size, Proofs1!Size,
       Copy2!Size, Proofs2!Size, Copy1!RWX, Proofs1!RWX, Copy2!RWX,
       Proofs2!RWX
<1>4. Joint => UnsharedPagesAreWritable
  BY <1>1, <1>2, <1>3 DEF UnsharedPagesAreWritable
<1>. QED  BY <1>4, Invariance, JointMeansIInv, PTL

(***************************************************************************)
(* Once both copies are quiet, a page that only one of them patched is as  *)
(* it was, or a call returned an error that announces it (session.rs       *)
(* 299-326 and 465-468).                                                   *)
(***************************************************************************)
THEOREM UnsharedRestored == Spec => []UnsharedPagesAreRestored
<1>1. ASSUME Joint, lock1 = NoSession, lock2 = NoSession,
             NEW g \in Proofs1!PageBases,
             g \notin Proofs1!PatchedPages \cap Proofs2!PatchedPages
      PROVE  \/ protection[g] = InitialProtection[g]
             \/ \E s \in Sessions1 : g \in Proofs1!SourcePages(s) /\
                  result1[s] \in {"Protection", "InstructionCache"}
             \/ \E s \in Sessions2 : g \in Proofs2!SourcePages(s) /\
                  result2[s] \in {"Protection", "InstructionCache"}
  <2>1. CASE g \notin Proofs2!PatchedPages
    <3>1. Proofs1!ProtectionAt(g)
      BY <1>1, <2>1 DEF Joint
    <3>. QED  BY <1>1, <3>1, Assumptions1, Proofs1!QuietPage DEF Joint
  <2>2. CASE g \notin Proofs1!PatchedPages
    <3>1. g \in Proofs2!PageBases /\ Proofs2!ProtectionAt(g)
      BY <1>1, <2>2, SameWorld DEF Joint
    <3>. QED  BY <1>1, <3>1, Assumptions2, Proofs2!QuietPage DEF Joint
  <2>. QED  BY <1>1, <2>1, <2>2
<1>2. /\ SourcePages1 = Proofs1!PatchedPages
      /\ SourcePages2 = Proofs2!PatchedPages
      /\ Copy1!PageBases = Proofs1!PageBases
      /\ \A s : Copy1!SourcePages(s) = Proofs1!SourcePages(s)
      /\ \A s : Copy2!SourcePages(s) = Proofs2!SourcePages(s)
  BY Zenon
     DEF SourcePages1, SourcePages2,
       Copy1!PatchedPages, Proofs1!PatchedPages, Copy2!PatchedPages,
       Proofs2!PatchedPages, Copy1!SourcePages, Proofs1!SourcePages,
       Copy2!SourcePages, Proofs2!SourcePages, Copy1!PatchPages,
       Proofs1!PatchPages, Copy2!PatchPages, Proofs2!PatchPages,
       Copy1!PageBases, Proofs1!PageBases, Copy2!PageBases,
       Proofs2!PageBases, Copy1!Address, Proofs1!Address, Copy2!Address,
       Proofs2!Address, Copy1!align_down, Proofs1!align_down,
       Copy2!align_down, Proofs2!align_down, Copy1!Size, Proofs1!Size,
       Copy2!Size, Proofs2!Size
<1>3. Joint => UnsharedPagesAreRestored
  BY <1>1, <1>2 DEF UnsharedPagesAreRestored
<1>. QED  BY <1>3, Invariance, JointMeansIInv, PTL

(***************************************************************************)
(* Disjoint patches of two copies do not corrupt each other (README.md     *)
(* 24-26): a byte only one copy prepared a patch for keeps what it wrote.  *)
(***************************************************************************)
THEOREM UnsharedCodeIntact == Spec => []UnsharedCodeStaysIntact
<1>1. IInv => UnsharedCodeStaysIntact
  BY DEF IInv
<1>. QED  BY <1>1, Invariance, PTL
=============================================================================
