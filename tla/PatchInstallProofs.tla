------------------------- MODULE PatchInstallProofs -------------------------
(***************************************************************************)
(* Proofs about PatchInstall, for every number of sessions, patches and    *)
(* pages, every address space and every code.                              *)
(***************************************************************************)
EXTENDS PatchInstall, AddressSpaceProofs

(* What ensure_patch_does_not_overlap leaves of the address arithmetic. *)
LEMMA CheckedRange ==
    ASSUME NEW address \in Address, NEW size \in Nat,
           checked_add(address, size) # None
    PROVE  address + size <= UsizeMax
BY UsizeMaxAssumption DEF checked_add, None, Address

(* The bytes read when a patch is prepared are a byte string of its size. *)
LEMMA ReadCodeType ==
    ASSUME mem \in [Address -> Byte], NEW address \in Address,
           NEW size \in Nat, address + size <= UsizeMax
    PROVE  /\ ReadCode(address, size) \in Seq(Byte)
           /\ Len(ReadCode(address, size)) = size
<1>1. \A i \in 1 .. size : mem[address + i - 1] \in Byte
  BY UsizeMaxAssumption DEF Address
<1>. QED  BY <1>1 DEF ReadCode

(* So are the bytes of a near jump. *)
LEMMA NearJumpType ==
    ASSUME NEW p \in CodePages, NEW size \in Nat
    PROVE  /\ build_near_jump(p, size) \in Seq(Byte)
           /\ Len(build_near_jump(p, size)) = size
<1>1. Jump(p) \in Byte /\ Nop \in Byte
  BY ConstantsAssumption DEF Byte
<1>. QED  BY <1>1 DEF build_near_jump

(* What the type invariant says of one prepared patch. *)
LEMMA PatchFacts ==
    ASSUME TypeOK, NEW s \in Sessions, NEW i \in DOMAIN pending[s]
    PROVE  /\ DOMAIN pending[s] = 1 .. Len(pending[s])
           /\ Len(pending[s]) \in Nat
           /\ pending[s][i].address \in Address
           /\ pending[s][i].address \in Nat
           /\ pending[s][i].expected \in Seq(Byte)
           /\ pending[s][i].replacement \in Seq(Byte)
           /\ pending[s][i].page \in CodePages \cup {NoPage}
           /\ Size(pending[s][i]) \in Nat \ {0}
           /\ Len(pending[s][i].expected) = Size(pending[s][i])
           /\ pending[s][i].address + Size(pending[s][i]) <= UsizeMax
           /\ PatchCells(pending[s][i]) \subseteq Address
<1>1. pending[s] \in Seq(Patch)
  BY DEF TypeOK
<1>2. pending[s][i] \in Patch
  BY <1>1
<1>. DEFINE patch == pending[s][i]
<1>3. /\ patch.address \in Address /\ patch.expected \in Seq(Byte)
      /\ patch.replacement \in Seq(Byte)
      /\ patch.page \in CodePages \cup {NoPage}
      /\ Len(patch.replacement) > 0
      /\ Len(patch.expected) = Len(patch.replacement)
      /\ patch.address + Len(patch.replacement) <= UsizeMax
  BY <1>2 DEF Patch
<1>4. PatchCells(patch) \subseteq Address
  BY <1>3, UsizeMaxAssumption DEF PatchCells, Cells, Size, Address
<1>. QED  BY <1>1, <1>3, <1>4 DEF Size, Address

LEMMA TypeInit == Init => TypeOK
<1>1. InitialCode \in [Address -> Byte]
  BY CodeAssumption DEF Byte
<1>. QED  BY <1>1, CodeAssumption DEF Init, TypeOK, Phases, Results

LEMMA TypePush ==
    ASSUME TypeOK, NEW s \in Sessions, NEW address \in Address,
           NEW replacement \in Seq(Byte), NEW p \in CodePages \cup {NoPage},
           Len(replacement) > 0, address + Len(replacement) <= UsizeMax,
           PushPending(s, address, replacement, p)
    PROVE  pending' \in [Sessions -> Seq(Patch)]
<1>1. /\ ReadCode(address, Len(replacement)) \in Seq(Byte)
      /\ Len(ReadCode(address, Len(replacement))) = Len(replacement)
  BY ReadCodeType DEF TypeOK
<1>. DEFINE patch == [address |-> address,
                      expected |-> ReadCode(address, Len(replacement)),
                      replacement |-> replacement,
                      page |-> p]
<1>2. patch \in Patch
  BY <1>1 DEF Patch
<1>3. pending' = [pending EXCEPT ![s] = Append(@, patch)]
  BY DEF PushPending
<1>4. Append(pending[s], patch) \in Seq(Patch)
  BY <1>2 DEF TypeOK
<1>. QED  BY <1>3, <1>4 DEF TypeOK

(* The control helpers keep the types of what they assign. *)
LEMMA TypeGoto ==
    ASSUME TypeOK, NEW s \in Sessions, NEW phase \in Phases, Goto(s, phase)
    PROVE  pc' \in [Sessions -> Phases] /\ cursor' \in [Sessions -> Nat \ {0}]
BY DEF TypeOK, Goto

LEMMA TypeAdvance ==
    ASSUME TypeOK, NEW s \in Sessions, Advance(s)
    PROVE  pc' \in [Sessions -> Phases] /\ cursor' \in [Sessions -> Nat \ {0}]
BY DEF TypeOK, Advance

LEMMA TypeReturn ==
    ASSUME TypeOK, NEW s \in Sessions, NEW outcome \in Results,
           Return(s, outcome)
    PROVE  /\ pc' \in [Sessions -> Phases]
           /\ cursor' \in [Sessions -> Nat \ {0}]
           /\ result' \in [Sessions -> Results]
<1>1. "release" \in Phases
  BY DEF Phases
<1>. QED  BY <1>1, TypeGoto DEF TypeOK, Return

(* Every step keeps the types. *)
LEMMA TypeStep == TypeOK /\ [Next]_vars => TypeOK'
<1>. SUFFICES ASSUME TypeOK, [Next]_vars
              PROVE  TypeOK'
  OBVIOUS
<1>1. ASSUME NEW s \in Sessions, NEW address \in Sites, NEW data \in Payloads,
             Overwrite(s, address, data)
      PROVE  TypeOK'
  <2>1. /\ address \in Address /\ data \in Seq(Data) /\ data \in Seq(Byte)
        /\ address + Len(data) <= UsizeMax /\ Len(data) > 0
    BY <1>1, CodeAssumption, CheckedRange
       DEF Byte, Overwrite, ensure_patch_does_not_overlap
  <2>2. pending' \in [Sessions -> Seq(Patch)]
    BY <1>1, <2>1, TypePush DEF Overwrite
  <2>. QED  BY <1>1, <2>2 DEF TypeOK, Overwrite, callVars, processVars
<1>2. ASSUME NEW s \in Sessions, NEW address \in Sites,
             NEW size \in DetourSizes, NEW p \in CodePages,
             PrepareDetour(s, address, size, p)
      PROVE  TypeOK'
  <2>1. /\ address \in Address /\ size \in Nat
        /\ build_near_jump(p, size) \in Seq(Byte)
        /\ Len(build_near_jump(p, size)) = size
        /\ address + size <= UsizeMax /\ size > 0
    BY <1>2, CodeAssumption, CheckedRange, NearJumpType
       DEF PrepareDetour, ensure_patch_does_not_overlap
  <2>2. pending' \in [Sessions -> Seq(Patch)]
    BY <1>2, <2>1, TypePush DEF PrepareDetour
  <2>3. /\ pages' \in [Sessions -> Seq(CodePages)]
        /\ codePage' \in
             [CodePages -> {"free", "writable", "sealed", "flushed"}]
    <3>1. CASE UNCHANGED <<pages, codePage>>
      BY <3>1 DEF TypeOK
    <3>2. CASE /\ pages' = [pages EXCEPT ![s] = Append(@, p)]
               /\ codePage' = [codePage EXCEPT ![p] = "writable"]
      <4>1. Append(pages[s], p) \in Seq(CodePages)
        BY DEF TypeOK
      <4>. QED  BY <3>2, <4>1 DEF TypeOK
    <3>. QED  BY <1>2, <3>1, <3>2 DEF PrepareDetour
  <2>. QED  BY <1>2, <2>2, <2>3 DEF TypeOK, PrepareDetour, callVars
<1>3. ASSUME NEW s \in Sessions, DropSession(s) \/ InstallPermanently(s)
      PROVE  TypeOK'
  <2>1. "seal" \in Phases /\ "Dropped" \in Results
    BY DEF Phases, Results
  <2>2. /\ pc' \in [Sessions -> Phases] /\ cursor' \in [Sessions -> Nat \ {0}]
        /\ result' \in [Sessions -> Results]
    BY <1>3, <2>1, TypeReturn, TypeGoto
       DEF TypeOK, DropSession, InstallPermanently
  <2>. QED  BY <1>3, <2>2 DEF TypeOK, DropSession, InstallPermanently,
                              sessionVars, processVars
<1>4. ASSUME NEW s \in Sessions, SealPage(s) \/ FlushPage(s)
      PROVE  TypeOK'
  <2>1. {"Mapping", "InstructionCache"} \subseteq Results
    BY DEF Results
  <2>2. /\ pc' \in [Sessions -> Phases] /\ cursor' \in [Sessions -> Nat \ {0}]
        /\ result' \in [Sessions -> Results]
    BY <1>4, <2>1, TypeReturn, TypeAdvance DEF TypeOK, SealPage, FlushPage
  <2>3. codePage' \in
          [CodePages -> {"free", "writable", "sealed", "flushed"}]
    BY <1>4 DEF TypeOK, SealPage, FlushPage
  <2>. QED  BY <1>4, <2>2, <2>3 DEF TypeOK, SealPage, FlushPage, sessionVars
<1>5. ASSUME NEW s \in Sessions, PagesDone(s) \/ LockRegistry(s)
      PROVE  TypeOK'
  <2>1. {"flush_pages", "lock", "overlap"} \subseteq Phases
    BY DEF Phases
  <2>2. pc' \in [Sessions -> Phases] /\ cursor' \in [Sessions -> Nat \ {0}]
    BY <1>5, <2>1, TypeGoto DEF PagesDone, LockRegistry
  <2>. QED  BY <1>5, <2>2 DEF TypeOK, PagesDone, LockRegistry, sessionVars,
                              processVars
<1>6. ASSUME NEW s \in Sessions, CheckOverlap(s) \/ ValidatePatch(s)
      PROVE  TypeOK'
  <2>1. "validate" \in Phases /\ {"OverlappingPatch", "SourceChanged"} \subseteq Results
    BY DEF Phases, Results
  <2>2. /\ pc' \in [Sessions -> Phases] /\ cursor' \in [Sessions -> Nat \ {0}]
        /\ result' \in [Sessions -> Results]
        /\ lock' \in Sessions \cup {NoSession}
    BY <1>6, <2>1, TypeReturn, TypeGoto, TypeAdvance
       DEF TypeOK, CheckOverlap, ValidatePatch, ReturnUnlocking
  <2>. QED  BY <1>6, <2>2 DEF TypeOK, CheckOverlap, ValidatePatch, sessionVars
<1>7. ASSUME NEW s \in Sessions,
             ValidateDone(s) \/ ProtectDone(s) \/ CopyDone(s) \/ FlushDone(s)
      PROVE  TypeOK'
  <2>1. {"protect", "revalidate", "flush", "restore"} \subseteq Phases
    BY DEF Phases
  <2>2. pc' \in [Sessions -> Phases] /\ cursor' \in [Sessions -> Nat \ {0}]
    BY <1>7, <2>1, TypeGoto DEF ValidateDone, ProtectDone, CopyDone, FlushDone
  <2>. QED  BY <1>7, <2>2 DEF TypeOK, ValidateDone, ProtectDone, CopyDone,
                              FlushDone, sessionVars, processVars
<1>8. ASSUME NEW s \in Sessions, ProtectPage(s) \/ RevalidatePatch(s)
      PROVE  TypeOK'
  <2>1. "rollback" \in Phases /\ {"Protection", "SourceChanged"} \subseteq Results
    BY DEF Phases, Results
  <2>2. /\ pc' \in [Sessions -> Phases] /\ cursor' \in [Sessions -> Nat \ {0}]
        /\ failure' \in [Sessions -> Results]
    BY <1>8, <2>1, TypeGoto, TypeAdvance, ZenonT(60)
       DEF TypeOK, ProtectPage, RevalidatePatch
  <2>3. RWX \in Protection
    BY DEF RWX, Protection
  <2>4. /\ protections' \in
             [Sessions -> [PageBases -> Protection \cup {Untouched}]]
        /\ protection' \in [PageBases -> Protection]
    <3>1. CASE RevalidatePatch(s)
      BY <3>1 DEF TypeOK, RevalidatePatch, processVars
    <3>2. CASE ProtectPage(s)
      <4>1. SourcePages(s) \subseteq PageBases
        BY DEF SourcePages, PatchPages
      <4>2. PICK g \in PageBases :
              \/ /\ protections' = [protections EXCEPT ![s][g] = protection[g]]
                 /\ protection' = [protection EXCEPT ![g] = RWX]
              \/ protections' = protections /\ protection' = protection
        BY <3>2, <4>1 DEF ProtectPage
      <4>3. protections \in
              [Sessions -> [PageBases -> Protection \cup {Untouched}]]
        BY DEF TypeOK
      <4>4. protection \in [PageBases -> Protection]
        BY DEF TypeOK
      <4>. QED  BY <4>2, <4>3, <4>4, <2>3, SMTT(30)
    <3>. QED  BY <1>8, <3>1, <3>2
  <2>. QED  BY <1>8, <2>2, <2>4
            DEF TypeOK, ProtectPage, RevalidatePatch, sessionVars, processVars
<1>9. ASSUME NEW s \in Sessions, Commit(s)
      PROVE  TypeOK'
  <2>1. PatchSet(s) \subseteq InstalledPatch
    BY PatchFacts DEF PatchSet, InstalledPatch
  <2>2. SeqElements(pages[s]) \subseteq CodePages
    BY DEF TypeOK, SeqElements
  <2>3. registry' \subseteq PermanentPatchSet
    BY <1>9, <2>1, <2>2 DEF TypeOK, Commit, PermanentPatchSet
  <2>. QED  BY <1>9, <2>3 DEF TypeOK, Commit, Goto, Phases
<1>10. ASSUME NEW s \in Sessions, CopyPatch(s)
       PROVE  TypeOK'
  <2>. DEFINE patch == pending[s][cursor[s]]
  <2>1. /\ patch.address \in Nat /\ patch.replacement \in Seq(Byte)
        /\ PatchCells(patch) \subseteq Address
    BY <1>10, PatchFacts DEF CopyPatch
  <2>2. \A a \in PatchCells(patch) :
          patch.replacement[a - patch.address + 1] \in Byte
    BY <2>1, SMTT(30) DEF PatchCells, Cells, Size
  <2>3. mem' \in [Address -> Byte]
    BY <1>10, <2>2 DEF TypeOK, CopyPatch
  <2>4. pc' \in [Sessions -> Phases] /\ cursor' \in [Sessions -> Nat \ {0}]
    BY <1>10, TypeAdvance DEF CopyPatch
  <2>. QED  BY <1>10, <2>1, <2>3, <2>4 DEF TypeOK, CopyPatch, sessionVars
<1>11. ASSUME NEW s \in Sessions, FlushPatch(s)
       PROVE  TypeOK'
  <2>1. "restore" \in Phases /\ "InstructionCache" \in Results
    BY DEF Phases, Results
  <2>2. /\ pc' \in [Sessions -> Phases] /\ cursor' \in [Sessions -> Nat \ {0}]
        /\ failure' \in [Sessions -> Results]
        /\ stale' \subseteq Address
    BY <1>11, <2>1, TypeGoto, TypeAdvance, ZenonT(60) DEF TypeOK, FlushPatch
  <2>. QED  BY <1>11, <2>2 DEF TypeOK, FlushPatch, sessionVars
<1>12. ASSUME NEW s \in Sessions, RestorePage(s)
       PROVE  TypeOK'
  <2>1. PICK g \in Held(s) :
          /\ protections' = [protections EXCEPT ![s][g] = Untouched]
          /\ \/ protection' = [protection EXCEPT ![g] = protections[s][g]]
             \/ UNCHANGED protection
    BY <1>12 DEF RestorePage
  <2>2. g \in PageBases /\ protections[s][g] \in Protection
    BY DEF Held, TypeOK
  <2>3. /\ protections' \in
             [Sessions -> [PageBases -> Protection \cup {Untouched}]]
        /\ protection' \in [PageBases -> Protection]
    BY <2>1, <2>2 DEF TypeOK
  <2>4. restoreFailed' \in [Sessions -> BOOLEAN]
    BY <1>12 DEF TypeOK, RestorePage
  <2>. QED  BY <1>12, <2>3, <2>4 DEF TypeOK, RestorePage, sessionVars
<1>13. ASSUME NEW s \in Sessions, RestoreDone(s) \/ Log(s)
       PROVE  TypeOK'
  <2>1. CASE RestoreDone(s)
    <3>1. Outcome(s) \in Results /\ {"log", "release"} \subseteq Phases
      BY DEF TypeOK, Outcome, Results, Phases
    <3>2. /\ lock' \in {lock, NoSession}
          /\ \E phase \in {"log", "release"} :
               pc' = [pc EXCEPT ![s] = phase]
          /\ cursor' = [cursor EXCEPT ![s] = 1]
          /\ \/ result' = result
             \/ result' = [result EXCEPT ![s] = Outcome(s)]
      BY <2>1 DEF RestoreDone, ReturnUnlocking, Return, Goto
    <3>3. UNCHANGED <<sessionVars, protections, failure, restoreFailed,
                      registry, codePage, mem, protection, stale>>
      BY <2>1 DEF RestoreDone
    <3>4. pc' \in [Sessions -> Phases]
      BY <3>1, <3>2 DEF TypeOK
    <3>5. result' \in [Sessions -> Results]
      BY <3>1, <3>2 DEF TypeOK
    <3>6. lock' \in Sessions \cup {NoSession}
      BY <3>2 DEF TypeOK
    <3>7. cursor' \in [Sessions -> Nat \ {0}]
      BY <3>2 DEF TypeOK
    <3>. QED  BY <3>3, <3>4, <3>5, <3>6, <3>7 DEF TypeOK, sessionVars
  <2>2. CASE Log(s)
    BY <2>2 DEF TypeOK, Log, ReturnUnlocking, Return, Goto, sessionVars,
                Phases, Results
  <2>. QED  BY <1>13, <2>1, <2>2
<1>14. ASSUME NEW s \in Sessions, ReleasePages(s)
       PROVE  TypeOK'
  BY <1>14 DEF TypeOK, ReleasePages, Goto, Phases
<1>15. ASSUME NEW a \in HostCells, NEW b \in Data, HostWrite(a, b)
       PROVE  TypeOK'
  BY <1>15, CodeAssumption DEF TypeOK, HostWrite, Byte, sessionVars, callVars
<1>16. CASE UNCHANGED vars
  BY <1>16 DEF TypeOK, vars
<1>. QED
  BY <1>1, <1>2, <1>3, <1>4, <1>5, <1>6, <1>7, <1>8, <1>9, <1>10, <1>11,
     <1>12, <1>13, <1>14, <1>15, <1>16
     DEF Next, Prepare, Install, Finished

(* Type correctness: every variable keeps the type its comment claims. *)
THEOREM TypeCorrect == Spec => []TypeOK
BY TypeInit, TypeStep, PTL DEF Spec
-----------------------------------------------------------------------------
(* A step of one session leaves the fields and locals of the others alone. *)

SessionStep(s) ==
    Prepare(s) \/ DropSession(s) \/ InstallPermanently(s) \/ Install(s)

SameSession(t) ==
    /\ pages'[t] = pages[t] /\ pending'[t] = pending[t]
    /\ pc'[t] = pc[t] /\ cursor'[t] = cursor[t]
    /\ protections'[t] = protections[t]
    /\ failure'[t] = failure[t] /\ restoreFailed'[t] = restoreFailed[t]
    /\ result'[t] = result[t]

LEMMA OthersUntouched ==
    ASSUME TypeOK, NEW s \in Sessions, SessionStep(s),
           NEW t \in Sessions, t # s
    PROVE  SameSession(t)
<1>1. CASE Prepare(s)
  BY <1>1 DEF TypeOK, Prepare, Overwrite, PrepareDetour, PushPending,
              SameSession, callVars
<1>2. CASE DropSession(s) \/ InstallPermanently(s)
  BY <1>2 DEF TypeOK, DropSession, InstallPermanently, Return, Goto,
              SameSession, sessionVars
<1>3. CASE SealPage(s) \/ FlushPage(s) \/ PagesDone(s) \/ LockRegistry(s)
  BY <1>3 DEF TypeOK, SealPage, FlushPage, PagesDone, LockRegistry, Return,
              Goto, Advance, SameSession, sessionVars
<1>4. CASE CheckOverlap(s) \/ ValidatePatch(s) \/ ValidateDone(s)
  BY <1>4 DEF TypeOK, CheckOverlap, ValidatePatch, ValidateDone, Return,
              ReturnUnlocking, Goto, Advance, SameSession, sessionVars
<1>5. CASE ProtectPage(s) \/ ProtectDone(s) \/ RevalidatePatch(s)
  BY <1>5 DEF TypeOK, ProtectPage, ProtectDone, RevalidatePatch, Goto,
              Advance, SameSession, sessionVars
<1>6. CASE Commit(s) \/ CopyPatch(s) \/ CopyDone(s) \/ FlushPatch(s)
           \/ FlushDone(s)
  BY <1>6 DEF TypeOK, Commit, CopyPatch, CopyDone, FlushPatch, FlushDone,
              Goto, Advance, SameSession, sessionVars
<1>7. CASE RestorePage(s) \/ RestoreDone(s) \/ Log(s) \/ ReleasePages(s)
  BY <1>7 DEF TypeOK, RestorePage, RestoreDone, Log, ReleasePages, Return,
              ReturnUnlocking, Goto, SameSession, sessionVars
<1>. QED  BY <1>1, <1>2, <1>3, <1>4, <1>5, <1>6, <1>7
          DEF SessionStep, Install
-----------------------------------------------------------------------------
(* Mutual exclusion under the registry's mutex. *)
LEMMA LockSession ==
    ASSUME TypeOK, LockInv, NEW s \in Sessions, SessionStep(s)
    PROVE  LockInv'
<1>1. \A t \in Sessions : t # s => pc'[t] = pc[t]
  BY OthersUntouched DEF SameSession
<1>2. CASE LockRegistry(s)
  BY <1>1, <1>2, ConstantsAssumption
     DEF TypeOK, LockInv, LockRegistry, Goto, LockedPhases
<1>3. CASE lock' = NoSession /\ pc[s] \in LockedPhases /\ pc'[s] = "release"
  BY <1>1, <1>3, ConstantsAssumption DEF LockInv, LockedPhases
<1>4. CASE lock' = lock /\ (pc'[s] \in LockedPhases <=> pc[s] \in LockedPhases)
  BY <1>1, <1>4 DEF LockInv
<1>5. CASE Prepare(s) \/ DropSession(s) \/ InstallPermanently(s)
  BY <1>5, <1>4 DEF TypeOK, Prepare, Overwrite, PrepareDetour, DropSession,
     InstallPermanently, Return, Goto, LockedPhases, callVars, processVars
<1>6. CASE SealPage(s) \/ FlushPage(s) \/ PagesDone(s)
  BY <1>6, <1>4 DEF TypeOK, SealPage, FlushPage, PagesDone, Return, Goto,
     Advance, LockedPhases, processVars
<1>7. CASE CheckOverlap(s) \/ ValidatePatch(s) \/ RestoreDone(s) \/ Log(s)
  BY <1>7, <1>3, <1>4 DEF TypeOK, CheckOverlap, ValidatePatch, RestoreDone,
     Log, ReturnUnlocking, Return, Goto, Advance, LockedPhases
<1>8. CASE ValidateDone(s) \/ ProtectPage(s) \/ ProtectDone(s)
           \/ RevalidatePatch(s)
  BY <1>8, <1>4 DEF TypeOK, ValidateDone, ProtectPage, ProtectDone,
     RevalidatePatch, Goto, Advance, LockedPhases, processVars
<1>9. CASE Commit(s) \/ CopyPatch(s) \/ CopyDone(s) \/ FlushPatch(s)
           \/ FlushDone(s) \/ RestorePage(s) \/ ReleasePages(s)
  BY <1>9, <1>4 DEF TypeOK, Commit, CopyPatch, CopyDone, FlushPatch, FlushDone,
     RestorePage, ReleasePages, Goto, Advance, LockedPhases, processVars
<1>. QED  BY <1>2, <1>5, <1>6, <1>7, <1>8, <1>9 DEF SessionStep, Install
-----------------------------------------------------------------------------
(* Which action of a session changes what, beside its own control. *)
LEMMA Frames ==
    ASSUME NEW s \in Sessions, SessionStep(s)
    PROVE  /\ Prepare(s) \/ pending' = pending
           /\ Commit(s) \/ registry' = registry
           /\ Prepare(s) \/ Commit(s) \/ ReleasePages(s) \/ pages' = pages
           /\ \/ Prepare(s) \/ SealPage(s) \/ FlushPage(s) \/ ReleasePages(s)
              \/ codePage' = codePage
           /\ CopyPatch(s) \/ mem' = mem
           /\ CopyPatch(s) \/ FlushPatch(s) \/ stale' = stale
           /\ \/ ProtectPage(s) \/ RestorePage(s)
              \/ (protection' = protection /\ protections' = protections)
           /\ RestorePage(s) \/ restoreFailed' = restoreFailed
<1>1. CASE Prepare(s)
  BY <1>1 DEF Prepare, Overwrite, PrepareDetour, callVars, processVars
<1>2. CASE DropSession(s) \/ InstallPermanently(s) \/ PagesDone(s)
           \/ ValidateDone(s) \/ ProtectDone(s) \/ CopyDone(s) \/ FlushDone(s)
           \/ RevalidatePatch(s)
  BY <1>2 DEF DropSession, InstallPermanently, PagesDone, ValidateDone,
     ProtectDone, CopyDone, FlushDone, RevalidatePatch, sessionVars,
     processVars
<1>3. CASE SealPage(s) \/ FlushPage(s) \/ LockRegistry(s) \/ CheckOverlap(s)
           \/ ValidatePatch(s) \/ RestoreDone(s) \/ Log(s)
  BY <1>3 DEF SealPage, FlushPage, LockRegistry, CheckOverlap, ValidatePatch,
     RestoreDone, Log, sessionVars
<1>4. CASE ProtectPage(s) \/ RestorePage(s) \/ Commit(s) \/ CopyPatch(s)
           \/ FlushPatch(s) \/ ReleasePages(s)
  BY <1>4 DEF ProtectPage, RestorePage, Commit, CopyPatch, FlushPatch,
     ReleasePages, sessionVars
<1>. QED  BY <1>1, <1>2, <1>3, <1>4 DEF SessionStep, Install
-----------------------------------------------------------------------------
(* Preparation. *)

(* The patch a preparation adds. *)
NewPatch(s, patch) ==
    /\ pending' = [pending EXCEPT ![s] = Append(@, patch)]
    /\ \A i \in DOMAIN pending[s] :
         ~RangesOverlap(patch.address, Size(patch), pending[s][i].address,
                        Size(pending[s][i]))
    /\ \A k \in 1 .. Size(patch), p \in CodePages :
         patch.replacement[k] = Jump(p) => p = patch.page
    /\ patch.page # NoPage => patch.page \in SeqElements(pages'[s])

LEMMA PrepareFacts ==
    ASSUME TypeOK, NEW s \in Sessions, Prepare(s)
    PROVE  /\ pc[s] = "open" /\ pc' = pc /\ UNCHANGED callVars
           /\ \E patch \in Patch : NewPatch(s, patch)
<1>1. ASSUME NEW address \in Sites, NEW data \in Payloads,
             Overwrite(s, address, data)
      PROVE  \E patch \in Patch : NewPatch(s, patch)
  <2>. DEFINE patch == [address |-> address,
                        expected |-> ReadCode(address, Len(data)),
                        replacement |-> data, page |-> NoPage]
  <2>1. /\ address \in Address /\ data \in Seq(Data) /\ data \in Seq(Byte)
        /\ address + Len(data) <= UsizeMax /\ Len(data) > 0
    BY <1>1, CodeAssumption, CheckedRange
       DEF Byte, Overwrite, ensure_patch_does_not_overlap
  <2>2. /\ ReadCode(address, Len(data)) \in Seq(Byte)
        /\ Len(ReadCode(address, Len(data))) = Len(data)
    BY <2>1, ReadCodeType DEF TypeOK
  <2>3. patch \in Patch
    BY <2>1, <2>2 DEF Patch
  <2>4. \A k \in 1 .. Len(data), p \in CodePages : data[k] # Jump(p)
    BY <2>1, CodeAssumption
  <2>5. NewPatch(s, patch)
    BY <1>1, <2>4 DEF NewPatch, Overwrite, PushPending, Size,
                      ensure_patch_does_not_overlap
  <2>. QED  BY <2>3, <2>5
<1>2. ASSUME NEW address \in Sites, NEW size \in DetourSizes,
             NEW p \in CodePages, PrepareDetour(s, address, size, p)
      PROVE  \E patch \in Patch : NewPatch(s, patch)
  <2>. DEFINE jump == build_near_jump(p, size)
              patch == [address |-> address,
                        expected |-> ReadCode(address, Len(jump)),
                        replacement |-> jump, page |-> p]
  <2>1. /\ address \in Address /\ size \in Nat
        /\ jump \in Seq(Byte) /\ Len(jump) = size
        /\ address + size <= UsizeMax /\ size > 0
    BY <1>2, CodeAssumption, CheckedRange, NearJumpType
       DEF PrepareDetour, ensure_patch_does_not_overlap
  <2>2. /\ ReadCode(address, size) \in Seq(Byte)
        /\ Len(ReadCode(address, size)) = size
    BY <2>1, ReadCodeType DEF TypeOK
  <2>3. patch \in Patch
    BY <2>1, <2>2 DEF Patch
  <2>4. \A k \in 1 .. size, q \in CodePages : jump[k] = Jump(q) => q = p
    BY <2>1, ConstantsAssumption, CodeAssumption DEF build_near_jump, Jump
  <2>5. p \in SeqElements(pages'[s])
    <3>1. CASE p \in SeqElements(pages[s]) /\ pages' = pages
      BY <3>1
    <3>2. CASE pages' = [pages EXCEPT ![s] = Append(@, p)]
      <4>1. pages[s] \in Seq(CodePages) /\ pages'[s] = Append(pages[s], p)
        BY <3>2 DEF TypeOK
      <4>. QED  BY <4>1 DEF SeqElements
    <3>. QED  BY <1>2, <3>1, <3>2 DEF PrepareDetour
  <2>6. NewPatch(s, patch)
    BY <1>2, <2>1, <2>4, <2>5 DEF NewPatch, PrepareDetour, PushPending, Size,
                                  ensure_patch_does_not_overlap
  <2>. QED  BY <2>3, <2>6
<1>. QED  BY <1>1, <1>2 DEF Prepare, Overwrite, PrepareDetour, callVars

(* Patches already prepared keep their positions. *)
LEMMA AppendFacts ==
    ASSUME TypeOK, NEW s \in Sessions, NEW patch \in Patch, NewPatch(s, patch)
    PROVE  /\ Len(pending'[s]) = Len(pending[s]) + 1
           /\ DOMAIN pending[s] = 1 .. Len(pending[s])
           /\ Len(pending[s]) \in Nat
           /\ DOMAIN pending'[s] = 1 .. Len(pending[s]) + 1
           /\ \A i \in DOMAIN pending[s] : pending'[s][i] = pending[s][i]
           /\ pending'[s][Len(pending[s]) + 1] = patch
           /\ \A t \in Sessions : t # s => pending'[t] = pending[t]
<1>1. pending[s] \in Seq(Patch) /\ pending'[s] = Append(pending[s], patch)
  BY DEF TypeOK, NewPatch
<1>2. \A t \in Sessions : t # s => pending'[t] = pending[t]
  BY DEF TypeOK, NewPatch
<1>. QED  BY <1>1, <1>2

(* Prepared patches never overlap and jump to their own page only. *)
LEMMA PendingSession ==
    ASSUME TypeOK, TypeOK', PendingInv, NEW s \in Sessions, SessionStep(s)
    PROVE  PendingInv'
<1>1. CASE pending' = pending
  BY <1>1 DEF PendingInv, Size
<1>2. CASE Prepare(s)
  <2>1. PICK patch \in Patch : NewPatch(s, patch)
    BY <1>2, PrepareFacts
  <2>2. \A i \in DOMAIN pending[s] :
          /\ ~RangesOverlap(patch.address, Size(patch), pending[s][i].address,
                            Size(pending[s][i]))
          /\ ~RangesOverlap(pending[s][i].address, Size(pending[s][i]),
                            patch.address, Size(patch))
    BY <2>1 DEF NewPatch, RangesOverlap
  <2>3. \A k \in 1 .. Size(patch), p \in CodePages :
           patch.replacement[k] = Jump(p) => p = patch.page
    BY <2>1 DEF NewPatch
  <2>. DEFINE n == Len(pending[s]) + 1
              Own(q) == \A k \in 1 .. Size(q), p \in CodePages :
                          q.replacement[k] = Jump(p) => p = q.page
              Apart(q, r) == ~RangesOverlap(q.address, Size(q), r.address,
                                            Size(r))
  <2>4. \A t \in Sessions : t # s => pending'[t] = pending[t]
    BY <2>1, AppendFacts
  <2>5. /\ DOMAIN pending'[s] = DOMAIN pending[s] \cup {n}
        /\ \A i \in DOMAIN pending[s] : pending'[s][i] = pending[s][i]
        /\ pending'[s][n] = patch
    BY <2>1, AppendFacts
  <2>6. \A t \in Sessions : \A i \in DOMAIN pending[t] :
          /\ Own(pending[t][i])
          /\ \A j \in DOMAIN pending[t] :
               j # i => Apart(pending[t][i], pending[t][j])
    BY DEF PendingInv
  <2>7. \A t \in Sessions : \A i \in DOMAIN pending'[t] :
          /\ Own(pending'[t][i])
          /\ \A j \in DOMAIN pending'[t] :
               j # i => Apart(pending'[t][i], pending'[t][j])
    <3>. HIDE DEF Own, Apart
    <3>1. Own(patch) /\ \A i \in DOMAIN pending[s] :
            Apart(patch, pending[s][i]) /\ Apart(pending[s][i], patch)
      BY <2>2, <2>3 DEF Own, Apart
    <3>. QED  BY <2>4, <2>5, <2>6, <3>1
  <2>. QED  BY <2>7 DEF PendingInv, Size
<1>. QED  BY <1>1, <1>2, Frames
-----------------------------------------------------------------------------
(* The control flow of install_permanently. *)
PhaseEdges ==
    {<<"open", "seal">>, <<"open", "release">>,
     <<"seal", "flush_pages">>, <<"seal", "release">>,
     <<"flush_pages", "lock">>, <<"flush_pages", "release">>,
     <<"lock", "overlap">>,
     <<"overlap", "validate">>, <<"overlap", "release">>,
     <<"validate", "protect">>, <<"validate", "release">>,
     <<"protect", "revalidate">>, <<"protect", "rollback">>,
     <<"revalidate", "copy">>, <<"revalidate", "rollback">>,
     <<"copy", "flush">>, <<"flush", "restore">>,
     <<"rollback", "release">>,
     <<"restore", "log">>, <<"restore", "release">>, <<"log", "release">>,
     <<"release", "done">>}

LEMMA Edges ==
    ASSUME TypeOK, NEW s \in Sessions, SessionStep(s)
    PROVE  pc'[s] = pc[s] \/ <<pc[s], pc'[s]>> \in PhaseEdges
<1>1. CASE Prepare(s)
  BY <1>1, PrepareFacts
<1>2. CASE DropSession(s) \/ InstallPermanently(s) \/ PagesDone(s)
  BY <1>2 DEF TypeOK, DropSession, InstallPermanently, PagesDone, Return,
     Goto, PhaseEdges
<1>3. CASE SealPage(s) \/ FlushPage(s) \/ LockRegistry(s)
  BY <1>3 DEF TypeOK, SealPage, FlushPage, LockRegistry, Return, Goto,
     Advance, PhaseEdges
<1>4. CASE CheckOverlap(s) \/ ValidatePatch(s) \/ RestoreDone(s) \/ Log(s)
  BY <1>4 DEF TypeOK, CheckOverlap, ValidatePatch, RestoreDone, Log,
     ReturnUnlocking, Return, Goto, Advance, PhaseEdges
<1>5. CASE ValidateDone(s) \/ ProtectDone(s) \/ CopyDone(s) \/ FlushDone(s)
  BY <1>5 DEF TypeOK, ValidateDone, ProtectDone, CopyDone, FlushDone, Goto,
     PhaseEdges
<1>6. CASE ProtectPage(s) \/ RevalidatePatch(s) \/ FlushPatch(s)
  BY <1>6 DEF TypeOK, ProtectPage, RevalidatePatch, FlushPatch, Goto,
     Advance, PhaseEdges
<1>7. CASE Commit(s) \/ CopyPatch(s) \/ RestorePage(s) \/ ReleasePages(s)
  BY <1>7 DEF TypeOK, Commit, CopyPatch, RestorePage, ReleasePages, Goto,
     Advance, PhaseEdges
<1>. QED  BY <1>1, <1>2, <1>3, <1>4, <1>5, <1>6, <1>7
          DEF SessionStep, Install

(* Where the actions that move pages or registry entries stand. *)
LEMMA Phase ==
    ASSUME TypeOK, NEW s \in Sessions
    PROVE  /\ Prepare(s) => pc[s] = "open" /\ pc'[s] = "open"
           /\ Commit(s) => pc[s] = "revalidate" /\ pc'[s] = "copy"
           /\ ReleasePages(s) => pc[s] = "release" /\ pc'[s] = "done"
           /\ CopyPatch(s) => pc[s] = "copy" /\ pc'[s] = "copy"
           /\ FlushPatch(s) => pc[s] = "flush"
           /\ SealPage(s) => pc[s] = "seal"
           /\ FlushPage(s) => pc[s] = "flush_pages"
           /\ ProtectPage(s) => pc[s] = "protect"
           /\ RestorePage(s) => /\ pc[s] \in {"rollback", "restore"}
                                /\ pc'[s] = pc[s]
<1>1. Prepare(s) => pc[s] = "open" /\ pc'[s] = "open"
  BY PrepareFacts
<1>. QED  BY <1>1 DEF TypeOK, Commit, ReleasePages, CopyPatch, FlushPatch,
          SealPage, FlushPage, ProtectPage, RestorePage, Goto, Advance

LEMMA CommitEdge ==
    ASSUME TypeOK, NEW s \in Sessions, SessionStep(s), pc'[s] = "copy"
    PROVE  pc[s] = "copy" \/ Commit(s)
<1>1. CASE pc[s] = "copy"
  BY <1>1
<1>2. CASE pc[s] # "copy"
  <2>1. pc[s] = "revalidate"
    BY <1>2, Edges DEF PhaseEdges
  <2>2. RevalidatePatch(s) \/ Commit(s)
    BY <2>1, PrepareFacts DEF SessionStep, Install, DropSession,
       InstallPermanently, SealPage, FlushPage, PagesDone, LockRegistry,
       CheckOverlap, ValidatePatch, ValidateDone, ProtectPage, ProtectDone,
       CopyPatch, CopyDone, FlushPatch, FlushDone, RestorePage, RestoreDone, Log,
       ReleasePages
  <2>. QED  BY <2>1, <2>2 DEF TypeOK, RevalidatePatch, Goto, Advance
<1>. QED  BY <1>1, <1>2
-----------------------------------------------------------------------------
(* Registry entries describe committed sessions exactly. *)
LEMMA RegistrySession ==
    ASSUME TypeOK, TypeOK', RegistryInv, NEW s \in Sessions, SessionStep(s)
    PROVE  RegistryInv'
<1>. DEFINE After == {"copy", "flush", "restore", "log", "release", "done"}
            Good(e) == /\ pc[e.session] \in After
                       /\ pages[e.session] = <<>>
                       /\ e.patches = PatchSet(e.session)
<1>1. ASSUME NEW e \in registry
      PROVE  Good(e)'
  <2>1. e.session \in Sessions /\ Good(e)
    BY DEF TypeOK, PermanentPatchSet, RegistryInv
  <2>2. CASE e.session # s
    BY <2>1, <2>2, OthersUntouched DEF SameSession, PatchSet, Size
  <2>3. CASE e.session = s
    <3>1. pc'[s] \in After /\ ~Prepare(s) /\ ~Commit(s)
      BY <2>1, <2>3, Edges, Phase DEF PhaseEdges
    <3>2. pages'[s] = <<>>
      <4>1. CASE ReleasePages(s)
        BY <4>1 DEF TypeOK, ReleasePages
      <4>. QED  BY <4>1, <2>1, <2>3, <3>1, Frames
    <3>. QED  BY <2>1, <2>3, <3>1, <3>2, Frames DEF PatchSet, Size
  <2>. QED  BY <2>2, <2>3
<1>2. ASSUME NEW e \in registry' \ registry
      PROVE  Good(e)'
  <2>1. Commit(s)
    BY Frames
  <2>2. e.session = s /\ e.patches = PatchSet(s)
    BY <2>1 DEF Commit
  <2>3. pages'[s] = <<>> /\ pc'[s] = "copy" /\ pending' = pending
    BY <2>1 DEF TypeOK, Commit, Goto
  <2>. QED  BY <2>2, <2>3 DEF PatchSet, Size
<1>3. ASSUME NEW t \in Sessions, pc'[t] \in {"copy", "flush", "restore", "log"}
      PROVE  Committed(t)'
  <2>1. registry \subseteq registry'
    BY Frames DEF Commit
  <2>2. CASE Commit(s) /\ t = s
    <3>. DEFINE e == [session |-> s, pages |-> SeqElements(pages[s]),
                      patches |-> PatchSet(s)]
    <3>1. e \in registry' /\ e.session = t
      BY <2>2 DEF Commit
    <3>. QED  BY <3>1 DEF Committed
  <2>3. CASE pc[t] \in {"copy", "flush", "restore", "log"}
    <3>1. PICK e \in registry : e.session = t
      BY <2>3 DEF RegistryInv, Committed
    <3>. QED  BY <2>1, <3>1 DEF Committed
  <2>4. CASE pc[t] \notin {"copy", "flush", "restore", "log"}
    <3>1. t = s
      BY <1>3, <2>4, OthersUntouched DEF SameSession
    <3>2. pc'[s] = "copy" /\ pc[s] # "copy"
      BY <1>3, <2>4, <3>1, Edges DEF PhaseEdges
    <3>3. Commit(s)
      BY <3>2, CommitEdge
    <3>. QED  BY <2>2, <3>1, <3>3
  <2>. QED  BY <2>3, <2>4
<1>. QED  BY <1>1, <1>2, <1>3 DEF RegistryInv
-----------------------------------------------------------------------------
(* Ownership of trampoline pages. *)

(* The three parts of PageInv. *)
PermanentFlushed == \A p \in PermanentPages : codePage[p] = "flushed"
OwnedBy(t) == \A p \in SeqElements(pages[t]) :
                /\ codePage[p] # "free"
                /\ p \notin PermanentPages
                /\ \A u \in Sessions : u # t => p \notin SeqElements(pages[u])
SealedSoFar(t) ==
    \A i \in DOMAIN pages[t] :
        /\ pc[t] = "seal" /\ i < cursor[t] => codePage[pages[t][i]] = "sealed"
        /\ pc[t] = "flush_pages" =>
             /\ i < cursor[t] => codePage[pages[t][i]] = "flushed"
             /\ codePage[pages[t][i]] \in {"sealed", "flushed"}
        /\ pc[t] \in {"lock", "overlap", "validate", "protect", "revalidate"}
             => codePage[pages[t][i]] = "flushed"

LEMMA PageInvParts ==
    PageInv <=> /\ PermanentFlushed
                /\ \A t \in Sessions : OwnedBy(t) /\ SealedSoFar(t)
BY DEF PageInv, PermanentFlushed, OwnedBy, SealedSoFar

(* A step that changes only code pages its session owns, or a free one. *)
LEMMA OthersPages ==
    ASSUME TypeOK, PageInv, NEW s \in Sessions, SessionStep(s),
           NEW t \in Sessions, t # s,
           \A p \in CodePages : codePage'[p] # codePage[p] =>
               p \in SeqElements(pages[s]) \/ codePage[p] = "free"
    PROVE  SealedSoFar(t)' /\ \A p \in SeqElements(pages[t]) :
                                codePage'[p] = codePage[p]
<1>1. OwnedBy(t) /\ SealedSoFar(t)
  BY PageInvParts
<1>2. SeqElements(pages[t]) \subseteq CodePages
  BY DEF TypeOK, SeqElements
<1>3. \A p \in SeqElements(pages[t]) : codePage'[p] = codePage[p]
  BY <1>1, <1>2 DEF OwnedBy
<1>4. \A i \in DOMAIN pages[t] : pages[t][i] \in SeqElements(pages[t])
  BY DEF SeqElements
<1>5. pages'[t] = pages[t] /\ pc'[t] = pc[t] /\ cursor'[t] = cursor[t]
  BY OthersUntouched DEF SameSession
<1>. QED  BY <1>1, <1>3, <1>4, <1>5 DEF SealedSoFar

LEMMA PagePrepare ==
    ASSUME TypeOK, PageInv, NEW s \in Sessions, SessionStep(s), Prepare(s)
    PROVE  PageInv'
<1>1. PermanentPages' = PermanentPages
  BY DEF Prepare, Overwrite, PrepareDetour, processVars, PermanentPages
<1>2. PermanentFlushed /\ \A t \in Sessions : OwnedBy(t) /\ SealedSoFar(t)
  BY PageInvParts
<1>3. \/ pages' = pages /\ codePage' = codePage
      \/ \E p \in CodePages :
           /\ codePage[p] = "free"
           /\ pages' = [pages EXCEPT ![s] = Append(@, p)]
           /\ codePage' = [codePage EXCEPT ![p] = "writable"]
  BY DEF Prepare, Overwrite, PrepareDetour, processVars
<1>4. CASE pages' = pages /\ codePage' = codePage
  <2>1. \A t \in Sessions : SealedSoFar(t)'
    BY <1>2, <1>4, PrepareFacts DEF SealedSoFar, callVars
  <2>. QED  BY <1>1, <1>2, <1>4, <2>1, PageInvParts
            DEF PageInv, PermanentFlushed, OwnedBy, SealedSoFar
<1>5. ASSUME NEW p \in CodePages, codePage[p] = "free",
             pages' = [pages EXCEPT ![s] = Append(@, p)],
             codePage' = [codePage EXCEPT ![p] = "writable"]
      PROVE  PageInv'
  <2>1. /\ SeqElements(pages'[s]) = SeqElements(pages[s]) \cup {p}
        /\ \A t \in Sessions : t # s => pages'[t] = pages[t]
    <3>1. pages[s] \in Seq(CodePages) /\ pages'[s] = Append(pages[s], p)
      BY <1>5 DEF TypeOK
    <3>2. /\ DOMAIN pages'[s] = DOMAIN pages[s] \cup {Len(pages[s]) + 1}
          /\ pages'[s][Len(pages[s]) + 1] = p
          /\ \A i \in DOMAIN pages[s] : pages'[s][i] = pages[s][i]
      BY <3>1
    <3>3. \A t \in Sessions : t # s => pages'[t] = pages[t]
      BY <1>5 DEF TypeOK
    <3>. QED  BY <3>2, <3>3 DEF SeqElements
  <2>2. /\ codePage'[p] = "writable"
        /\ \A q \in CodePages : q # p => codePage'[q] = codePage[q]
    BY <1>5 DEF TypeOK
  <2>3. PermanentPages \subseteq CodePages
    BY DEF TypeOK, PermanentPages, PermanentPatchSet
  <2>4. \A t \in Sessions : SeqElements(pages[t]) \subseteq CodePages
    BY DEF TypeOK, SeqElements
  <2>5. p \notin PermanentPages /\
        \A t \in Sessions : p \notin SeqElements(pages[t])
    BY <1>2, <1>5 DEF PermanentFlushed, OwnedBy
  <2>6. PermanentFlushed'
    BY <1>1, <1>2, <2>2, <2>3, <2>5 DEF PermanentFlushed
  <2>7. \A t \in Sessions : OwnedBy(t)'
    BY <1>1, <1>2, <2>1, <2>2, <2>4, <2>5 DEF OwnedBy
  <2>8. \A t \in Sessions : SealedSoFar(t)'
    <3>1. \A t \in Sessions : t # s => SealedSoFar(t)'
      BY <1>5, <2>2, OthersPages
    <3>2. SealedSoFar(s)'
      BY PrepareFacts DEF SealedSoFar
    <3>. QED  BY <3>1, <3>2
  <2>. QED  BY <2>6, <2>7, <2>8
            DEF PageInv, PermanentFlushed, OwnedBy, SealedSoFar
<1>. QED  BY <1>3, <1>4, <1>5

(* The pages of other sessions, and permanent ones, are never sealed. *)
LEMMA PageSealFlush ==
    ASSUME TypeOK, PageInv, NEW s \in Sessions, SessionStep(s),
           SealPage(s) \/ FlushPage(s)
    PROVE  PageInv'
<1>1. PermanentPages' = PermanentPages /\ pages' = pages
  BY DEF SealPage, FlushPage, PermanentPages, sessionVars
<1>2. PermanentFlushed /\ \A t \in Sessions : OwnedBy(t) /\ SealedSoFar(t)
  BY PageInvParts
<1>. DEFINE page == pages[s][cursor[s]]
<1>3. page \in SeqElements(pages[s]) /\ page \in CodePages
  BY DEF SealPage, FlushPage, SeqElements, TypeOK
<1>4. /\ \A p \in CodePages : p # page => codePage'[p] = codePage[p]
      /\ codePage'[page] # "free"
  BY <1>2, <1>3 DEF SealPage, FlushPage, TypeOK, OwnedBy
<1>5. PermanentPages \subseteq CodePages /\ page \notin PermanentPages
  BY <1>2, <1>3 DEF TypeOK, PermanentPages, PermanentPatchSet, OwnedBy
<1>6. PermanentFlushed'
  BY <1>1, <1>2, <1>4, <1>5 DEF PermanentFlushed
<1>7. \A t \in Sessions : OwnedBy(t)'
  <2>1. \A t \in Sessions : SeqElements(pages[t]) \subseteq CodePages
    BY DEF TypeOK, SeqElements
  <2>. QED  BY <1>1, <1>2, <1>4, <2>1 DEF OwnedBy
<1>8. SealedSoFar(s)'
  <2>1. pages[s] \in Seq(CodePages) /\ cursor[s] \in Nat /\ SealedSoFar(s)
    BY <1>2 DEF TypeOK
  <2>2. CASE pc'[s] = "release"
    BY <2>2 DEF SealedSoFar
  <2>3. CASE SealPage(s) /\ pc'[s] # "release"
    <3>1. pc[s] = "seal" /\ pc'[s] = "seal" /\ cursor'[s] = cursor[s] + 1
          /\ codePage' = [codePage EXCEPT ![page] = "sealed"]
      BY <2>3 DEF TypeOK, SealPage, Advance, Return, Goto
    <3>. QED  BY <1>1, <1>3, <1>4, <2>1, <3>1 DEF SealedSoFar, TypeOK
  <2>4. CASE FlushPage(s) /\ pc'[s] # "release"
    <3>1. pc[s] = "flush_pages" /\ pc'[s] = "flush_pages"
          /\ cursor'[s] = cursor[s] + 1 /\ cursor[s] \in DOMAIN pages[s]
          /\ codePage' = [codePage EXCEPT ![page] =
                            IF @ = "sealed" THEN "flushed" ELSE @]
      BY <2>4 DEF TypeOK, FlushPage, Advance, Return, Goto
    <3>2. codePage'[page] = "flushed"
      BY <1>3, <2>1, <3>1 DEF SealedSoFar, TypeOK
    <3>. QED  BY <1>1, <1>3, <1>4, <2>1, <3>1, <3>2 DEF SealedSoFar, TypeOK
  <2>. QED  BY <2>2, <2>3, <2>4
<1>9. \A t \in Sessions : SealedSoFar(t)'
  BY <1>3, <1>4, <1>8, OthersPages
<1>. QED  BY <1>6, <1>7, <1>9
          DEF PageInv, PermanentFlushed, OwnedBy, SealedSoFar
(* The commit hands flushed pages over to the registry. *)
LEMMA PageCommit ==
    ASSUME TypeOK, PageInv, NEW s \in Sessions, SessionStep(s), Commit(s)
    PROVE  PageInv'
<1>1. PermanentFlushed /\ \A t \in Sessions : OwnedBy(t) /\ SealedSoFar(t)
  BY PageInvParts
<1>2. /\ codePage' = codePage /\ pages'[s] = <<>>
      /\ \A t \in Sessions : t # s => pages'[t] = pages[t]
  BY DEF TypeOK, Commit
<1>3. PermanentPages' = PermanentPages \cup SeqElements(pages[s])
  <2>. DEFINE e == [session |-> s, pages |-> SeqElements(pages[s]),
                    patches |-> PatchSet(s)]
  <2>1. registry' = registry \cup {e} /\ e.pages = SeqElements(pages[s])
    BY DEF Commit
  <2>. HIDE DEF e
  <2>. QED  BY <2>1 DEF PermanentPages
<1>4. \A p \in SeqElements(pages[s]) : codePage[p] = "flushed"
  BY <1>1 DEF SealedSoFar, SeqElements, Commit
<1>5. PermanentFlushed'
  BY <1>1, <1>2, <1>3, <1>4 DEF PermanentFlushed
<1>6. SeqElements(pages'[s]) = {} /\ DOMAIN pages'[s] = {}
  BY <1>2 DEF SeqElements
<1>7. \A t \in Sessions : OwnedBy(t)'
  BY <1>1, <1>2, <1>3, <1>6 DEF OwnedBy
<1>8. \A t \in Sessions : SealedSoFar(t)'
  <2>1. SealedSoFar(s)'
    BY <1>6 DEF SealedSoFar
  <2>. QED  BY <1>2, <2>1, OthersPages
<1>. QED  BY <1>5, <1>7, <1>8
          DEF PageInv, PermanentFlushed, OwnedBy, SealedSoFar

(* Only pages nobody else relies on are unmapped. *)
LEMMA PageRelease ==
    ASSUME TypeOK, PageInv, NEW s \in Sessions, SessionStep(s),
           ReleasePages(s)
    PROVE  PageInv'
<1>1. PermanentFlushed /\ \A t \in Sessions : OwnedBy(t) /\ SealedSoFar(t)
  BY PageInvParts
<1>2. /\ PermanentPages' = PermanentPages /\ pages'[s] = <<>>
      /\ \A t \in Sessions : t # s => pages'[t] = pages[t]
  BY DEF TypeOK, ReleasePages, PermanentPages
<1>3. \A p \in CodePages : codePage'[p] # codePage[p] => p \in SeqElements(pages[s])
  BY DEF ReleasePages
<1>4. PermanentPages \subseteq CodePages
  BY DEF TypeOK, PermanentPages, PermanentPatchSet
<1>5. PermanentFlushed'
  BY <1>1, <1>2, <1>3, <1>4 DEF PermanentFlushed, OwnedBy
<1>6. SeqElements(pages'[s]) = {} /\ DOMAIN pages'[s] = {}
  BY <1>2 DEF SeqElements
<1>7. \A t \in Sessions : t # s =>
        \A p \in SeqElements(pages[t]) : codePage'[p] = codePage[p]
  BY <1>3, OthersPages
<1>8. \A t \in Sessions : OwnedBy(t)'
  <2>1. \A t, u \in Sessions : SeqElements(pages'[u]) \subseteq SeqElements(pages[u])
    BY <1>2, <1>6
  <2>. QED  BY <1>1, <1>2, <1>6, <1>7, <2>1 DEF OwnedBy
<1>9. \A t \in Sessions : SealedSoFar(t)'
  <2>1. SealedSoFar(s)'
    BY <1>6 DEF SealedSoFar
  <2>. QED  BY <1>3, <2>1, OthersPages
<1>. QED  BY <1>5, <1>8, <1>9
          DEF PageInv, PermanentFlushed, OwnedBy, SealedSoFar

LEMMA PagePhases ==
    ASSUME TypeOK, PageInv, NEW s \in Sessions, SessionStep(s),
           pages' = pages, codePage' = codePage, ~Prepare(s), ~SealPage(s),
           ~FlushPage(s)
    PROVE  SealedSoFar(s)'
<1>1. SealedSoFar(s) /\ pages[s] \in Seq(CodePages) /\ cursor[s] \in Nat
  BY PageInvParts DEF TypeOK
<1>2. CASE PagesDone(s)
  BY <1>1, <1>2 DEF PagesDone, Goto, TypeOK, SealedSoFar
<1>3. CASE InstallPermanently(s) \/ LockRegistry(s) \/ CheckOverlap(s)
  BY <1>1, <1>3 DEF InstallPermanently, LockRegistry, CheckOverlap,
     ReturnUnlocking, Return, Goto, TypeOK, SealedSoFar
<1>4. CASE ~InstallPermanently(s) /\ ~PagesDone(s) /\ ~LockRegistry(s)
  <2>1. pc'[s] \notin {"seal", "flush_pages", "lock"}
    <3>1. pc[s] \notin {"seal", "flush_pages", "lock"}
             \/ pc'[s] \in {"release"}
      BY <1>4, Edges DEF SessionStep, Install, DropSession, CheckOverlap,
         ValidatePatch, ValidateDone, ProtectPage, ProtectDone,
         RevalidatePatch, Commit, CopyPatch, CopyDone, FlushPatch, FlushDone,
         RestorePage, RestoreDone, Log, ReleasePages
    <3>2. pc[s] # "open" \/ pc'[s] = "release"
      BY <1>4, Phase DEF SessionStep, Install, DropSession, Return, Goto,
         TypeOK, CheckOverlap,
         ValidatePatch, ValidateDone, ProtectPage, ProtectDone,
         RevalidatePatch, Commit, CopyPatch, CopyDone, FlushPatch, FlushDone,
         RestorePage, RestoreDone, Log, ReleasePages
    <3>. QED  BY <3>1, <3>2, Edges DEF PhaseEdges
  <2>2. pc'[s] \in {"overlap", "validate", "protect", "revalidate"} =>
          pc[s] \in {"overlap", "validate", "protect", "revalidate"}
    <3>1. pc[s] # "lock"
      BY <1>4 DEF SessionStep, Install, Prepare, Overwrite, PrepareDetour,
         DropSession, SealPage, FlushPage, CheckOverlap, ValidatePatch,
         ValidateDone, ProtectPage, ProtectDone, RevalidatePatch, Commit,
         CopyPatch, CopyDone, FlushPatch, FlushDone, RestorePage, RestoreDone, Log,
         ReleasePages
    <3>. QED  BY <3>1, Edges DEF PhaseEdges
  <2>. QED  BY <1>1, <2>1, <2>2 DEF SealedSoFar
<1>. QED  BY <1>2, <1>3, <1>4

LEMMA PageSession ==
    ASSUME TypeOK, PageInv, NEW s \in Sessions, SessionStep(s)
    PROVE  PageInv'
<1>1. CASE Prepare(s)
  BY <1>1, PagePrepare
<1>2. CASE SealPage(s) \/ FlushPage(s)
  BY <1>2, PageSealFlush
<1>3. CASE Commit(s)
  BY <1>3, PageCommit
<1>4. CASE ReleasePages(s)
  BY <1>4, PageRelease
<1>5. CASE /\ ~Prepare(s) /\ ~SealPage(s) /\ ~FlushPage(s) /\ ~Commit(s)
           /\ ~ReleasePages(s)
  <2>1. pages' = pages /\ codePage' = codePage /\ registry' = registry
    BY <1>5, Frames
  <2>2. \A t \in Sessions : SealedSoFar(t)'
    BY <1>5, <2>1, PagePhases, OthersPages
  <2>. QED  BY <2>1, <2>2, PageInvParts
            DEF PageInv, PermanentFlushed, OwnedBy, SealedSoFar, PermanentPages
<1>. QED  BY <1>1, <1>2, <1>3, <1>4, <1>5
-----------------------------------------------------------------------------
(* What the registry gains in a step. *)
LEMMA CommittedStep ==
    ASSUME NEW s \in Sessions, SessionStep(s), NEW t \in Sessions
    PROVE  /\ Committed(t)' <=> Committed(t) \/ (t = s /\ Commit(s))
           /\ PermanentPages \subseteq PermanentPages'
           /\ AllInstalled \subseteq AllInstalled'
           /\ registry \subseteq registry'
<1>1. CASE registry' = registry /\ ~Commit(s)
  BY <1>1 DEF Committed, PermanentPages, AllInstalled
<1>2. CASE Commit(s)
  <2>. DEFINE e == [session |-> s, pages |-> SeqElements(pages[s]),
                    patches |-> PatchSet(s)]
  <2>1. registry' = registry \cup {e} /\ e.session = s
    BY <1>2 DEF Commit
  <2>. HIDE DEF e
  <2>. QED  BY <1>2, <2>1 DEF Committed, PermanentPages, AllInstalled
<1>. QED  BY <1>1, <1>2, Frames

LEMMA NotYetCommitted ==
    ASSUME TypeOK, RegistryInv, NEW t \in Sessions, Committed(t)
    PROVE  pc[t] \in {"copy", "flush", "restore", "log", "release", "done"}
BY DEF RegistryInv, Committed

(* The page of every detour is where its session's progress says it is. *)
LEMMA DetourSession ==
    ASSUME TypeOK, RegistryInv, DetourInv, NEW s \in Sessions, SessionStep(s)
    PROVE  DetourInv'
<1>. DEFINE Placed(t, patch) ==
              patch.page # NoPage =>
                /\ Committed(t) => patch.page \in PermanentPages
                /\ \/ Committed(t) \/ pc[t] \in {"release", "done"}
                   \/ patch.page \in SeqElements(pages[t])
<1>1. \A t \in Sessions : \A i \in DOMAIN pending[t] : Placed(t, pending[t][i])
  BY DEF DetourInv
<1>2. ASSUME NEW t \in Sessions, t # s, NEW i \in DOMAIN pending'[t]
      PROVE  Placed(t, pending[t][i])'
  BY <1>1, <1>2, OthersUntouched, CommittedStep DEF SameSession
<1>3. ASSUME NEW i \in DOMAIN pending'[s]
      PROVE  Placed(s, pending[s][i])'
  <2>1. CASE Prepare(s)
    <3>1. pc[s] = "open" /\ ~Committed(s) /\ ~Committed(s)'
      BY <2>1, Phase, NotYetCommitted, CommittedStep
    <3>2. SeqElements(pages[s]) \subseteq SeqElements(pages'[s])
      <4>1. CASE pages' = pages
        BY <4>1
      <4>2. ASSUME NEW p \in CodePages,
                   pages' = [pages EXCEPT ![s] = Append(@, p)]
            PROVE  SeqElements(pages[s]) \subseteq SeqElements(pages'[s])
        <5>1. pages[s] \in Seq(CodePages) /\ pages'[s] = Append(pages[s], p)
          BY <4>2 DEF TypeOK
        <5>2. \A j \in DOMAIN pages[s] :
                j \in DOMAIN pages'[s] /\ pages'[s][j] = pages[s][j]
          BY <5>1
        <5>. QED  BY <5>2 DEF SeqElements
      <4>. QED  BY <2>1, <4>1, <4>2 DEF Prepare, Overwrite, PrepareDetour
    <3>3. PICK patch \in Patch : NewPatch(s, patch)
      BY <2>1, PrepareFacts
    <3>4. CASE i \in DOMAIN pending[s]
      <4>1. pending'[s][i] = pending[s][i]
        BY <3>3, <3>4, AppendFacts
      <4>. QED  BY <1>1, <3>1, <3>2, <3>4, <4>1
    <3>5. CASE i \notin DOMAIN pending[s]
      <4>1. pending'[s][i] = patch
        BY <3>3, <3>5, AppendFacts
      <4>. QED  BY <3>1, <3>3, <4>1 DEF NewPatch
    <3>. QED  BY <3>4, <3>5
  <2>2. CASE Commit(s)
    <3>1. pc[s] = "revalidate" /\ ~Committed(s) /\ pending' = pending
      BY <2>2, NotYetCommitted DEF Commit
    <3>2. SeqElements(pages[s]) \subseteq PermanentPages'
      <4>. DEFINE e == [session |-> s, pages |-> SeqElements(pages[s]),
                        patches |-> PatchSet(s)]
      <4>1. e \in registry' /\ e.pages = SeqElements(pages[s])
        BY <2>2 DEF Commit
      <4>. HIDE DEF e
      <4>. QED  BY <4>1 DEF PermanentPages
    <3>. QED  BY <1>1, <2>2, <3>1, <3>2, CommittedStep
  <2>3. CASE ReleasePages(s)
    <3>1. pc'[s] = "done" /\ ~Commit(s) /\ pending' = pending
      BY <2>3, Phase DEF ReleasePages, Commit
    <3>. QED  BY <1>1, <3>1, CommittedStep
  <2>4. CASE ~Prepare(s) /\ ~Commit(s) /\ ~ReleasePages(s)
    <3>1. pending' = pending /\ pages' = pages
      BY <2>4, Frames
    <3>2. pc[s] \in {"release", "done"} => pc'[s] \in {"release", "done"}
      BY Edges DEF PhaseEdges
    <3>. QED  BY <1>1, <2>4, <3>1, <3>2, CommittedStep
  <2>. QED  BY <2>1, <2>2, <2>3, <2>4
<1>. QED  BY <1>2, <1>3 DEF DetourInv

(* A jump that a session writes leads to a page of the registry. *)
LEMMA CopiedJumps ==
    ASSUME TypeOK, PendingInv, RegistryInv, DetourInv,
           NEW s \in Sessions, SessionStep(s),
           NEW a \in Address, NEW p \in CodePages, mem'[a] = Jump(p)
    PROVE  mem[a] = Jump(p) \/ p \in PermanentPages
<1>1. CASE mem' = mem
  BY <1>1
<1>2. CASE CopyPatch(s)
  <2>. DEFINE c == cursor[s]
              patch == pending[s][c]
  <2>1. c \in DOMAIN pending[s] /\ Committed(s)
    BY <1>2 DEF CopyPatch, RegistryInv
  <2>2. ASSUME a \in PatchCells(patch),
               patch.replacement[a - patch.address + 1] = Jump(p)
        PROVE  p \in PermanentPages
    <3>1. a - patch.address + 1 \in 1 .. Size(patch)
      BY <2>1, <2>2, PatchFacts, SMTT(30) DEF PatchCells, Cells
    <3>2. p = patch.page
      BY <2>1, <2>2, <3>1 DEF PendingInv
    <3>. QED  BY <2>1, <3>2, ConstantsAssumption DEF DetourInv
  <2>. QED  BY <1>2, <2>2 DEF CopyPatch
<1>. QED  BY <1>1, <1>2, Frames

(* Jumps in the code lead to pages of the registry. *)
LEMMA JumpSession ==
    ASSUME TypeOK, PendingInv, RegistryInv, DetourInv, JumpInv,
           NEW s \in Sessions, SessionStep(s)
    PROVE  JumpInv'
<1>1. PermanentPages \subseteq PermanentPages'
  BY CommittedStep
<1>. QED  BY <1>1, CopiedJumps DEF JumpInv
-----------------------------------------------------------------------------
(* Disjointness of patches across sessions. *)

Apart(q, r) == ~RangesOverlap(q.address, Size(q), r.address, Size(r))

LEMMA ApartCells ==
    ASSUME NEW a \in Nat, NEW n \in Nat, NEW b \in Nat, NEW m \in Nat,
           ~RangesOverlap(a, n, b, m)
    PROVE  Cells(a, n) \cap Cells(b, m) = {}
BY DEF RangesOverlap, Cells

(* The registry lists every patch of a committed session. *)
LEMMA CommittedInstalled ==
    ASSUME TypeOK, RegistryInv, NEW t \in Sessions, Committed(t),
           NEW i \in DOMAIN pending[t]
    PROVE  /\ [address |-> pending[t][i].address,
               size |-> Size(pending[t][i])] \in AllInstalled
           /\ PatchCells(pending[t][i]) \subseteq InstalledCells
<1>. DEFINE ip == [address |-> pending[t][i].address,
                   size |-> Size(pending[t][i])]
<1>1. PICK e \in registry : e.session = t /\ e.patches = PatchSet(t)
  BY DEF Committed, RegistryInv
<1>2. ip \in PatchSet(t)
  BY DEF PatchSet
<1>3. ip \in AllInstalled
  BY <1>1, <1>2 DEF AllInstalled
<1>4. PatchCells(pending[t][i]) = Cells(ip.address, ip.size)
  BY DEF PatchCells
<1>. HIDE DEF ip
<1>5. PatchCells(pending[t][i]) \subseteq InstalledCells
  BY <1>3, <1>4 DEF InstalledCells
<1>. QED  BY <1>3, <1>5 DEF ip

LEMMA OverlapSession ==
    ASSUME TypeOK, LockInv, RegistryInv, OverlapInv,
           NEW s \in Sessions, SessionStep(s)
    PROVE  OverlapInv'
<1>. DEFINE Checked == {"validate", "protect", "revalidate"}
<1>1. ASSUME NEW t \in Sessions, Committed(t)'
      PROVE  pending'[t] = pending[t]
  <2>1. CASE t # s
    BY <2>1, OthersUntouched DEF SameSession
  <2>2. CASE t = s
    <3>1. pc[s] # "open"
      BY <1>1, <2>2, CommittedStep, NotYetCommitted DEF Commit
    <3>. QED  BY <2>2, <3>1, Frames, Phase
  <2>. QED  BY <2>1, <2>2
<1>2. ASSUME NEW t \in Sessions, Committed(t), t # s, Commit(s)
      PROVE  \A i \in DOMAIN pending[s], j \in DOMAIN pending[t] :
               Apart(pending[s][i], pending[t][j])
  <2>1. ~OverlapsInstalled(s)
    BY <1>2 DEF OverlapInv, Commit
  <2>2. ASSUME NEW i \in DOMAIN pending[s], NEW j \in DOMAIN pending[t]
        PROVE  Apart(pending[s][i], pending[t][j])
    <3>. DEFINE ip == [address |-> pending[t][j].address,
                       size |-> Size(pending[t][j])]
    <3>1. ip \in AllInstalled
      BY <1>2, CommittedInstalled
    <3>2. ~RangesOverlap(pending[s][i].address, Size(pending[s][i]),
                         ip.address, ip.size)
      BY <2>1, <3>1 DEF OverlapsInstalled
    <3>. QED  BY <3>2 DEF Apart
  <2>. QED  BY <2>2
<1>3. ASSUME NEW t \in Sessions, NEW u \in Sessions, t # u,
             Committed(t)', Committed(u)',
             NEW i \in DOMAIN pending[t], NEW j \in DOMAIN pending[u]
      PROVE  Apart(pending[t][i], pending[u][j])
  <2>1. CASE Committed(t) /\ Committed(u)
    BY <1>3, <2>1 DEF OverlapInv, Apart
  <2>2. CASE t = s /\ Commit(s) /\ Committed(u)
    BY <1>2, <1>3, <2>2
  <2>3. CASE u = s /\ Commit(s) /\ Committed(t)
    <3>1. Apart(pending[u][j], pending[t][i])
      BY <1>2, <1>3, <2>3
    <3>. QED  BY <3>1 DEF Apart, RangesOverlap
  <2>. QED  BY <1>3, <2>1, <2>2, <2>3, CommittedStep
<1>4. ASSUME NEW t \in Sessions, pc'[t] \in Checked
      PROVE  ~OverlapsInstalled(t)'
  <2>1. CASE t # s
    <3>1. /\ pc[t] \in Checked /\ pending'[t] = pending[t]
      BY <1>4, <2>1, OthersUntouched DEF SameSession
    <3>2. pc[s] \notin LockedPhases
      BY <2>1, <3>1 DEF LockInv, LockedPhases
    <3>3. registry' = registry
      BY <3>2, Frames, Phase DEF LockedPhases
    <3>. QED  BY <3>1, <3>3 DEF OverlapInv, OverlapsInstalled, AllInstalled, Size
  <2>2. CASE t = s
    <3>1. pc[s] \in Checked \/ pc[s] = "overlap"
      BY <1>4, <2>2, Edges DEF PhaseEdges
    <3>2. pending' = pending /\ registry' = registry
      BY <1>4, <2>2, <3>1, Frames, Phase
    <3>3. ~OverlapsInstalled(s)
      <4>1. CASE pc[s] \in Checked
        BY <4>1 DEF OverlapInv
      <4>2. CASE pc[s] = "overlap"
        <5>1. CheckOverlap(s)
          BY <4>2, Phase DEF SessionStep, Install, DropSession,
             InstallPermanently, SealPage, FlushPage, PagesDone, LockRegistry,
             ValidatePatch, ValidateDone, ProtectPage, ProtectDone,
             RevalidatePatch, Commit, CopyPatch, CopyDone, FlushPatch,
             FlushDone, RestorePage, RestoreDone, Log, ReleasePages
        <5>. QED  BY <1>4, <2>2, <5>1
                  DEF CheckOverlap, ReturnUnlocking, Return, Goto, TypeOK
      <4>. QED  BY <3>1, <4>1, <4>2
    <3>. QED  BY <2>2, <3>2, <3>3 DEF OverlapsInstalled, AllInstalled, Size
  <2>. QED  BY <2>1, <2>2
<1>. QED  BY <1>1, <1>3, <1>4 DEF OverlapInv, Apart, Size
-----------------------------------------------------------------------------
LEMMA CopyPhase ==
    ASSUME TypeOK, NEW s \in Sessions, SessionStep(s), pc[s] = "copy"
    PROVE  CopyPatch(s) \/ CopyDone(s)
BY Phase DEF SessionStep, Install, DropSession, InstallPermanently, SealPage,
   FlushPage, PagesDone, LockRegistry, CheckOverlap, ValidatePatch,
   ValidateDone, ProtectPage, ProtectDone, RevalidatePatch, Commit,
   FlushPatch, FlushDone, RestorePage, RestoreDone, Log, ReleasePages

(* Copies of one session are apart from what is already in place. *)
LEMMA CopyApart ==
    ASSUME TypeOK, PendingInv, RegistryInv, OverlapInv,
           NEW s \in Sessions, CopyPatch(s),
           NEW t \in Sessions, NEW i \in DOMAIN pending[t],
           (t = s /\ i # cursor[s]) \/ (t # s /\ Committed(t))
    PROVE  PatchCells(pending[t][i]) \cap PatchCells(pending[s][cursor[s]]) = {}
<1>. DEFINE q == pending[t][i]
            r == pending[s][cursor[s]]
<1>1. cursor[s] \in DOMAIN pending[s] /\ Committed(s)
  BY DEF CopyPatch, RegistryInv
<1>2. ~RangesOverlap(q.address, Size(q), r.address, Size(r))
  BY <1>1 DEF PendingInv, OverlapInv
<1>3. /\ q.address \in Nat /\ Size(q) \in Nat
      /\ r.address \in Nat /\ Size(r) \in Nat
  BY <1>1, PatchFacts
<1>. QED  BY <1>2, <1>3, ApartCells DEF PatchCells

(* What was copied stays, address by address. *)
LEMMA IntactStep ==
    ASSUME TypeOK, PendingInv, RegistryInv, OverlapInv,
           NEW a \in Address, IntactAt(a), NEW s \in Sessions, SessionStep(s)
    PROVE  IntactAt(a)'
<1>1. ASSUME NEW t \in Sessions, NEW i \in DOMAIN pending'[t], Written(t, i)'
      PROVE  pending'[t] = pending[t]
  <2>1. CASE t # s
    BY <2>1, OthersUntouched DEF SameSession
  <2>2. CASE t = s
    <3>1. pc[s] # "open"
      BY <1>1, <2>2, CommittedStep, NotYetCommitted DEF Commit, Written
    <3>. QED  BY <2>2, <3>1, Frames, Phase
  <2>. QED  BY <2>1, <2>2
<1>2. ASSUME NEW t \in Sessions, NEW i \in DOMAIN pending[t], Written(t, i)'
      PROVE  Written(t, i) \/ (t = s /\ i = cursor[s] /\ CopyPatch(s))
  <2>1. CASE t # s
    BY <1>2, <2>1, OthersUntouched, CommittedStep DEF SameSession, Written
  <2>2. CASE t = s
    <3>1. CASE pc[s] = "copy"
      <4>1. Committed(s) /\ i \in Nat /\ cursor[s] \in Nat
            /\ DOMAIN pending[s] = 1 .. Len(pending[s])
        BY <1>2, <2>2, <3>1, PatchFacts DEF RegistryInv, TypeOK
      <4>. QED  BY <1>2, <2>2, <3>1, <4>1, CopyPhase
                DEF CopyPatch, CopyDone, Goto, Advance, Written, TypeOK
    <3>2. CASE Commit(s)
      <4>1. cursor'[s] = 1 /\ pc'[s] = "copy"
        BY <3>2 DEF Commit, Goto, TypeOK
      <4>. QED  BY <1>2, <2>2, <4>1, PatchFacts DEF Written
    <3>3. CASE pc[s] # "copy" /\ ~Commit(s)
      BY <1>2, <2>2, <3>3, CommittedStep DEF Written
    <3>. QED  BY <3>1, <3>2, <3>3
  <2>. QED  BY <2>1, <2>2
<1>3. ASSUME NEW t \in Sessions, NEW i \in DOMAIN pending[t],
             a \in PatchCells(pending[t][i]),
             Written(t, i) \/ (t = s /\ i = cursor[s] /\ CopyPatch(s))
      PROVE  mem'[a] = pending[t][i].replacement
                           [a - pending[t][i].address + 1]
  <2>1. CASE ~CopyPatch(s)
    BY <1>3, <2>1, Frames DEF IntactAt
  <2>2. CASE CopyPatch(s) /\ t = s /\ i = cursor[s]
    BY <1>3, <2>2 DEF CopyPatch
  <2>3. CASE CopyPatch(s) /\ ~(t = s /\ i = cursor[s])
    <3>1. PatchCells(pending[t][i])
            \cap PatchCells(pending[s][cursor[s]]) = {}
      BY <1>3, <2>3, CopyApart DEF Written
    <3>2. mem'[a] = mem[a]
      BY <1>3, <2>3, <3>1 DEF CopyPatch
    <3>. QED  BY <1>3, <2>3, <3>2 DEF IntactAt
  <2>. QED  BY <2>1, <2>2, <2>3
<1>. QED  BY <1>1, <1>2, <1>3 DEF IntactAt, PatchCells, Size

LEMMA IntactSession ==
    ASSUME TypeOK, PendingInv, RegistryInv, OverlapInv, InstalledIntact,
           NEW s \in Sessions, SessionStep(s)
    PROVE  InstalledIntact'
BY IntactStep DEF InstalledIntact
-----------------------------------------------------------------------------
(* Source protections. *)

Holding == {"protect", "revalidate", "copy", "flush", "rollback", "restore"}

(* What has been made writable changes by the two system calls only. *)
LEMMA HeldStep ==
    ASSUME TypeOK, NEW s \in Sessions, SessionStep(s)
    PROVE  /\ \A t \in Sessions : t # s => Held(t)' = Held(t)
           /\ ~ProtectPage(s) /\ ~RestorePage(s) => Held(s)' = Held(s)
           /\ RestorePage(s) => Held(s)' \subseteq Held(s)
           /\ ProtectPage(s) =>
                \/ pc'[s] = "rollback" /\ Held(s)' = Held(s)
                \/ pc'[s] = "protect" /\ Held(s)' \subseteq SourcePages(s) \cup Held(s)
<1>1. \A t \in Sessions : t # s => Held(t)' = Held(t)
  BY OthersUntouched DEF SameSession, Held
<1>2. ~ProtectPage(s) /\ ~RestorePage(s) => Held(s)' = Held(s)
  BY Frames DEF Held
<1>3. ASSUME RestorePage(s)
      PROVE  Held(s)' \subseteq Held(s)
  <2>1. PICK g \in Held(s) : protections' = [protections EXCEPT ![s][g] = Untouched]
    BY <1>3 DEF RestorePage
  <2>. QED  BY <2>1 DEF Held, TypeOK
<1>4. ASSUME ProtectPage(s)
      PROVE  \/ pc'[s] = "rollback" /\ Held(s)' = Held(s)
             \/ pc'[s] = "protect" /\ Held(s)' \subseteq SourcePages(s) \cup Held(s)
  <2>1. PICK g \in SourcePages(s) \ Held(s) :
          \/ /\ protections' = [protections EXCEPT ![s][g] = protection[g]]
             /\ pc' = pc
          \/ /\ Goto(s, "rollback")
             /\ protections' = protections
    BY <1>4 DEF ProtectPage
  <2>2. CASE Goto(s, "rollback") /\ protections' = protections
    BY <2>2 DEF Goto, Held, TypeOK
  <2>3. CASE /\ protections' = [protections EXCEPT ![s][g] = protection[g]]
             /\ pc' = pc
    BY <1>4, <2>3 DEF ProtectPage, Held, TypeOK
  <2>. QED  BY <2>1, <2>2, <2>3
<1>. QED  BY <1>1, <1>2, <1>3, <1>4

(* Source pages change with the pending patches. *)
LEMMA SourcePagesStep ==
    ASSUME TypeOK, NEW s \in Sessions, SessionStep(s)
    PROVE  /\ \A t \in Sessions : t # s \/ ~Prepare(s) =>
                SourcePages(t)' = SourcePages(t)
           /\ \A t \in Sessions : SourcePages(t) \subseteq SourcePages(t)'
<1>1. \A t \in Sessions : t # s \/ ~Prepare(s) => pending'[t] = pending[t]
  BY OthersUntouched, Frames DEF SameSession
<1>2. \A t \in Sessions : \A i \in DOMAIN pending[t] :
        i \in DOMAIN pending'[t] /\ pending'[t][i] = pending[t][i]
  <2>1. ASSUME NEW t \in Sessions, NEW i \in DOMAIN pending[t], t = s, Prepare(s)
        PROVE  i \in DOMAIN pending'[t] /\ pending'[t][i] = pending[t][i]
    <3>1. PICK patch \in Patch : NewPatch(s, patch)
      BY <2>1, PrepareFacts
    <3>. QED  BY <2>1, <3>1, AppendFacts
  <2>. QED  BY <1>1, <2>1
<1>3. \A t \in Sessions : t # s \/ ~Prepare(s) =>
        SourcePages(t)' = SourcePages(t)
  <2>1. \A t \in Sessions : pending'[t] = pending[t] =>
          SourcePages(t)' = SourcePages(t)
    BY ZenonT(30) DEF SourcePages, PatchPages, Size
  <2>. QED  BY <1>1, <2>1
<1>4. \A t \in Sessions : SourcePages(t) \subseteq SourcePages(t)'
  BY <1>2 DEF SourcePages, PatchPages, Size
<1>. QED  BY <1>3, <1>4

(* Pages once leaked stay accounted for. *)
LEMMA LeakedStays ==
    ASSUME TypeOK, NEW s \in Sessions, SessionStep(s),
           NEW g \in PageBases, Leaked(g)
    PROVE  Leaked(g)'
<1>1. PICK t \in Sessions : g \in SourcePages(t) /\ restoreFailed[t]
  BY DEF Leaked
<1>2. restoreFailed'[t]
  BY <1>1, Frames DEF RestorePage, TypeOK
<1>. QED  BY <1>1, <1>2, SourcePagesStep DEF Leaked

(* A call protects all its pages, copies, and restores all it protected. *)
LEMMA HoldSession ==
    ASSUME TypeOK, HoldInv, NEW s \in Sessions, SessionStep(s)
    PROVE  HoldInv'
<1>1. \A t \in Sessions : t # s =>
        /\ Held(t)' = Held(t) /\ SourcePages(t)' = SourcePages(t)
        /\ pc'[t] = pc[t]
  BY HeldStep, SourcePagesStep, OthersUntouched DEF SameSession
<1>2. CASE ProtectPage(s)
  <2>1. pc[s] = "protect" /\ SourcePages(s)' = SourcePages(s)
    BY <1>2, SourcePagesStep, Phase DEF ProtectPage, Prepare, Overwrite,
       PrepareDetour
  <2>. QED  BY <1>1, <1>2, <2>1, HeldStep DEF HoldInv
<1>3. CASE RestorePage(s)
  <2>1. /\ pc[s] \in {"rollback", "restore"} /\ pc' = pc
        /\ SourcePages(s)' = SourcePages(s)
    BY <1>3, SourcePagesStep, Phase DEF RestorePage
  <2>. QED  BY <1>1, <1>3, <2>1, HeldStep DEF HoldInv
<1>4. CASE ~ProtectPage(s) /\ ~RestorePage(s)
  <2>1. Held(s)' = Held(s) /\ SourcePages(s) \subseteq SourcePages(s)'
    BY <1>4, HeldStep, SourcePagesStep
  <2>2. ASSUME Held(s) # {}
        PROVE  pc'[s] \in Holding
    <3>1. pc[s] \in Holding
      BY <2>2 DEF HoldInv, Holding
    <3>2. ~RestoreDone(s)
      BY <2>2 DEF RestoreDone
    <3>3. pc[s] \notin {"rollback", "restore"}
      BY <1>4, <3>1, <3>2, Phase DEF SessionStep, Install, DropSession,
         InstallPermanently, SealPage, FlushPage, PagesDone, LockRegistry,
         CheckOverlap, ValidatePatch, ValidateDone, ProtectDone,
         RevalidatePatch, Commit, CopyPatch, CopyDone, FlushPatch, FlushDone,
         Log, ReleasePages
    <3>. QED  BY <3>1, <3>3, Edges DEF PhaseEdges, Holding
  <2>3. ASSUME pc'[s] \in {"revalidate", "copy", "flush"}
        PROVE  ~Prepare(s) /\ SourcePages(s) \subseteq Held(s)
    <3>1. CASE pc[s] \in {"revalidate", "copy", "flush"}
      BY <3>1, Phase DEF HoldInv
    <3>2. CASE pc[s] \notin {"revalidate", "copy", "flush"}
      <4>1. pc[s] = "protect"
        BY <2>3, <3>2, Edges DEF PhaseEdges
      <4>2. ProtectDone(s)
        BY <1>4, <4>1, Phase DEF SessionStep, Install, DropSession,
           InstallPermanently, SealPage, FlushPage, PagesDone, LockRegistry,
           CheckOverlap, ValidatePatch, ValidateDone, RevalidatePatch, Commit,
           CopyPatch, CopyDone, FlushPatch, FlushDone, RestoreDone, Log,
           ReleasePages
      <4>. QED  BY <4>1, <4>2, Phase DEF ProtectDone
    <3>. QED  BY <3>1, <3>2
  <2>4. pc'[s] \in {"revalidate", "copy", "flush"} =>
          SourcePages(s)' \subseteq Held(s)'
    BY <2>1, <2>3, SourcePagesStep
  <2>. QED  BY <1>1, <2>1, <2>2, <2>4 DEF HoldInv, Holding
<1>. QED  BY <1>2, <1>3, <1>4

(* Only the holder of the mutex holds pages writable. *)
LEMMA OneHolder ==
    ASSUME TypeOK, LockInv, HoldInv, NEW s \in Sessions, pc[s] \in Holding,
           NEW t \in Sessions, t # s
    PROVE  Held(t) = {}
BY DEF LockInv, HoldInv, Holding, LockedPhases

LEMMA ProtectPageStep ==
    ASSUME TypeOK, LockInv, HoldInv, NEW g \in PageBases, ProtectionAt(g),
           NEW s \in Sessions, SessionStep(s), ProtectPage(s)
    PROVE  ProtectionAt(g)'
<1>1. pc[s] = "protect" /\ pending' = pending /\ restoreFailed' = restoreFailed
  BY DEF ProtectPage, sessionVars
<1>2. Leaked(g)' = Leaked(g)
  BY <1>1 DEF SourcePages, PatchPages, Size, Leaked
<1>3. \A t \in Sessions : t # s => Held(t) = {} /\ Held(t)' = {}
  BY <1>1, OneHolder, HeldStep DEF Holding
<1>4. CASE protections' = protections /\ protection' = protection
  <2>1. \A t \in Sessions : Held(t)' = Held(t)
    BY <1>4 DEF Held
  <2>. QED  BY <1>2, <1>4, <2>1 DEF ProtectionAt
<1>5. ASSUME NEW h \in SourcePages(s) \ Held(s),
             protections' = [protections EXCEPT ![s][h] = protection[h]],
             protection' = [protection EXCEPT ![h] = RWX]
      PROVE  ProtectionAt(g)'
  <2>1. h \in PageBases
    BY DEF SourcePages, PatchPages
  <2>2. CASE g # h
    <3>1. /\ protections'[s][g] = protections[s][g]
          /\ protection'[g] = protection[g]
      BY <1>5, <2>1, <2>2 DEF TypeOK
    <3>2. g \in Held(s)' <=> g \in Held(s)
      BY <3>1 DEF Held
    <3>. QED  BY <1>2, <1>3, <3>1, <3>2 DEF ProtectionAt
  <2>3. CASE g = h
    <3>1. protection[g] \in Protection /\ Untouched \notin Protection
      BY DEF TypeOK, Untouched, Protection, RWX
    <3>2. protections'[s][g] = protection[g] /\ protection'[g] = RWX
      BY <1>5, <2>1, <2>3 DEF TypeOK
    <3>3. g \in Held(s)'
      BY <3>1, <3>2 DEF Held
    <3>4. protection[g] = InitialProtection[g] \/ Leaked(g)
      BY <1>3, <2>3 DEF ProtectionAt
    <3>. QED  BY <1>2, <1>3, <3>2, <3>3, <3>4 DEF ProtectionAt
  <2>. QED  BY <2>2, <2>3
<1>. QED  BY <1>4, <1>5 DEF ProtectPage

LEMMA RestorePageStep ==
    ASSUME TypeOK, LockInv, HoldInv, NEW g \in PageBases, ProtectionAt(g),
           NEW s \in Sessions, SessionStep(s), RestorePage(s)
    PROVE  ProtectionAt(g)'
<1>1. pc[s] \in {"rollback", "restore"} /\ pending' = pending
  BY DEF RestorePage, sessionVars
<1>2. Leaked(g) => Leaked(g)'
  BY LeakedStays
<1>3. \A t \in Sessions : t # s => Held(t) = {} /\ Held(t)' = {}
  BY <1>1, OneHolder, HeldStep DEF Holding
<1>4. PICK h \in Held(s) :
        /\ protections' = [protections EXCEPT ![s][h] = Untouched]
        /\ \/ protection' = [protection EXCEPT ![h] = protections[s][h]]
           \/ /\ restoreFailed' = [restoreFailed EXCEPT ![s] = TRUE]
              /\ protection' = protection
  BY DEF RestorePage
<1>5. h \in PageBases /\ h \in SourcePages(s)
  BY DEF Held, HoldInv
<1>6. CASE g # h
  <2>1. protections'[s][g] = protections[s][g] /\ protection'[g] = protection[g]
    BY <1>4, <1>5, <1>6 DEF TypeOK
  <2>2. g \in Held(s)' <=> g \in Held(s)
    BY <2>1 DEF Held
  <2>. QED  BY <1>2, <1>3, <2>1, <2>2 DEF ProtectionAt
<1>7. CASE g = h
  <2>1. protections'[s][g] = Untouched
    BY <1>4, <1>7 DEF TypeOK
  <2>2. g \notin Held(s)'
    BY <2>1 DEF Held
  <2>3. protection'[g] = InitialProtection[g] \/ Leaked(g)'
    <3>1. CASE protection' = [protection EXCEPT ![g] = protections[s][g]]
      BY <1>2, <1>4, <1>7, <3>1 DEF ProtectionAt, TypeOK
    <3>2. CASE restoreFailed' = [restoreFailed EXCEPT ![s] = TRUE]
      <4>1. restoreFailed'[s] /\ g \in SourcePages(s)'
        BY <1>1, <1>5, <1>7, <3>2, SourcePagesStep DEF TypeOK
      <4>. QED  BY <4>1 DEF Leaked
    <3>. QED  BY <1>4, <1>7, <3>1, <3>2
  <2>. QED  BY <1>3, <2>2, <2>3 DEF ProtectionAt
<1>. QED  BY <1>6, <1>7

(* A page's protection is accounted for, whoever else is at other pages. *)
LEMMA ProtectionStep ==
    ASSUME TypeOK, LockInv, HoldInv, NEW g \in PageBases, ProtectionAt(g),
           NEW s \in Sessions, SessionStep(s)
    PROVE  ProtectionAt(g)'
<1>1. CASE ProtectPage(s)
  BY <1>1, ProtectPageStep
<1>2. CASE RestorePage(s)
  BY <1>2, RestorePageStep
<1>3. CASE ~ProtectPage(s) /\ ~RestorePage(s)
  <2>1. /\ protection' = protection /\ protections' = protections
        /\ \A t \in Sessions : Held(t)' = Held(t)
    BY <1>3, Frames DEF Held
  <2>2. Leaked(g) => Leaked(g)'
    BY LeakedStays
  <2>. QED  BY <2>1, <2>2 DEF ProtectionAt
<1>. QED  BY <1>1, <1>2, <1>3

LEMMA ProtectionSession ==
    ASSUME TypeOK, LockInv, ProtectionInv, NEW s \in Sessions, SessionStep(s)
    PROVE  ProtectionInv'
BY HoldSession, ProtectionStep DEF ProtectionInv
-----------------------------------------------------------------------------
(* Results. *)

(* The part of ResultInv about one session. *)
ResultOK(t) ==
    /\ pc[t] \notin {"release", "done"} => result[t] = "none"
    /\ pc[t] \notin {"rollback", "restore", "release", "done"} =>
         failure[t] = "Ok"
    /\ pc[t] = "rollback" => failure[t] \in {"Protection", "SourceChanged"}
    /\ pc[t] = "restore" => failure[t] \in {"Ok", "InstructionCache"}
    /\ restoreFailed[t] =>
         \/ pc[t] \in {"rollback", "restore"}
         \/ /\ pc[t] \in {"release", "done"}
            /\ result[t] \in {"Protection", "InstructionCache"}
    /\ result[t] \in {"Ok", "Panic"} => Committed(t)
    /\ result[t] \in {"Dropped", "Mapping", "OverlappingPatch",
                      "SourceChanged"} => ~Committed(t)

LEMMA ResultParts == ResultInv <=> \A t \in Sessions : ResultOK(t)
BY DEF ResultInv, ResultOK

LEMMA ResultSession ==
    ASSUME TypeOK, RegistryInv, ResultInv, NEW s \in Sessions, SessionStep(s)
    PROVE  ResultInv'
<1>1. ASSUME NEW t \in Sessions, t # s
      PROVE  ResultOK(t)'
  BY <1>1, OthersUntouched, CommittedStep, ResultParts
     DEF SameSession, ResultOK
<1>2. ResultOK(s)
  BY ResultParts
<1>3. Committed(s)' <=> Committed(s) \/ Commit(s)
  BY CommittedStep
<1>4. Committed(s) =>
        pc[s] \in {"copy", "flush", "restore", "log", "release", "done"}
  BY NotYetCommitted
<1>5. pc[s] \in {"copy", "flush", "restore", "log"} => Committed(s)
  BY DEF RegistryInv
<1>6. ASSUME Prepare(s)
      PROVE  ResultOK(s)'
  BY <1>2, <1>3, <1>6, Phase, PrepareFacts DEF callVars, ResultOK
<1>7. ASSUME DropSession(s) \/ SealPage(s) \/ FlushPage(s)
      PROVE  ResultOK(s)'
  <2>1. pc[s] \in {"open", "seal", "flush_pages"} /\ ~Committed(s)'
    BY <1>3, <1>4, <1>7, Phase
       DEF DropSession, SealPage, FlushPage, Commit
  <2>2. /\ failure'[s] = failure[s] /\ (restoreFailed'[s] <=> restoreFailed[s])
        /\ \/ /\ pc'[s] = "release"
              /\ result'[s] \in {"Dropped", "Mapping", "InstructionCache"}
           \/ pc'[s] = pc[s] /\ result'[s] = result[s]
    BY <1>7 DEF DropSession, SealPage, FlushPage, Return, Goto, Advance, TypeOK
  <2>. QED  BY <1>2, <2>1, <2>2 DEF ResultOK
<1>8. ASSUME CheckOverlap(s) \/ ValidatePatch(s)
      PROVE  ResultOK(s)'
  <2>1. pc[s] \in {"overlap", "validate"} /\ ~Committed(s)'
    BY <1>3, <1>4, <1>8 DEF CheckOverlap, ValidatePatch, Commit
  <2>2. /\ failure'[s] = failure[s] /\ (restoreFailed'[s] <=> restoreFailed[s])
        /\ \/ /\ pc'[s] = "release"
              /\ result'[s] \in {"OverlappingPatch", "SourceChanged"}
           \/ pc'[s] \in {"overlap", "validate"} /\ result'[s] = result[s]
    BY <1>8 DEF CheckOverlap, ValidatePatch, ReturnUnlocking, Return, Goto,
       Advance, TypeOK
  <2>. QED  BY <1>2, <2>1, <2>2 DEF ResultOK
<1>9. ASSUME RestoreDone(s)
      PROVE  ResultOK(s)'
  <2>1. /\ pc[s] \in {"rollback", "restore"}
        /\ \/ /\ pc[s] = "restore" /\ Outcome(s) = "Ok"
              /\ pc'[s] = "log" /\ result'[s] = result[s]
           \/ /\ pc[s] = "rollback" \/ Outcome(s) # "Ok"
              /\ pc'[s] = "release" /\ result'[s] = Outcome(s)
        /\ failure' = failure /\ restoreFailed' = restoreFailed
    BY <1>9 DEF RestoreDone, ReturnUnlocking, Return, Goto, TypeOK
  <2>2. ~Commit(s)
    BY <2>1, Phase
  <2>3. \/ /\ pc[s] = "rollback"
           /\ Outcome(s) \in {"Protection", "SourceChanged"}
        \/ /\ pc[s] = "restore"
           /\ Outcome(s) \in {"Ok", "Protection", "InstructionCache"}
    BY <1>2, <2>1 DEF Outcome, ResultOK
  <2>4. restoreFailed[s] => Outcome(s) \in {"Protection", "InstructionCache"}
    BY <1>2, <2>1 DEF Outcome, ResultOK
  <2>5. Outcome(s) = "Ok" => failure[s] = "Ok"
    BY DEF Outcome
  <2>. QED  BY <1>2, <1>3, <1>4, <1>5, <2>1, <2>2, <2>3, <2>4, <2>5
            DEF ResultOK
<1>10. ASSUME ProtectPage(s) \/ RevalidatePatch(s) \/ FlushPatch(s)
      PROVE  ResultOK(s)'
  <2>1. /\ result'[s] = result[s] /\ (restoreFailed'[s] <=> restoreFailed[s])
        /\ \/ /\ pc[s] \in {"protect", "revalidate"}
              /\ pc'[s] = "rollback"
              /\ failure'[s] \in {"Protection", "SourceChanged"}
           \/ /\ pc[s] = "flush" /\ pc'[s] = "restore"
              /\ failure'[s] = "InstructionCache"
           \/ /\ pc[s] \in {"protect", "revalidate", "flush"}
              /\ pc'[s] = pc[s] /\ failure'[s] = failure[s]
    BY <1>10 DEF ProtectPage, RevalidatePatch, FlushPatch, Goto, Advance,
       TypeOK, processVars
  <2>2. ~Commit(s) \/ (pc[s] = "revalidate" /\ pc'[s] = "copy")
    BY Phase
  <2>. QED  BY <1>2, <1>3, <2>1, <2>2 DEF ResultOK
<1>11. ASSUME RestorePage(s)
      PROVE  ResultOK(s)'
  <2>1. /\ pc[s] \in {"rollback", "restore"} /\ pc'[s] = pc[s]
        /\ result'[s] = result[s] /\ failure'[s] = failure[s]
        /\ ~Commit(s)
    BY <1>11, Phase DEF RestorePage
  <2>. QED  BY <1>2, <1>3, <2>1 DEF ResultOK
<1>12. ASSUME InstallPermanently(s) \/ PagesDone(s) \/ LockRegistry(s)
            \/ ValidateDone(s) \/ ProtectDone(s) \/ Commit(s) \/ CopyPatch(s)
            \/ CopyDone(s) \/ FlushDone(s) \/ ReleasePages(s)
      PROVE  ResultOK(s)'
  <2>1. /\ result'[s] = result[s] /\ failure'[s] = failure[s]
        /\ (restoreFailed'[s] <=> restoreFailed[s])
    BY <1>12 DEF InstallPermanently, PagesDone, LockRegistry, ValidateDone,
       ProtectDone, Commit, CopyPatch, CopyDone, FlushDone, ReleasePages
  <2>2. /\ pc[s] \notin {"rollback", "restore", "done"}
        /\ pc'[s] # "rollback"
        /\ (pc[s] = "release") <=> (pc'[s] \in {"release", "done"})
    BY <1>12 DEF InstallPermanently, PagesDone, LockRegistry, ValidateDone,
       ProtectDone, Commit, CopyPatch, CopyDone, FlushDone, ReleasePages,
       Goto, Advance, TypeOK
  <2>3. ~Commit(s) \/ pc[s] = "revalidate"
    BY Phase
  <2>. QED  BY <1>2, <1>3, <2>1, <2>2, <2>3 DEF ResultOK
<1>13. ASSUME Log(s)
       PROVE  ResultOK(s)'
  <2>1. /\ pc[s] = "log" /\ pc'[s] = "release"
        /\ result'[s] \in {"Ok", "Panic"}
        /\ failure'[s] = failure[s] /\ (restoreFailed'[s] <=> restoreFailed[s])
        /\ ~Commit(s)
    BY <1>13, Phase DEF Log, ReturnUnlocking, Return, Goto, TypeOK
  <2>. QED  BY <1>2, <1>3, <1>5, <2>1 DEF ResultOK
<1>14. ResultOK(s)'
  BY <1>6, <1>7, <1>8, <1>9, <1>10, <1>11, <1>12, <1>13
     DEF SessionStep, Install
<1>. QED  BY <1>1, <1>14 DEF ResultInv, ResultOK
-----------------------------------------------------------------------------
(* Instruction cache. *)

(* Patch i of t is known to be flushed. *)
Flushed(t, i) == \/ pc[t] = "flush" /\ i < cursor[t]
                 \/ pc[t] = "restore" /\ failure[t] = "Ok"
                 \/ pc[t] = "log"
                 \/ result[t] \in {"Ok", "Panic"}

LEMMA FlushedStep ==
    ASSUME TypeOK, ResultInv, NEW s \in Sessions, SessionStep(s),
           NEW i \in DOMAIN pending[s], Flushed(s, i)'
    PROVE  Flushed(s, i) \/ (FlushPatch(s) /\ i = cursor[s])
<1>1. ResultOK(s)
  BY ResultParts
<1>2. /\ pending[s] \in Seq(Patch) /\ cursor[s] \in Nat
      /\ DOMAIN pending[s] = 1 .. Len(pending[s]) /\ i \in Nat
  BY DEF TypeOK
<1>3. ASSUME Prepare(s)
      PROVE  Flushed(s, i)
  BY <1>3, PrepareFacts DEF callVars, Flushed
<1>4. ASSUME DropSession(s) \/ SealPage(s) \/ FlushPage(s) \/ CheckOverlap(s)
               \/ ValidatePatch(s)
      PROVE  Flushed(s, i)
  BY <1>1, <1>4 DEF DropSession, SealPage, FlushPage, CheckOverlap,
     ValidatePatch, ReturnUnlocking, Return, Goto, Advance, TypeOK, Flushed,
     ResultOK
<1>5. ASSUME InstallPermanently(s) \/ PagesDone(s) \/ LockRegistry(s)
               \/ ValidateDone(s) \/ ProtectPage(s) \/ ProtectDone(s)
      PROVE  Flushed(s, i)
  BY <1>1, <1>5 DEF InstallPermanently, PagesDone, LockRegistry, ValidateDone,
     ProtectPage, ProtectDone, Goto, TypeOK, Flushed, ResultOK, processVars
<1>6. ASSUME RevalidatePatch(s) \/ Commit(s) \/ CopyPatch(s) \/ CopyDone(s)
               \/ RestorePage(s) \/ ReleasePages(s)
      PROVE  Flushed(s, i)
  BY <1>1, <1>2, <1>6 DEF RevalidatePatch, Commit, CopyPatch, CopyDone,
     RestorePage, ReleasePages, Goto, Advance, TypeOK, Flushed, ResultOK,
     processVars
<1>7. ASSUME FlushPatch(s), i # cursor[s]
      PROVE  Flushed(s, i)
  <2>1. result[s] = "none" /\ result' = result /\ pc[s] = "flush"
    BY <1>1, <1>7 DEF FlushPatch, ResultOK
  <2>2. \/ pc'[s] = "flush" /\ cursor'[s] = cursor[s] + 1
        \/ pc'[s] = "restore" /\ failure'[s] = "InstructionCache"
    BY <1>7 DEF FlushPatch, Goto, Advance, TypeOK
  <2>3. i < cursor[s] + 1
    BY <2>1, <2>2 DEF Flushed
  <2>. QED  BY <1>2, <1>7, <2>1, <2>3 DEF Flushed
<1>8. ASSUME FlushDone(s)
      PROVE  Flushed(s, i)
  BY <1>2, <1>8 DEF FlushDone, Flushed
<1>9. ASSUME RestoreDone(s)
      PROVE  Flushed(s, i)
  <2>1. \/ Outcome(s) = "Ok"
        \/ pc'[s] = "release" /\ result'[s] = Outcome(s)
    BY <1>9 DEF RestoreDone, ReturnUnlocking, Return, Goto, TypeOK
  <2>2. Outcome(s) = "Ok"
    <3>1. Outcome(s) # "Panic"
      BY <1>1, <1>9 DEF RestoreDone, Outcome, ResultOK
    <3>. QED  BY <2>1, <3>1 DEF Flushed
  <2>3. failure[s] = "Ok"
    BY <2>2 DEF Outcome
  <2>4. pc[s] = "restore"
    BY <1>1, <1>9, <2>3 DEF RestoreDone, ResultOK
  <2>. QED  BY <2>3, <2>4 DEF Flushed
<1>10. ASSUME Log(s)
       PROVE  Flushed(s, i)
  BY <1>10 DEF Log, Flushed
<1>. QED  BY <1>3, <1>4, <1>5, <1>6, <1>7, <1>8, <1>9, <1>10
          DEF SessionStep, Install

LEMMA FlushSession ==
    ASSUME TypeOK, PendingInv, RegistryInv, OverlapInv, ResultInv, FlushInv,
           NEW s \in Sessions, SessionStep(s)
    PROVE  FlushInv'
<1>1. ASSUME NEW t \in Sessions, NEW i \in DOMAIN pending'[t], Flushed(t, i)'
      PROVE  pending'[t] = pending[t]
  <2>1. CASE t # s
    BY <2>1, OthersUntouched DEF SameSession
  <2>2. CASE t = s /\ Prepare(s)
    BY <1>1, <2>2, Phase, PrepareFacts, ResultParts
       DEF callVars, Flushed, ResultOK
  <2>. QED  BY <2>1, <2>2, Frames
<1>2. ASSUME NEW t \in Sessions, NEW i \in DOMAIN pending[t], Flushed(t, i)'
      PROVE  \/ Flushed(t, i) /\ PatchCells(pending[t][i]) \cap stale = {}
             \/ t = s /\ FlushPatch(s) /\ i = cursor[s]
  <2>1. Flushed(t, i) \/ (t = s /\ FlushPatch(s) /\ i = cursor[s])
    BY <1>2, OthersUntouched, FlushedStep DEF SameSession, Flushed
  <2>. QED  BY <2>1 DEF FlushInv, Flushed
<1>3. ASSUME NEW t \in Sessions, NEW i \in DOMAIN pending[t], Flushed(t, i)'
      PROVE  PatchCells(pending[t][i]) \cap stale' = {}
  <2>1. CASE FlushPatch(s)
    <3>1. \/ stale' = stale \ PatchCells(pending[s][cursor[s]])
          \/ stale' = stale /\ pc[s] = "flush" /\ pc'[s] = "restore"
             /\ failure'[s] = "InstructionCache"
      BY <2>1 DEF FlushPatch, Goto, TypeOK
    <3>2. CASE stale' = stale \ PatchCells(pending[s][cursor[s]])
      BY <1>2, <1>3, <3>2
    <3>3. CASE stale' = stale /\ pc[s] = "flush" /\ pc'[s] = "restore"
               /\ failure'[s] = "InstructionCache"
      <4>1. result'[s] = "none"
        BY <2>1, <3>3, ResultParts DEF ResultOK, FlushPatch
      <4>2. t # s
        BY <1>3, <3>3, <4>1 DEF Flushed
      <4>. QED  BY <1>2, <1>3, <3>3, <4>2
    <3>. QED  BY <3>1, <3>2, <3>3
  <2>2. CASE CopyPatch(s)
    <3>1. pc[s] = "copy" /\ result[s] = "none" /\ Committed(s) /\ ~FlushPatch(s)
      BY <2>2, Phase, ResultParts DEF ResultOK, RegistryInv
    <3>2. Flushed(t, i) /\ PatchCells(pending[t][i]) \cap stale = {}
      BY <1>2, <1>3, <3>1
    <3>3. t # s
      BY <3>1, <3>2 DEF Flushed
    <3>4. Committed(t)
      BY <3>2, ResultParts DEF Flushed, ResultOK, RegistryInv
    <3>5. PatchCells(pending[t][i])
            \cap PatchCells(pending[s][cursor[s]]) = {}
      BY <2>2, <3>3, <3>4, CopyApart
    <3>. QED  BY <2>2, <3>2, <3>5 DEF CopyPatch
  <2>3. CASE ~FlushPatch(s) /\ ~CopyPatch(s)
    BY <1>2, <1>3, <2>3, Frames
  <2>. QED  BY <2>1, <2>2, <2>3
<1>. QED  BY <1>1, <1>3 DEF FlushInv, Flushed, PatchCells, Size
-----------------------------------------------------------------------------
(* Sources between their comparison and their replacement. *)

(* Source i of t was compared and is not replaced yet. *)
Compared(t, i) == \/ pc[t] = "revalidate" /\ i < cursor[t]
                  \/ pc[t] = "copy" /\ i >= cursor[t]

LEMMA SourceFrame ==
    ASSUME TypeOK, NEW t \in Sessions, NEW i \in DOMAIN pending[t],
           SourceUnchanged(pending[t][i]), pending'[t] = pending[t],
           \A a \in PatchCells(pending[t][i]) : mem'[a] = mem[a]
    PROVE  SourceUnchanged(pending[t][i])'
<1>. DEFINE patch == pending[t][i]
            n == Len(patch.expected)
<1>1. n = Size(patch) /\ n \in Nat /\ patch.address \in Nat
  BY PatchFacts
<1>2. \A k \in 1 .. n : patch.address + k - 1 \in PatchCells(patch)
  BY <1>1 DEF PatchCells, Cells
<1>3. [k \in 1 .. n |-> mem[patch.address + k - 1]]
        = [k \in 1 .. n |-> mem'[patch.address + k - 1]]
  BY <1>2
<1>. QED  BY <1>3 DEF SourceUnchanged, ReadCode

LEMMA ComparedStep ==
    ASSUME TypeOK, NEW s \in Sessions, SessionStep(s),
           NEW i \in DOMAIN pending[s], Compared(s, i)'
    PROVE  /\ pending' = pending
           /\ \/ CopyPatch(s) /\ Compared(s, i) /\ i # cursor[s]
              \/ ~CopyPatch(s) /\ Compared(s, i)
              \/ ~CopyPatch(s) /\ SourceUnchanged(pending[s][i])
<1>1. pc[s] \in {"protect", "revalidate", "copy"}
  BY Edges DEF Compared, PhaseEdges
<1>2. ProtectPage(s) \/ ProtectDone(s) \/ RevalidatePatch(s) \/ Commit(s)
        \/ CopyPatch(s) \/ CopyDone(s)
  BY <1>1, Phase DEF SessionStep, Install, DropSession, InstallPermanently,
     SealPage, FlushPage, PagesDone, LockRegistry, CheckOverlap,
     ValidatePatch, ValidateDone, FlushPatch, FlushDone, RestorePage,
     RestoreDone, Log, ReleasePages
<1>3. pending' = pending
  BY <1>1, Frames, Phase
<1>4. /\ pending[s] \in Seq(Patch) /\ cursor[s] \in Nat
      /\ DOMAIN pending[s] = 1 .. Len(pending[s]) /\ i \in Nat /\ i >= 1
  BY DEF TypeOK
<1>5. CASE ProtectPage(s) \/ ProtectDone(s) \/ CopyDone(s)
  BY <1>4, <1>5 DEF ProtectPage, ProtectDone, CopyDone, Goto, Compared, TypeOK
<1>6. CASE RevalidatePatch(s)
  BY <1>3, <1>4, <1>6
     DEF RevalidatePatch, Goto, Advance, Compared, TypeOK, CopyPatch
<1>7. CASE Commit(s)
  BY <1>3, <1>4, <1>7 DEF Commit, Compared, CopyPatch
<1>8. CASE CopyPatch(s)
  BY <1>3, <1>4, <1>8 DEF CopyPatch, Advance, Compared, TypeOK
<1>. QED  BY <1>2, <1>5, <1>6, <1>7, <1>8

LEMMA ExpectedSession ==
    ASSUME TypeOK, LockInv, PendingInv, RegistryInv, OverlapInv, ExpectedInv,
           NEW s \in Sessions, SessionStep(s)
    PROVE  ExpectedInv'
<1>. SUFFICES ASSUME ~HostRaces, NEW t \in Sessions,
                     NEW i \in DOMAIN pending'[t], Compared(t, i)'
              PROVE  SourceUnchanged(pending[t][i])'
  BY DEF ExpectedInv, Compared
<1>1. CASE t # s
  <2>1. Compared(t, i) /\ pending'[t] = pending[t]
    BY <1>1, OthersUntouched DEF SameSession, Compared
  <2>2. ~CopyPatch(s)
    BY <1>1, <2>1, Phase DEF Compared, LockInv, LockedPhases
  <2>. QED  BY <2>1, <2>2, Frames, SourceFrame DEF ExpectedInv, Compared
<1>2. CASE t = s
  <2>1. ~Prepare(s)
    BY <1>2, Phase DEF Compared
  <2>2. pending' = pending
    BY <2>1, Frames
  <2>3. CASE ~CopyPatch(s)
    <3>1. SourceUnchanged(pending[s][i])
      BY <1>2, <2>2, <2>3, ComparedStep DEF ExpectedInv, Compared
    <3>. QED  BY <1>2, <2>2, <2>3, <3>1, Frames, SourceFrame
  <2>4. CASE CopyPatch(s)
    <3>1. Compared(s, i) /\ i # cursor[s]
      BY <1>2, <2>2, <2>4, ComparedStep
    <3>2. SourceUnchanged(pending[s][i])
      BY <1>2, <2>2, <3>1 DEF ExpectedInv, Compared
    <3>3. /\ PatchCells(pending[s][i])
               \cap PatchCells(pending[s][cursor[s]]) = {}
          /\ PatchCells(pending[s][i]) \subseteq Address
      BY <1>2, <2>2, <2>4, <3>1, CopyApart, PatchFacts
    <3>4. \A a \in PatchCells(pending[s][i]) : mem'[a] = mem[a]
      BY <2>4, <3>3 DEF CopyPatch
    <3>. QED  BY <1>2, <2>2, <3>2, <3>4, SourceFrame
  <2>. QED  BY <2>3, <2>4
<1>. QED  BY <1>1, <1>2
-----------------------------------------------------------------------------
(* A write of the host to its own code keeps every part of IInv. *)
LEMMA HostStep ==
    ASSUME IInv, TypeOK', NEW a \in HostCells, NEW b \in Data, HostWrite(a, b)
    PROVE  IInv'
<1>1. /\ pages' = pages /\ pending' = pending /\ pc' = pc /\ cursor' = cursor
      /\ protections' = protections /\ failure' = failure
      /\ restoreFailed' = restoreFailed /\ result' = result /\ lock' = lock
      /\ registry' = registry /\ codePage' = codePage
      /\ protection' = protection /\ stale' = stale
      /\ mem' = [mem EXCEPT ![a] = b] /\ a \in Address
      /\ a \notin InstalledCells
  BY CodeAssumption DEF HostWrite, sessionVars, callVars
<1>2. \A c \in Address : mem'[c] = IF c = a THEN b ELSE mem[c]
  BY <1>1 DEF IInv, TypeOK
<1>3. LockInv' /\ PendingInv'
  BY <1>1 DEF IInv, LockInv, PendingInv, Size
<1>4. RegistryInv' /\ OverlapInv'
  <2>1. \A t \in Sessions : PatchSet(t)' = PatchSet(t)
    BY <1>1 DEF PatchSet, Size
  <2>2. \A e \in registry : e.session \in Sessions
    BY DEF IInv, TypeOK, PermanentPatchSet
  <2>3. RegistryInv'
    BY <1>1, <2>1, <2>2 DEF IInv, RegistryInv, Committed
  <2>4. OverlapInv'
    BY <1>1 DEF IInv, OverlapInv, Committed, Size, OverlapsInstalled,
                AllInstalled
  <2>. QED  BY <2>3, <2>4
<1>5. PageInv' /\ DetourInv'
  BY <1>1 DEF IInv, PageInv, DetourInv, PermanentPages, Committed, SeqElements
<1>6. ResultInv' /\ FlushInv'
  BY <1>1 DEF IInv, ResultInv, FlushInv, Committed, PatchCells, Size
<1>7. ProtectionInv'
  BY <1>1 DEF IInv, ProtectionInv, HoldInv, ProtectionAt, Held, Leaked,
     SourcePages, PatchPages, Size
<1>8. JumpInv'
  BY <1>1, <1>2, CodeAssumption DEF IInv, JumpInv, PermanentPages
<1>9. InstalledIntact'
  <2>1. ASSUME NEW t \in Sessions, NEW i \in DOMAIN pending[t], Written(t, i)
        PROVE  \A c \in PatchCells(pending[t][i]) : mem'[c] = mem[c]
    BY <1>1, <1>2, <2>1, CommittedInstalled, PatchFacts DEF IInv, Written
  <2>. QED  BY <1>1, <2>1
            DEF IInv, InstalledIntact, IntactAt, Written, Committed,
                PatchCells, Size
<1>10. ExpectedInv'
  <2>1. ASSUME ~HostRaces, NEW t \in Sessions, NEW i \in DOMAIN pending[t],
               Compared(t, i)
        PROVE  SourceUnchanged(pending[t][i])'
    <3>1. a \notin PatchCells(pending[t][i])
      <4>1. CASE pc[t] = "revalidate"
        BY <2>1, <4>1 DEF HostWrite, SourceCells
      <4>2. CASE pc[t] = "copy"
        BY <1>1, <4>2, CommittedInstalled DEF IInv, RegistryInv
      <4>. QED  BY <2>1, <4>1, <4>2 DEF Compared
    <3>2. \A c \in PatchCells(pending[t][i]) : mem'[c] = mem[c]
      BY <1>2, <3>1, PatchFacts DEF IInv
    <3>. QED  BY <1>1, <2>1, <3>2, SourceFrame DEF IInv, ExpectedInv, Compared
  <2>. QED  BY <1>1, <2>1 DEF ExpectedInv, Compared
<1>. QED  BY <1>3, <1>4, <1>5, <1>6, <1>7, <1>8, <1>9, <1>10 DEF IInv
-----------------------------------------------------------------------------
LEMMA IInvInit == Init => IInv
<1>. SUFFICES ASSUME Init
              PROVE  IInv
  OBVIOUS
<1>1. TypeOK
  BY TypeInit
<1>2. LockInv /\ PendingInv /\ RegistryInv /\ DetourInv
  BY ConstantsAssumption
     DEF Init, LockInv, LockedPhases, PendingInv, RegistryInv, DetourInv
<1>3. PageInv /\ JumpInv
  BY CodeAssumption DEF Init, PageInv, JumpInv, SeqElements, PermanentPages
<1>4. OverlapInv /\ InstalledIntact /\ FlushInv /\ ExpectedInv
  BY DEF Init, OverlapInv, InstalledIntact, IntactAt, FlushInv, ExpectedInv
<1>5. ProtectionInv
  BY DEF Init, ProtectionInv, HoldInv, ProtectionAt, Held
<1>6. ResultInv
  BY DEF Init, ResultInv, Committed
<1>. QED  BY <1>1, <1>2, <1>3, <1>4, <1>5, <1>6 DEF IInv

(* IInv is inductive: session by session, and for the host. *)
LEMMA IInvStep == IInv /\ [Next]_vars => IInv'
<1>. SUFFICES ASSUME IInv, [Next]_vars
              PROVE  IInv'
  OBVIOUS
<1>1. TypeOK'
  BY TypeStep DEF IInv
<1>2. ASSUME NEW s \in Sessions, SessionStep(s)
      PROVE  IInv'
  <2>1. /\ LockInv' /\ PendingInv' /\ RegistryInv' /\ PageInv' /\ DetourInv'
        /\ JumpInv'
    BY <1>1, <1>2, LockSession, PendingSession, RegistrySession, PageSession,
       DetourSession, JumpSession DEF IInv
  <2>2. /\ OverlapInv' /\ InstalledIntact' /\ ProtectionInv' /\ ResultInv'
        /\ FlushInv' /\ ExpectedInv'
    BY <1>2, OverlapSession, IntactSession, ProtectionSession, ResultSession,
       FlushSession, ExpectedSession DEF IInv
  <2>. QED  BY <1>1, <2>1, <2>2 DEF IInv
<1>3. ASSUME NEW a \in HostCells, NEW b \in Data, HostWrite(a, b)
      PROVE  IInv'
  BY <1>1, <1>3, HostStep
<1>4. CASE UNCHANGED vars
  <2>1. LockInv' /\ PendingInv' /\ RegistryInv' /\ OverlapInv'
    <3>1. LockInv' /\ PendingInv'
      BY <1>4 DEF IInv, vars, LockInv, PendingInv, Size
    <3>2. RegistryInv'
      <4>1. \A t \in Sessions : PatchSet(t)' = PatchSet(t)
        BY <1>4 DEF vars, PatchSet, Size
      <4>2. \A e \in registry : e.session \in Sessions
        BY DEF IInv, TypeOK, PermanentPatchSet
      <4>. QED  BY <1>4, <4>1, <4>2 DEF IInv, vars, RegistryInv, Committed
    <3>3. OverlapInv'
      BY <1>4 DEF IInv, vars, OverlapInv, Committed, Size, OverlapsInstalled,
         AllInstalled
    <3>. QED  BY <3>1, <3>2, <3>3
  <2>2. PageInv' /\ DetourInv' /\ JumpInv'
    BY <1>4 DEF IInv, vars, PageInv, DetourInv, JumpInv, PermanentPages,
       Committed, SeqElements
  <2>3. InstalledIntact' /\ ResultInv' /\ FlushInv'
    BY <1>4 DEF IInv, vars, InstalledIntact, IntactAt, Written, ResultInv, FlushInv,
       Committed, PatchCells, Size
  <2>4. ProtectionInv' /\ ExpectedInv'
    <3>1. ProtectionInv'
      BY <1>4 DEF IInv, vars, ProtectionInv, HoldInv, ProtectionAt, Held,
         Leaked, SourcePages, PatchPages, Size
    <3>2. ExpectedInv'
      BY <1>4 DEF IInv, vars, ExpectedInv, SourceUnchanged, ReadCode
    <3>. QED  BY <3>1, <3>2
  <2>. QED  BY <1>1, <2>1, <2>2, <2>3, <2>4 DEF IInv
<1>. QED  BY <1>2, <1>3, <1>4 DEF Next, SessionStep, Finished

(* The inductive invariant holds in every reachable state. *)
THEOREM Invariance == Spec => []IInv
BY IInvInit, IInvStep, PTL DEF Spec
-----------------------------------------------------------------------------
(* The theorems a user of install_permanently relies on. *)

(***************************************************************************)
(* Every jump in the host's code leads to a mapped, executable and flushed *)
(* page: sealing precedes the commit, the commit precedes the copies, and  *)
(* pages of the registry are never unmapped (session.rs 387-448).          *)
(***************************************************************************)
THEOREM NoDanglingJumps == Spec => []NoDanglingJump
<1>1. IInv => NoDanglingJump
  BY DEF IInv, NoDanglingJump, JumpInv, PageInv
<1>. QED  BY <1>1, Invariance, PTL

(***************************************************************************)
(* Patches stay byte for byte once copied, whatever other sessions install *)
(* (the overlap checks at session.rs 70-96 and 344-371 under the mutex).   *)
(***************************************************************************)
THEOREM InstalledStaysIntact == Spec => []InstalledIntact
<1>1. IInv => InstalledIntact
  BY DEF IInv
<1>. QED  BY <1>1, Invariance, PTL

(* The page walk meets the page of every byte of a patch. *)
LEMMA PageOfCell ==
    ASSUME TypeOK, NEW s \in Sessions, NEW a \in SourceCells(s)
    PROVE  align_down(a, PageSize) \in SourcePages(s)
<1>1. PICK i \in DOMAIN pending[s] : a \in PatchCells(pending[s][i])
  BY DEF SourceCells
<1>. DEFINE patch == pending[s][i]
            last == patch.address + Size(patch) - 1
<1>2. /\ a \in Nat /\ a <= UsizeMax /\ last \in Nat
      /\ patch.address \in Nat /\ patch.address <= a /\ a <= last
  BY <1>1, PatchFacts, UsizeMaxAssumption, SMTT(30) DEF PatchCells, Cells, Address
<1>3. /\ align_down(patch.address, PageSize) <= align_down(a, PageSize)
      /\ align_down(a, PageSize) <= align_down(last, PageSize)
  BY <1>2, AlignDownMonotone, ConstantsAssumption
<1>4. align_down(a, PageSize) \in PageBases
  <2>1. /\ align_down(a, PageSize) \in Nat /\ align_down(a, PageSize) <= a
        /\ align_down(a, PageSize) % PageSize = 0
    BY <1>2, AlignDown, ConstantsAssumption
  <2>. QED  BY <1>2, <2>1, UsizeMaxAssumption DEF PageBases, Address
<1>5. align_down(a, PageSize) \in PatchPages(patch)
  BY <1>3, <1>4 DEF PatchPages
<1>. QED  BY <1>5 DEF SourcePages

(* A cell about to be copied lies in a page its session holds writable. *)
LEMMA CopiedPage ==
    ASSUME OwnInv, NEW s \in Sessions, pc[s] = "copy", NEW a \in SourceCells(s)
    PROVE  LET g == align_down(a, PageSize) IN
           /\ g \in PageBases /\ g \in SourcePages(s)
           /\ ProtectionAt(g) => protection[g] = RWX
<1>. DEFINE g == align_down(a, PageSize)
<1>1. g \in SourcePages(s)
  BY PageOfCell DEF OwnInv
<1>2. g \in Held(s)
  BY <1>1 DEF OwnInv, HoldInv
<1>3. g \in PageBases
  BY <1>2 DEF Held
<1>. QED  BY <1>1, <1>2, <1>3 DEF ProtectionAt

(***************************************************************************)
(* Patchy never writes to a page that is not writable: every page of every *)
(* patch, of whatever size and alignment, is in the walk of                *)
(* protect_patch_sources, and stays writable until the session restores it *)
(* (session.rs 246-297).                                                   *)
(***************************************************************************)
THEOREM WritesNeverFault == Spec => []CopiesIntoWritablePages
<1>1. IInv => CopiesIntoWritablePages
  BY CopiedPage DEF CopiesIntoWritablePages, IInv, OwnInv, ProtectionInv
<1>. QED  BY <1>1, Invariance, PTL

(* A quiet copy: a page it accounts for is as it was, or was announced. *)
LEMMA QuietPage ==
    ASSUME OwnInv, lock = NoSession, NEW g \in PageBases, ProtectionAt(g)
    PROVE  \/ protection[g] = InitialProtection[g]
           \/ \E t \in Sessions :
                /\ g \in SourcePages(t)
                /\ result[t] \in {"Protection", "InstructionCache"}
<1>1. \A s \in Sessions : pc[s] \notin LockedPhases
  BY ConstantsAssumption DEF OwnInv, LockInv
<1>2. CASE protection[g] = InitialProtection[g]
  BY <1>2
<1>3. CASE protection[g] # InitialProtection[g]
  <2>1. Leaked(g)
    BY <1>1, <1>3 DEF OwnInv, HoldInv, ProtectionAt, LockedPhases
  <2>2. PICK t \in Sessions : g \in SourcePages(t) /\ restoreFailed[t]
    BY <2>1 DEF Leaked
  <2>. QED  BY <1>1, <2>2 DEF OwnInv, ResultInv, LockedPhases
<1>. QED  BY <1>2, <1>3

(***************************************************************************)
(* No page stays writable without a call having returned an error that     *)
(* says so, in any interleaving of sessions that share pages (session.rs   *)
(* 299-326 and 465-468).                                                   *)
(***************************************************************************)
THEOREM LeftWritableReported == Spec => []LeftWritableIsReported
<1>1. IInv => LeftWritableIsReported
  BY QuietPage DEF LeftWritableIsReported, IInv, OwnInv, ProtectionInv
<1>. QED  BY <1>1, Invariance, PTL

(***************************************************************************)
(* Ok means registered and flushed; the early errors mean that nothing was *)
(* installed (session.rs 387-474).                                         *)
(***************************************************************************)
THEOREM ResultsAreTrue == Spec => []ResultTellsTheTruth
<1>1. IInv => ResultTellsTheTruth
  <2>1. ASSUME IInv, NEW s \in Sessions, result[s] \in {"Ok", "Panic"}
        PROVE  SourceCells(s) \cap stale = {}
    BY <2>1 DEF IInv, FlushInv, SourceCells
  <2>. QED  BY <2>1 DEF ResultTellsTheTruth, IInv, ResultInv
<1>. QED  BY <1>1, Invariance, PTL

(* What each mapped page is there for. *)
UseInv ==
    /\ \A s \in Sessions : \A p \in SeqElements(pages[s]) :
         pc[s] # "done" /\ LeadsTo(s, p)
    /\ \A e \in registry : \A p \in e.pages : LeadsTo(e.session, p)
    /\ \A p \in CodePages : codePage[p] # "free" =>
         \/ \E s \in Sessions : p \in SeqElements(pages[s])
         \/ \E e \in registry : p \in e.pages

LEMMA DoneEdge ==
    ASSUME TypeOK, NEW s \in Sessions, SessionStep(s), pc'[s] = "done"
    PROVE  pc[s] = "done" \/ ReleasePages(s)
<1>1. CASE pc[s] = "done"
  BY <1>1
<1>2. CASE pc[s] # "done"
  <2>1. pc[s] = "release"
    BY <1>2, Edges DEF PhaseEdges
  <2>. QED  BY <2>1, PrepareFacts DEF SessionStep, Install, DropSession,
       InstallPermanently, SealPage, FlushPage, PagesDone, LockRegistry,
       CheckOverlap, ValidatePatch, ValidateDone, ProtectPage, ProtectDone,
       RevalidatePatch, Commit, CopyPatch, CopyDone, FlushPatch, FlushDone,
       RestorePage, RestoreDone, Log
<1>. QED  BY <1>1, <1>2

(* Patches are only added, so what leads to a page goes on doing so. *)
LEMMA LeadsToStays ==
    ASSUME TypeOK, NEW s \in Sessions, SessionStep(s),
           NEW t \in Sessions, NEW p, LeadsTo(t, p)
    PROVE  LeadsTo(t, p)'
<1>1. CASE pending' = pending
  BY <1>1 DEF LeadsTo
<1>2. CASE Prepare(s)
  <2>1. PICK patch \in Patch : NewPatch(s, patch)
    BY <1>2, PrepareFacts
  <2>2. DOMAIN pending[t] \subseteq DOMAIN pending'[t]
        /\ \A i \in DOMAIN pending[t] : pending'[t][i] = pending[t][i]
    BY <2>1, AppendFacts
  <2>. QED  BY <2>2 DEF LeadsTo
<1>. QED  BY <1>1, <1>2, Frames

LEMMA UsePrepare ==
    ASSUME TypeOK, UseInv, NEW s \in Sessions, SessionStep(s), Prepare(s)
    PROVE  UseInv'
<1>1. /\ registry' = registry /\ pc' = pc /\ pc[s] = "open"
      /\ \A e \in registry : e.session \in Sessions
  BY PrepareFacts DEF Prepare, Overwrite, PrepareDetour, processVars, TypeOK,
     PermanentPatchSet
<1>2. \A e \in registry' : \A p \in e.pages : LeadsTo(e.session, p)'
  BY <1>1, LeadsToStays DEF UseInv
<1>3. CASE UNCHANGED <<pages, codePage>>
  BY <1>1, <1>2, <1>3, LeadsToStays DEF UseInv, SeqElements
<1>4. ASSUME NEW address \in Sites, NEW size \in DetourSizes,
             NEW p \in CodePages, PrepareDetour(s, address, size, p),
             pages' = [pages EXCEPT ![s] = Append(@, p)],
             codePage' = [codePage EXCEPT ![p] = "writable"]
      PROVE  UseInv'
  <2>. DEFINE patch == [address |-> address,
                        expected |-> ReadCode(address,
                                       Len(build_near_jump(p, size))),
                        replacement |-> build_near_jump(p, size),
                        page |-> p]
  <2>1. /\ pending' = [pending EXCEPT ![s] = Append(@, patch)]
        /\ patch.page = p
    BY <1>4 DEF PrepareDetour, PushPending
  <2>. HIDE DEF patch
  <2>2. LeadsTo(s, p)'
    <3>1. pending[s] \in Seq(Patch) /\ pending'[s] = Append(pending[s], patch)
      BY <2>1 DEF TypeOK
    <3>2. /\ Len(pending[s]) + 1 \in DOMAIN pending'[s]
          /\ pending'[s][Len(pending[s]) + 1] = patch
      BY <3>1
    <3>. QED  BY <2>1, <3>2 DEF LeadsTo
  <2>3. /\ SeqElements(pages'[s]) = SeqElements(pages[s]) \cup {p}
        /\ \A t \in Sessions : t # s => pages'[t] = pages[t]
    <3>1. pages[s] \in Seq(CodePages) /\ pages'[s] = Append(pages[s], p)
      BY <1>4 DEF TypeOK
    <3>2. SeqElements(pages'[s]) = SeqElements(pages[s]) \cup {p}
      BY <3>1 DEF SeqElements
    <3>. QED  BY <1>4, <3>2 DEF TypeOK
  <2>4. \A t \in Sessions : \A q \in SeqElements(pages'[t]) :
          pc'[t] # "done" /\ LeadsTo(t, q)'
    BY <1>1, <2>2, <2>3, LeadsToStays DEF UseInv
  <2>5. \A q \in CodePages : codePage'[q] # "free" =>
          \/ \E t \in Sessions : q \in SeqElements(pages'[t])
          \/ \E e \in registry' : q \in e.pages
    <3>1. \A t \in Sessions : SeqElements(pages[t]) \subseteq SeqElements(pages'[t])
      BY <2>3
    <3>2. \A q \in CodePages : q # p => codePage'[q] = codePage[q]
      BY <1>4 DEF TypeOK
    <3>. QED  BY <1>1, <2>3, <3>1, <3>2 DEF UseInv
  <2>. QED  BY <1>2, <2>4, <2>5 DEF UseInv, SeqElements
<1>. QED  BY <1>3, <1>4 DEF Prepare, Overwrite, PrepareDetour, processVars

LEMMA UseStep ==
    ASSUME TypeOK, UseInv, NEW s \in Sessions, SessionStep(s)
    PROVE  UseInv'
<1>0. \A e \in registry : e.session \in Sessions
  BY DEF TypeOK, PermanentPatchSet
<1>1. CASE Prepare(s)
  BY <1>1, UsePrepare
<1>2. ASSUME pages' = pages, registry' = registry, ~ReleasePages(s),
             \A p \in CodePages : codePage'[p] # codePage[p] =>
                 p \in SeqElements(pages[s])
      PROVE  UseInv'
  <2>1. \A t \in Sessions : pc'[t] = "done" => pc[t] = "done"
    BY <1>2, DoneEdge, OthersUntouched DEF SameSession
  <2>2. \A t \in Sessions : SeqElements(pages'[t]) = SeqElements(pages[t])
    BY <1>2 DEF SeqElements
  <2>3. \A t \in Sessions : \A p \in SeqElements(pages'[t]) :
          pc'[t] # "done" /\ LeadsTo(t, p)'
    BY <2>1, <2>2, LeadsToStays DEF UseInv
  <2>4. \A e \in registry' : \A p \in e.pages : LeadsTo(e.session, p)'
    BY <1>0, <1>2, LeadsToStays DEF UseInv
  <2>5. \A p \in CodePages : codePage'[p] # "free" =>
          \/ \E t \in Sessions : p \in SeqElements(pages'[t])
          \/ \E e \in registry' : p \in e.pages
    BY <1>2, <2>2 DEF UseInv
  <2>. QED  BY <2>3, <2>4, <2>5 DEF UseInv, SeqElements
<1>3. CASE SealPage(s) \/ FlushPage(s)
  <2>1. pages' = pages /\ registry' = registry /\ ~ReleasePages(s)
    BY <1>3, Phase DEF SealPage, FlushPage, sessionVars
  <2>2. pages[s][cursor[s]] \in SeqElements(pages[s])
    BY <1>3 DEF SealPage, FlushPage, SeqElements
  <2>3. \A p \in CodePages : codePage'[p] # codePage[p] =>
          p = pages[s][cursor[s]]
    BY <1>3 DEF SealPage, FlushPage, TypeOK
  <2>. QED  BY <1>2, <2>1, <2>2, <2>3
<1>4. CASE Commit(s)
  <2>. DEFINE e == [session |-> s, pages |-> SeqElements(pages[s]),
                    patches |-> PatchSet(s)]
  <2>1. /\ registry' = registry \cup {e} /\ codePage' = codePage
        /\ e.pages = SeqElements(pages[s]) /\ e.session = s
    BY <1>4 DEF Commit
  <2>. HIDE DEF e
  <2>2. /\ SeqElements(pages'[s]) = {}
        /\ \A t \in Sessions : t # s => pages'[t] = pages[t] /\ pc'[t] = pc[t]
    BY <1>4, OthersUntouched DEF Commit, TypeOK, SeqElements, SameSession
  <2>3. \A t \in Sessions : \A p \in SeqElements(pages'[t]) :
          pc'[t] # "done" /\ LeadsTo(t, p)'
    BY <2>2, LeadsToStays DEF UseInv
  <2>4. \A f \in registry' : \A p \in f.pages : LeadsTo(f.session, p)'
    BY <1>0, <2>1, LeadsToStays DEF UseInv
  <2>5. \A p \in CodePages : codePage'[p] # "free" =>
          \/ \E t \in Sessions : p \in SeqElements(pages'[t])
          \/ \E f \in registry' : p \in f.pages
    BY <2>1, <2>2 DEF UseInv
  <2>. QED  BY <2>3, <2>4, <2>5 DEF UseInv, SeqElements
<1>5. CASE ReleasePages(s)
  <2>1. /\ registry' = registry /\ SeqElements(pages'[s]) = {}
        /\ \A t \in Sessions : t # s => pages'[t] = pages[t] /\ pc'[t] = pc[t]
        /\ \A p \in CodePages : codePage'[p] =
             IF p \in SeqElements(pages[s]) THEN "free" ELSE codePage[p]
    BY <1>5, OthersUntouched DEF ReleasePages, TypeOK, SeqElements, SameSession
  <2>2. \A t \in Sessions : \A p \in SeqElements(pages'[t]) :
          pc'[t] # "done" /\ LeadsTo(t, p)'
    BY <2>1, LeadsToStays DEF UseInv
  <2>3. \A e \in registry' : \A p \in e.pages : LeadsTo(e.session, p)'
    BY <1>0, <2>1, LeadsToStays DEF UseInv
  <2>4. \A p \in CodePages : codePage'[p] # "free" =>
          \/ \E t \in Sessions : p \in SeqElements(pages'[t])
          \/ \E e \in registry' : p \in e.pages
    BY <2>1 DEF UseInv
  <2>. QED  BY <2>2, <2>3, <2>4 DEF UseInv, SeqElements
<1>6. CASE /\ ~Prepare(s) /\ ~SealPage(s) /\ ~FlushPage(s) /\ ~Commit(s)
           /\ ~ReleasePages(s)
  BY <1>2, <1>6, Frames
<1>. QED  BY <1>1, <1>3, <1>4, <1>5, <1>6

(***************************************************************************)
(* Whatever fails, and between whichever two pages: the pages of a call    *)
(* that has returned are unmapped, except those an installed patch leads   *)
(* to (session.rs 388-436).                                                *)
(***************************************************************************)
THEOREM PagesReleased == Spec => []PagesAreReleased
<1>1. Init => UseInv
  BY DEF Init, UseInv, SeqElements
<1>2. IInv /\ UseInv /\ [Next]_vars => UseInv'
  <2>. SUFFICES ASSUME IInv, UseInv, [Next]_vars
                PROVE  UseInv'
    OBVIOUS
  <2>1. ASSUME UNCHANGED <<pages, pending, pc, registry, codePage>>
        PROVE  UseInv'
    BY <2>1 DEF UseInv, LeadsTo, SeqElements
  <2>2. CASE UNCHANGED vars
    BY <2>1, <2>2 DEF vars
  <2>3. ASSUME NEW s \in Sessions, SessionStep(s)
        PROVE  UseInv'
    BY <2>3, UseStep DEF IInv
  <2>4. ASSUME NEW a \in HostCells, NEW b \in Data, HostWrite(a, b)
        PROVE  UseInv'
    BY <2>1, <2>4 DEF HostWrite, sessionVars, callVars
  <2>. QED  BY <2>2, <2>3, <2>4 DEF Next, SessionStep, Finished
<1>3. UseInv => PagesAreReleased
  BY DEF UseInv, PagesAreReleased
<1>. QED  BY <1>1, <1>2, <1>3, Invariance, PTL DEF Spec

(***************************************************************************)
(* While the host keeps away from sources under installation, only the     *)
(* bytes read at preparation are ever replaced (session.rs 414-448).       *)
(***************************************************************************)
THEOREM ReplacesOnlyExpected ==
    ASSUME ~HostRaces
    PROVE  Spec => []OverwritesOnlyExpected
<1>1. IInv => OverwritesOnlyExpected
  <2>. SUFFICES ASSUME IInv, NEW s \in Sessions, pc[s] = "copy",
                       NEW i \in cursor[s] .. Len(pending[s])
                PROVE  SourceUnchanged(pending[s][i])
    BY DEF OverwritesOnlyExpected
  <2>1. i \in DOMAIN pending[s] /\ i >= cursor[s]
    <3>1. /\ pending[s] \in Seq(Patch) /\ cursor[s] \in Nat
          /\ cursor[s] >= 1
      BY DEF IInv, TypeOK
    <3>. QED  BY <3>1
  <2>. QED  BY <2>1 DEF IInv, ExpectedInv
<1>. QED  BY <1>1, Invariance, PTL

(***************************************************************************)
(* Steps of sessions change only code the registry lists already: the push *)
(* at session.rs 427 precedes the copies at 438.                           *)
(***************************************************************************)
THEOREM RegisteredBeforeWritten == Spec => ChangesOnlyRegisteredCode
<1>. DEFINE Step == (pc' # pc \/ cursor' # cursor) =>
                      \A a \in Address \ InstalledCells : mem'[a] = mem[a]
<1>1. IInv /\ [Next]_vars => [Step]_vars
  <2>. SUFFICES ASSUME IInv, [Next]_vars, pc' # pc \/ cursor' # cursor,
                       NEW a \in Address \ InstalledCells
                PROVE  mem'[a] = mem[a]
    OBVIOUS
  <2>1. CASE mem' = mem
    BY <2>1
  <2>2. ASSUME NEW s \in Sessions, CopyPatch(s)
        PROVE  mem'[a] = mem[a]
    <3>1. Committed(s) /\ cursor[s] \in DOMAIN pending[s]
      BY <2>2 DEF CopyPatch, IInv, RegistryInv
    <3>2. a \notin PatchCells(pending[s][cursor[s]])
      BY <3>1, CommittedInstalled DEF IInv
    <3>. QED  BY <2>2, <3>2 DEF CopyPatch
  <2>3. ~(\E c \in HostCells, b \in Data : HostWrite(c, b))
    BY DEF HostWrite, callVars
  <2>. QED  BY <2>1, <2>2, <2>3, Frames DEF Next, SessionStep, Finished, vars
<1>. QED  BY <1>1, Invariance, PTL DEF Spec, ChangesOnlyRegisteredCode
-----------------------------------------------------------------------------
(* One copy of the library beside others in the same process: what it      *)
(* relies on and what it guarantees (TwoCopiesProofs composes two).        *)

LEMMA OwnInit ==
    Init => /\ OwnInv /\ JumpInv /\ OwnedPages = {}
            /\ \A a \in Address : IntactAt(a)
            /\ \A g \in PageBases : ProtectionAt(g)
<1>1. Init => IInv
  BY IInvInit
<1>2. Init => OwnedPages = {}
  BY DEF Init, OwnedPages, PermanentPages, SeqElements
<1>. QED  BY <1>1, <1>2 DEF IInv, OwnInv, InstalledIntact, ProtectionInv

(* A host that never writes leaves the steps of the sessions. *)
LEMMA SessionOrNothing ==
    ASSUME HostCells = {}, [Next]_vars
    PROVE  UNCHANGED vars \/ \E s \in Sessions : SessionStep(s)
BY DEF Next, SessionStep, Finished

(***************************************************************************)
(* The others leave the state of this copy alone, and every trampoline     *)
(* page it owns.                                                           *)
(***************************************************************************)
Rely ==
    /\ UNCHANGED <<sessionVars, callVars, lock, registry>>
    /\ TypeOK'
    /\ \A p \in OwnedPages : codePage'[p] = codePage[p]

LEMMA OwnInvRely ==
    ASSUME OwnInv, Rely
    PROVE  OwnInv' /\ OwnedPages' = OwnedPages
<1>1. /\ pages' = pages /\ pending' = pending /\ pc' = pc /\ cursor' = cursor
      /\ protections' = protections /\ failure' = failure
      /\ restoreFailed' = restoreFailed /\ result' = result /\ lock' = lock
      /\ registry' = registry
  BY DEF Rely, sessionVars, callVars
<1>2. TypeOK' /\ LockInv' /\ PendingInv'
  BY <1>1 DEF Rely, OwnInv, LockInv, PendingInv, Size
<1>3. RegistryInv' /\ OverlapInv'
  <2>1. \A t \in Sessions : PatchSet(t)' = PatchSet(t)
    BY <1>1 DEF PatchSet, Size
  <2>2. \A e \in registry : e.session \in Sessions
    BY DEF OwnInv, TypeOK, PermanentPatchSet
  <2>3. RegistryInv'
    BY <1>1, <2>1, <2>2 DEF OwnInv, RegistryInv, Committed
  <2>4. OverlapInv'
    BY <1>1 DEF OwnInv, OverlapInv, Committed, Size, OverlapsInstalled,
                AllInstalled
  <2>. QED  BY <2>3, <2>4
<1>4. PageInv'
  <2>1. PermanentPages' = PermanentPages
    BY <1>1 DEF PermanentPages
  <2>2. \A p \in PermanentPages : codePage'[p] = codePage[p]
    BY DEF Rely, OwnedPages
  <2>3. \A s \in Sessions : \A p \in SeqElements(pages[s]) :
          codePage'[p] = codePage[p]
    BY DEF Rely, OwnedPages
  <2>4. PermanentFlushed /\ \A t \in Sessions : OwnedBy(t) /\ SealedSoFar(t)
    BY PageInvParts DEF OwnInv
  <2>5. PermanentFlushed'
    BY <2>1, <2>2, <2>4 DEF PermanentFlushed
  <2>6. \A t \in Sessions : OwnedBy(t)'
    BY <1>1, <2>1, <2>3, <2>4 DEF OwnedBy
  <2>7. \A t \in Sessions : SealedSoFar(t)'
    <3>1. \A t \in Sessions : \A i \in DOMAIN pages[t] :
            codePage'[pages[t][i]] = codePage[pages[t][i]]
      BY <2>3 DEF SeqElements
    <3>. QED  BY <1>1, <2>4, <3>1 DEF SealedSoFar
  <2>. QED  BY <2>5, <2>6, <2>7
            DEF PageInv, PermanentFlushed, OwnedBy, SealedSoFar
<1>5. DetourInv' /\ ResultInv'
  BY <1>1 DEF OwnInv, DetourInv, ResultInv, PermanentPages, Committed,
              SeqElements
<1>6. HoldInv'
  BY <1>1 DEF OwnInv, HoldInv, Held, SourcePages, PatchPages, Size
<1>7. OwnedPages' = OwnedPages
  BY <1>1 DEF OwnedPages, PermanentPages, SeqElements
<1>. QED  BY <1>2, <1>3, <1>4, <1>5, <1>6, <1>7 DEF OwnInv

(* What others do elsewhere keeps the page and the byte this copy counts on. *)
LEMMA ElsewhereKeeps ==
    ASSUME OwnInv, Rely
    PROVE  /\ \A g \in PageBases :
                ProtectionAt(g) /\ protection'[g] = protection[g]
                  => ProtectionAt(g)'
           /\ \A a \in Address :
                IntactAt(a) /\ mem'[a] = mem[a] => IntactAt(a)'
           /\ PatchedPages' = PatchedPages /\ PatchedCells' = PatchedCells
<1>1. /\ pending' = pending /\ pc' = pc /\ cursor' = cursor
      /\ protections' = protections /\ restoreFailed' = restoreFailed
      /\ registry' = registry
  BY DEF Rely, sessionVars, callVars
<1>2. ASSUME NEW g \in PageBases, ProtectionAt(g), protection'[g] = protection[g]
      PROVE  ProtectionAt(g)'
  BY <1>1, <1>2 DEF ProtectionAt, Held, Leaked, SourcePages, PatchPages, Size
<1>3. ASSUME NEW a \in Address, IntactAt(a), mem'[a] = mem[a]
      PROVE  IntactAt(a)'
  BY <1>1, <1>3 DEF IntactAt, Written, Committed, PatchCells, Size
<1>4. PatchedPages' = PatchedPages /\ PatchedCells' = PatchedCells
  BY <1>1 DEF PatchedPages, PatchedCells, SourcePages, SourceCells, PatchPages,
              PatchCells, Size
<1>. QED  BY <1>2, <1>3, <1>4

(***************************************************************************)
(* In return this copy keeps away from pages the others own, and from      *)
(* bytes and protections it has prepared no patch for; a jump it writes    *)
(* leads to a page of its registry.                                        *)
(***************************************************************************)
FreePages == {p \in CodePages : codePage[p] = "free"}

Guarantee ==
    /\ \A p \in CodePages : codePage'[p] # codePage[p] =>
         p \in OwnedPages \cup FreePages
    /\ OwnedPages' \subseteq OwnedPages \cup FreePages
    /\ PermanentPages \subseteq PermanentPages'
    /\ PatchedPages \subseteq PatchedPages'
    /\ PatchedCells \subseteq PatchedCells'
    /\ \A g \in PageBases \ PatchedPages : protection'[g] = protection[g]
    /\ \A a \in Address \ PatchedCells : mem'[a] = mem[a]
    /\ \A a \in Address, p \in CodePages : mem'[a] = Jump(p) =>
         mem[a] = Jump(p) \/ p \in PermanentPages

LEMMA OwnedNotFree ==
    ASSUME OwnInv
    PROVE  OwnedPages \subseteq CodePages /\ OwnedPages \cap FreePages = {}
<1>1. \A s \in Sessions : SeqElements(pages[s]) \subseteq CodePages
  BY DEF OwnInv, TypeOK, SeqElements
<1>2. PermanentPages \subseteq CodePages
  BY DEF OwnInv, TypeOK, PermanentPages, PermanentPatchSet
<1>. QED  BY <1>1, <1>2 DEF OwnInv, PageInv, OwnedPages, FreePages

(* The trampoline pages of a copy are those it maps and does not unmap. *)
LEMMA OwnedStep ==
    ASSUME OwnInv, NEW s \in Sessions, SessionStep(s)
    PROVE  /\ \A p \in CodePages : codePage'[p] # codePage[p] =>
                p \in OwnedPages \cup FreePages
           /\ OwnedPages' \subseteq OwnedPages \cup FreePages
<1>1. \A t \in Sessions : t # s => pages'[t] = pages[t]
  BY OthersUntouched DEF OwnInv, SameSession
<1>2. CASE Prepare(s)
  <2>1. PermanentPages' = PermanentPages
    BY <1>2 DEF Prepare, Overwrite, PrepareDetour, processVars, PermanentPages
  <2>2. CASE UNCHANGED <<pages, codePage>>
    BY <2>1, <2>2 DEF OwnedPages, SeqElements
  <2>3. ASSUME NEW p \in CodePages, codePage[p] = "free",
               pages' = [pages EXCEPT ![s] = Append(@, p)],
               codePage' = [codePage EXCEPT ![p] = "writable"]
        PROVE  /\ \A q \in CodePages : codePage'[q] # codePage[q] =>
                    q \in OwnedPages \cup FreePages
               /\ OwnedPages' \subseteq OwnedPages \cup FreePages
    <3>1. pages[s] \in Seq(CodePages) /\ pages'[s] = Append(pages[s], p)
      BY <2>3 DEF OwnInv, TypeOK
    <3>2. SeqElements(pages'[s]) \subseteq SeqElements(pages[s]) \cup {p}
      BY <3>1 DEF SeqElements
    <3>3. \A t \in Sessions :
            SeqElements(pages'[t]) \subseteq SeqElements(pages[t]) \cup {p}
      BY <1>1, <3>2
    <3>4. \A q \in CodePages : codePage'[q] # codePage[q] => q = p
      BY <2>3 DEF OwnInv, TypeOK
    <3>. QED  BY <2>1, <2>3, <3>3, <3>4 DEF OwnedPages, FreePages, SeqElements
  <2>. QED  BY <1>2, <2>2, <2>3
            DEF Prepare, Overwrite, PrepareDetour, processVars
<1>3. CASE SealPage(s) \/ FlushPage(s)
  <2>1. pages' = pages /\ registry' = registry
    BY <1>3 DEF SealPage, FlushPage, sessionVars
  <2>2. OwnedPages' = OwnedPages
    BY <2>1 DEF OwnedPages, PermanentPages, SeqElements
  <2>3. pages[s][cursor[s]] \in SeqElements(pages[s])
    BY <1>3 DEF SealPage, FlushPage, SeqElements
  <2>4. \A p \in CodePages : codePage'[p] # codePage[p] =>
          p = pages[s][cursor[s]]
    BY <1>3 DEF SealPage, FlushPage, OwnInv, TypeOK
  <2>. QED  BY <2>2, <2>3, <2>4 DEF OwnedPages
<1>4. CASE Commit(s)
  <2>. DEFINE e == [session |-> s, pages |-> SeqElements(pages[s]),
                    patches |-> PatchSet(s)]
  <2>1. codePage' = codePage /\ registry' = registry \cup {e}
        /\ pages' = [pages EXCEPT ![s] = <<>>]
    BY <1>4 DEF Commit
  <2>2. e.pages = SeqElements(pages[s])
    OBVIOUS
  <2>. HIDE DEF e
  <2>3. PermanentPages' = PermanentPages \cup SeqElements(pages[s])
    BY <2>1, <2>2 DEF PermanentPages
  <2>4. \A t \in Sessions : SeqElements(pages'[t]) \subseteq SeqElements(pages[t])
    BY <2>1 DEF OwnInv, TypeOK, SeqElements
  <2>. QED  BY <2>1, <2>3, <2>4 DEF OwnedPages, SeqElements
<1>5. CASE ReleasePages(s)
  <2>1. registry' = registry /\ pages' = [pages EXCEPT ![s] = <<>>]
        /\ \A p \in CodePages : codePage'[p] # codePage[p] =>
             p \in SeqElements(pages[s])
    BY <1>5 DEF ReleasePages
  <2>2. \A t \in Sessions : SeqElements(pages'[t]) \subseteq SeqElements(pages[t])
    BY <2>1 DEF OwnInv, TypeOK, SeqElements
  <2>. QED  BY <2>1, <2>2 DEF OwnedPages, PermanentPages, SeqElements
<1>6. CASE pages' = pages /\ codePage' = codePage /\ registry' = registry
  BY <1>6 DEF OwnedPages, PermanentPages, SeqElements
<1>. QED  BY <1>2, <1>3, <1>4, <1>5, <1>6, Frames

(* Patches are only ever added to what a session has prepared. *)
LEMMA PatchedGrows ==
    ASSUME TypeOK, NEW s \in Sessions, SessionStep(s)
    PROVE  PatchedPages \subseteq PatchedPages' /\ PatchedCells \subseteq PatchedCells'
<1>1. \A t \in Sessions : \A i \in DOMAIN pending[t] :
        i \in DOMAIN pending'[t] /\ pending'[t][i] = pending[t][i]
  <2>1. CASE pending' = pending
    BY <2>1
  <2>2. CASE Prepare(s)
    <3>1. PICK patch \in Patch : NewPatch(s, patch)
      BY <2>2, PrepareFacts
    <3>. QED  BY <3>1, AppendFacts
  <2>. QED  BY <2>1, <2>2, Frames
<1>2. \A t \in Sessions : SourceCells(t) \subseteq SourceCells(t)'
  BY <1>1 DEF SourceCells, PatchCells, Size
<1>3. \A t \in Sessions : SourcePages(t) \subseteq SourcePages(t)'
  BY SourcePagesStep
<1>. QED  BY <1>2, <1>3 DEF PatchedPages, PatchedCells

LEMMA GuaranteeSession ==
    ASSUME OwnInv, NEW s \in Sessions, SessionStep(s)
    PROVE  Guarantee
<1>1. PermanentPages \subseteq PermanentPages'
  BY CommittedStep
<1>2. \A g \in PageBases \ PatchedPages : protection'[g] = protection[g]
  <2>1. ASSUME ProtectPage(s), NEW g \in PageBases \ PatchedPages
        PROVE  protection'[g] = protection[g]
    <3>1. g \notin SourcePages(s)
      BY DEF PatchedPages
    <3>. QED  BY <2>1, <3>1 DEF ProtectPage, OwnInv, TypeOK
  <2>2. ASSUME RestorePage(s), NEW g \in PageBases \ PatchedPages
        PROVE  protection'[g] = protection[g]
    <3>1. g \notin Held(s)
      BY DEF PatchedPages, OwnInv, HoldInv
    <3>. QED  BY <2>2, <3>1 DEF RestorePage, OwnInv, TypeOK
  <2>. QED  BY <2>1, <2>2, Frames
<1>3. \A a \in Address \ PatchedCells : mem'[a] = mem[a]
  <2>1. ASSUME CopyPatch(s), NEW a \in Address \ PatchedCells
        PROVE  mem'[a] = mem[a]
    <3>1. a \notin PatchCells(pending[s][cursor[s]])
      BY <2>1 DEF PatchedCells, SourceCells, CopyPatch
    <3>. QED  BY <2>1, <3>1 DEF CopyPatch
  <2>. QED  BY <2>1, Frames
<1>4. \A a \in Address, p \in CodePages : mem'[a] = Jump(p) =>
        mem[a] = Jump(p) \/ p \in PermanentPages
  BY CopiedJumps DEF OwnInv
<1>5. PatchedPages \subseteq PatchedPages' /\ PatchedCells \subseteq PatchedCells'
  BY PatchedGrows DEF OwnInv
<1>. QED  BY <1>1, <1>2, <1>3, <1>4, <1>5, OwnedStep DEF Guarantee

(* A step of this copy keeps what it owns in order, and its guarantee. *)
LEMMA OwnStep ==
    ASSUME HostCells = {}, OwnInv, [Next]_vars
    PROVE  /\ OwnInv' /\ Guarantee
           /\ \A g \in PageBases : ProtectionAt(g) => ProtectionAt(g)'
           /\ \A a \in Address : IntactAt(a) => IntactAt(a)'
<1>1. ASSUME NEW s \in Sessions, SessionStep(s)
      PROVE  /\ OwnInv' /\ Guarantee
             /\ \A g \in PageBases : ProtectionAt(g) => ProtectionAt(g)'
             /\ \A a \in Address : IntactAt(a) => IntactAt(a)'
  <2>1. TypeOK'
    BY TypeStep DEF OwnInv
  <2>2. /\ LockInv' /\ PendingInv' /\ RegistryInv' /\ PageInv' /\ DetourInv'
        /\ OverlapInv' /\ HoldInv' /\ ResultInv'
    BY <1>1, <2>1, LockSession, PendingSession, RegistrySession, PageSession,
       DetourSession, OverlapSession, HoldSession, ResultSession DEF OwnInv
  <2>3. Guarantee
    BY <1>1, GuaranteeSession
  <2>4. /\ \A g \in PageBases : ProtectionAt(g) => ProtectionAt(g)'
        /\ \A a \in Address : IntactAt(a) => IntactAt(a)'
    BY <1>1, ProtectionStep, IntactStep DEF OwnInv
  <2>. QED  BY <2>1, <2>2, <2>3, <2>4 DEF OwnInv
<1>2. ASSUME UNCHANGED vars
      PROVE  /\ OwnInv' /\ Guarantee
             /\ \A g \in PageBases : ProtectionAt(g) => ProtectionAt(g)'
             /\ \A a \in Address : IntactAt(a) => IntactAt(a)'
  <2>1. Rely
    <3>1. TypeOK'
      BY TypeStep DEF OwnInv
    <3>. QED  BY <1>2, <3>1 DEF Rely, vars, sessionVars, callVars
  <2>2. PermanentPages' = PermanentPages
    BY <1>2 DEF vars, PermanentPages
  <2>. QED  BY <1>2, <2>1, <2>2, OwnInvRely, ElsewhereKeeps DEF Guarantee, vars
<1>. QED  BY <1>1, <1>2, SessionOrNothing
-----------------------------------------------------------------------------
(***************************************************************************)
(* PatchInstall implements AtomicInstall: every step of a session or of    *)
(* the host is a step of the abstract specification or leaves what it      *)
(* speaks of unchanged.                                                    *)
(***************************************************************************)

(* Where a session stands in the abstract specification. *)
LEMMA PhaseValue ==
    ASSUME IInv, NEW s \in Sessions
    PROVE  /\ phaseBar[s] = PhaseOf(s)
           /\ pc[s] = "open" => PhaseOf(s) = "open" /\ ~Committed(s)
           /\ pc[s] \in {"seal", "flush_pages", "lock", "overlap", "validate",
                         "protect", "revalidate", "rollback"} =>
                PhaseOf(s) = "called" /\ ~Committed(s)
           /\ pc[s] \in {"copy", "flush", "restore", "log"} =>
                PhaseOf(s) = "committed" /\ Committed(s)
           /\ PhaseOf(s) = "committed" =>
                pc[s] \in {"copy", "flush", "restore", "log"}
           /\ PhaseOf(s) \in {"committed", "installed"} <=> Committed(s)
<1>1. phaseBar[s] = PhaseOf(s)
  BY DEF phaseBar
<1>2. Committed(s) =>
        pc[s] \in {"copy", "flush", "restore", "log", "release", "done"}
  BY NotYetCommitted DEF IInv
<1>3. pc[s] \in {"copy", "flush", "restore", "log"} => Committed(s)
  BY DEF IInv, RegistryInv
<1>. QED  BY <1>1, <1>2, <1>3 DEF PhaseOf

(* Steps that only move the program counter inside the call. *)
LEMMA Silent ==
    ASSUME NEW s \in Sessions, TypeOK,
           UNCHANGED <<pending, registry, mem, result>>, NEW next,
           pc' = [pc EXCEPT ![s] = next],
           \/ /\ pc[s] \notin {"open", "release", "done"}
              /\ next \notin {"open", "release", "done"}
           \/ /\ pc[s] \in {"release", "done"}
              /\ next \in {"release", "done"}
    PROVE  UNCHANGED Atomic!vars
<1>1. \A t \in Sessions : Committed(t)' = Committed(t)
  BY DEF Committed
<1>2. \A t \in Sessions : PhaseOf(t)' = PhaseOf(t)
  BY <1>1 DEF PhaseOf, TypeOK
<1>3. phaseBar' = phaseBar
  BY <1>2 DEF phaseBar
<1>4. patchesBar' = patchesBar
  BY DEF patchesBar, Seen
<1>. QED  BY <1>3, <1>4 DEF Atomic!vars

(* Steps that do not even move it. *)
LEMMA Stays ==
    ASSUME UNCHANGED <<pending, registry, mem, result, pc>>
    PROVE  UNCHANGED Atomic!vars
BY DEF Atomic!vars, phaseBar, PhaseOf, Committed, patchesBar, Seen

(* A return ends the abstract call, according to the registry. *)
LEMMA ReturnEnds ==
    ASSUME NEW s \in Sessions, TypeOK, UNCHANGED <<pending, registry, mem>>,
           NEW outcome, Return(s, outcome)
    PROVE  Atomic!End(s, IF Committed(s) THEN "installed" ELSE "refused",
                      outcome)
<1>1. \A t \in Sessions : Committed(t)' = Committed(t)
  BY DEF Committed
<1>2. pc' = [pc EXCEPT ![s] = "release"]
      /\ result' = [result EXCEPT ![s] = outcome]
  BY DEF Return, Goto
<1>3. \A t \in Sessions : PhaseOf(t)' =
        IF t = s THEN IF Committed(s) THEN "installed" ELSE "refused"
        ELSE PhaseOf(t)
  BY <1>1, <1>2 DEF PhaseOf, TypeOK
<1>4. phaseBar' = [phaseBar EXCEPT ![s] =
                     IF Committed(s) THEN "installed" ELSE "refused"]
  BY <1>3 DEF phaseBar
<1>5. patchesBar' = patchesBar
  BY DEF patchesBar, Seen
<1>. QED  BY <1>2, <1>4, <1>5 DEF Atomic!End

(* Permanent patches are those the registry lists. *)
LEMMA PermanentCommitted ==
    ASSUME IInv
    PROVE  /\ Atomic!Permanent = {t \in Sessions : Committed(t)}
           /\ AllInstalled = UNION {PatchSet(t) : t \in Atomic!Permanent}
<1>1. Atomic!Permanent = {t \in Sessions : Committed(t)}
  BY PhaseValue DEF Atomic!Permanent
<1>2. \A e \in registry : e.session \in Sessions /\ e.patches = PatchSet(e.session)
  BY DEF IInv, TypeOK, RegistryInv, PermanentPatchSet
<1>3. AllInstalled \subseteq UNION {PatchSet(t) : t \in Atomic!Permanent}
  BY <1>1, <1>2 DEF AllInstalled, Committed
<1>4. UNION {PatchSet(t) : t \in Atomic!Permanent} \subseteq AllInstalled
  BY <1>1, <1>2 DEF AllInstalled, Committed
<1>. QED  BY <1>1, <1>3, <1>4

(* ensure_patches_do_not_overlap_installed finds exactly the collisions. *)
LEMMA CollidesOverlaps ==
    ASSUME IInv, NEW s \in Sessions
    PROVE  Atomic!Collides(s) <=> OverlapsInstalled(s)
<1>1. \A t \in Sessions : patchesBar[t] =
        {Seen(pending[t][i]) : i \in DOMAIN pending[t]}
  BY DEF patchesBar
<1>2. \A t \in Sessions : \A i \in DOMAIN pending[s], j \in DOMAIN pending[t] :
        Atomic!Overlap(Seen(pending[s][i]), Seen(pending[t][j])) <=>
        RangesOverlap(pending[s][i].address, Size(pending[s][i]),
                      pending[t][j].address, Size(pending[t][j]))
  BY DEF Atomic!Overlap, Atomic!RangesOverlap, RangesOverlap, Seen, Size
<1>3. Atomic!Collides(s) <=>
        \E t \in Atomic!Permanent :
          \E i \in DOMAIN pending[s], j \in DOMAIN pending[t] :
            RangesOverlap(pending[s][i].address, Size(pending[s][i]),
                          pending[t][j].address, Size(pending[t][j]))
  <2>1. \A t \in Atomic!Permanent : t \in Sessions
    BY DEF Atomic!Permanent
  <2>2. \A t \in Sessions :
          (\E p \in patchesBar[s], q \in patchesBar[t] : Atomic!Overlap(p, q))
          <=> \E i \in DOMAIN pending[s], j \in DOMAIN pending[t] :
                Atomic!Overlap(Seen(pending[s][i]), Seen(pending[t][j]))
    BY <1>1
  <2>3. \A t \in Sessions :
          (\E p \in patchesBar[s], q \in patchesBar[t] : Atomic!Overlap(p, q))
          <=> \E i \in DOMAIN pending[s], j \in DOMAIN pending[t] :
                RangesOverlap(pending[s][i].address, Size(pending[s][i]),
                              pending[t][j].address, Size(pending[t][j]))
    BY <1>2, <2>2
  <2>. QED  BY <2>1, <2>3 DEF Atomic!Collides
<1>4. OverlapsInstalled(s) <=>
        \E i \in DOMAIN pending[s], t \in Atomic!Permanent :
          \E ip \in PatchSet(t) :
            RangesOverlap(pending[s][i].address, Size(pending[s][i]),
                          ip.address, ip.size)
  BY PermanentCommitted DEF OverlapsInstalled
<1>5. \A i \in DOMAIN pending[s], t \in Sessions :
        (\E ip \in PatchSet(t) :
            RangesOverlap(pending[s][i].address, Size(pending[s][i]),
                          ip.address, ip.size)) <=>
        \E j \in DOMAIN pending[t] :
            RangesOverlap(pending[s][i].address, Size(pending[s][i]),
                          pending[t][j].address, Size(pending[t][j]))
  <2>. DEFINE Installed(t, j) == [address |-> pending[t][j].address,
                                  size |-> Size(pending[t][j])]
  <2>1. \A t \in Sessions : PatchSet(t) = {Installed(t, j) : j \in DOMAIN pending[t]}
    BY DEF PatchSet
  <2>2. \A t \in Sessions : \A j \in DOMAIN pending[t] :
          /\ Installed(t, j).address = pending[t][j].address
          /\ Installed(t, j).size = Size(pending[t][j])
    OBVIOUS
  <2>. HIDE DEF Installed
  <2>. QED  BY <2>1, <2>2
<1>. QED  BY <1>3, <1>4, <1>5 DEF Atomic!Permanent
-----------------------------------------------------------------------------
(* Preparation: the patch pushed is the abstract one. *)
LEMMA PushPrepares ==
    ASSUME IInv, NEW s \in Sessions, NEW address \in Address,
           NEW replacement \in Replacements, NEW p, pc[s] = "open",
           Len(replacement) \in Nat, DOMAIN replacement = 1 .. Len(replacement),
           ensure_patch_does_not_overlap(s, address, Len(replacement)),
           PushPending(s, address, replacement, p),
           UNCHANGED <<pc, registry, mem, result>>
    PROVE  Atomic!Prepare(s)
<1>. DEFINE expected == [k \in DOMAIN replacement |-> mem[address + k - 1]]
            seen == [address |-> address, replacement |-> replacement,
                     expected |-> expected]
            patch == [address |-> address,
                      expected |-> ReadCode(address, Len(replacement)),
                      replacement |-> replacement, page |-> p]
<1>1. Seen(patch) = seen
  BY DEF Seen, ReadCode
<1>2. pending[s] \in Seq(Patch) /\ pending'[s] = Append(pending[s], patch)
      /\ \A t \in Sessions : t # s => pending'[t] = pending[t]
  BY DEF IInv, TypeOK, PushPending
<1>3. patchesBar' = [patchesBar EXCEPT ![s] = @ \cup {seen}]
  <2>. DEFINE n == Len(pending[s])
  <2>1. /\ DOMAIN pending'[s] = (DOMAIN pending[s]) \cup {n + 1}
        /\ \A i \in DOMAIN pending[s] : pending'[s][i] = pending[s][i]
        /\ pending'[s][n + 1] = patch
    BY <1>2
  <2>2. {Seen(pending'[s][i]) : i \in DOMAIN pending'[s]}
          = {Seen(pending[s][i]) : i \in DOMAIN pending[s]} \cup {seen}
    BY <1>1, <2>1, SMTT(30)
  <2>. QED  BY <1>2, <2>2, ZenonT(60) DEF patchesBar, Seen
<1>4. \A q \in patchesBar[s] : ~Atomic!Overlap(seen, q)
  BY DEF ensure_patch_does_not_overlap, patchesBar, Seen, Size,
         Atomic!Overlap, Atomic!RangesOverlap, RangesOverlap
<1>5. Atomic!checked_add(address, Len(replacement)) # Atomic!None
  BY DEF ensure_patch_does_not_overlap, checked_add, None,
         Atomic!checked_add, Atomic!None
<1>6. phaseBar' = phaseBar /\ phaseBar[s] = "open"
  BY PhaseValue DEF phaseBar, PhaseOf, Committed
<1>7. address \in Atomic!Address
  BY DEF Address, Atomic!Address
<1>. QED  BY <1>3, <1>4, <1>5, <1>6, <1>7 DEF Atomic!Prepare

LEMMA PrepareAbstract ==
    ASSUME IInv, NEW s \in Sessions, Prepare(s)
    PROVE  Atomic!Prepare(s)
<1>1. ASSUME NEW address \in Sites, NEW data \in Payloads,
             Overwrite(s, address, data)
      PROVE  Atomic!Prepare(s)
  <2>1. address \in Address /\ data \in Seq(Data) /\ data \in Replacements
    BY CodeAssumption DEF Replacements
  <2>2. Len(data) \in Nat /\ DOMAIN data = 1 .. Len(data)
    BY <2>1
  <2>. QED  BY <1>1, <2>1, <2>2, PushPrepares DEF Overwrite, callVars, processVars
<1>2. ASSUME NEW address \in Sites, NEW size \in DetourSizes,
             NEW p \in CodePages, PrepareDetour(s, address, size, p)
      PROVE  Atomic!Prepare(s)
  <2>. DEFINE jump == build_near_jump(p, size)
  <2>1. address \in Address /\ size \in Nat /\ jump \in Replacements
    BY CodeAssumption DEF Replacements
  <2>2. Len(jump) = size /\ DOMAIN jump = 1 .. Len(jump)
    BY <2>1, NearJumpType DEF build_near_jump
  <2>. HIDE DEF jump
  <2>3. /\ pc[s] = "open" /\ ensure_patch_does_not_overlap(s, address, size)
        /\ PushPending(s, address, jump, p)
        /\ UNCHANGED <<pc, registry, mem, result>>
    BY <1>2 DEF PrepareDetour, callVars, jump
  <2>. QED  BY <2>1, <2>2, <2>3, PushPrepares
<1>. QED  BY <1>1, <1>2 DEF Prepare
-----------------------------------------------------------------------------
(* Before the commit point. *)

(* Returning an error before the commit point is a refusal. *)
LEMMA ReturnRefuses ==
    ASSUME IInv, NEW s \in Sessions, NEW outcome \in Atomic!Refusals,
           pc[s] \in {"seal", "flush_pages", "overlap", "validate", "rollback"},
           outcome = "OverlappingPatch" => OverlapsInstalled(s),
           UNCHANGED <<pending, registry, mem>>, Return(s, outcome)
    PROVE  Atomic!Refuse(s)
<1>1. phaseBar[s] = "called" /\ ~Committed(s)
  BY PhaseValue
<1>2. Atomic!End(s, "refused", outcome)
  BY <1>1, ReturnEnds DEF IInv
<1>. QED  BY <1>1, <1>2, CollidesOverlaps DEF Atomic!Refuse

LEMMA BeginAbstract ==
    ASSUME IInv, NEW s \in Sessions
    PROVE  /\ DropSession(s) => Atomic!Drop(s)
           /\ InstallPermanently(s) => Atomic!Call(s)
<1>1. ASSUME DropSession(s)
      PROVE  Atomic!Drop(s)
  <2>1. phaseBar[s] = "open" /\ ~Committed(s)
    BY <1>1, PhaseValue DEF DropSession
  <2>2. Atomic!End(s, "refused", "Dropped")
    BY <1>1, <2>1, ReturnEnds DEF IInv, DropSession, sessionVars, processVars
  <2>. QED  BY <2>1, <2>2 DEF Atomic!Drop
<1>2. ASSUME InstallPermanently(s)
      PROVE  Atomic!Call(s)
  <2>1. /\ pc[s] = "open" /\ pc' = [pc EXCEPT ![s] = "seal"]
        /\ UNCHANGED <<pending, registry, mem, result>>
    BY <1>2 DEF InstallPermanently, Goto, sessionVars, processVars
  <2>2. \A t \in Sessions : Committed(t)' = Committed(t)
    BY <2>1 DEF Committed
  <2>3. \A t \in Sessions : PhaseOf(t)' = IF t = s THEN "called" ELSE PhaseOf(t)
    BY <2>1, <2>2, PhaseValue DEF PhaseOf, IInv, TypeOK
  <2>4. phaseBar' = [phaseBar EXCEPT ![s] = "called"] /\ phaseBar[s] = "open"
    BY <2>1, <2>3, PhaseValue DEF phaseBar
  <2>5. patchesBar' = patchesBar
    BY <2>1 DEF patchesBar, Seen
  <2>. QED  BY <2>1, <2>4, <2>5 DEF Atomic!Call
<1>. QED  BY <1>1, <1>2

LEMMA PagesAbstract ==
    ASSUME IInv, NEW s \in Sessions, SealPage(s) \/ FlushPage(s) \/ PagesDone(s)
    PROVE  Atomic!Refuse(s) \/ UNCHANGED Atomic!vars
<1>1. CASE PagesDone(s)
  <2>1. CASE pc[s] = "seal" /\ Goto(s, "flush_pages")
    BY <1>1, <2>1, Silent DEF PagesDone, Goto, IInv, sessionVars, processVars
  <2>2. CASE pc[s] = "flush_pages" /\ Goto(s, "lock")
    BY <1>1, <2>2, Silent DEF PagesDone, Goto, IInv, sessionVars, processVars
  <2>. QED  BY <1>1, <2>1, <2>2 DEF PagesDone
<1>2. CASE SealPage(s) /\ Return(s, "Mapping")
  BY <1>2, ReturnRefuses DEF SealPage, sessionVars, Atomic!Refusals
<1>3. CASE FlushPage(s) /\ Return(s, "InstructionCache")
  BY <1>3, ReturnRefuses DEF FlushPage, sessionVars, Atomic!Refusals
<1>4. CASE SealPage(s) /\ Advance(s) /\ UNCHANGED result
  BY <1>4, Stays DEF SealPage, Advance, sessionVars
<1>5. CASE FlushPage(s) /\ Advance(s) /\ UNCHANGED result
  BY <1>5, Stays DEF FlushPage, Advance, sessionVars
<1>. QED  BY <1>1, <1>2, <1>3, <1>4, <1>5 DEF SealPage, FlushPage

LEMMA CheckAbstract ==
    ASSUME IInv, NEW s \in Sessions,
           LockRegistry(s) \/ CheckOverlap(s) \/ ValidatePatch(s)
             \/ ValidateDone(s)
    PROVE  Atomic!Refuse(s) \/ UNCHANGED Atomic!vars
<1>1. CASE LockRegistry(s)
  BY <1>1, Silent DEF LockRegistry, Goto, IInv, sessionVars
<1>2. CASE CheckOverlap(s) /\ OverlapsInstalled(s)
                           /\ ReturnUnlocking(s, "OverlappingPatch")
  BY <1>2, ReturnRefuses
     DEF CheckOverlap, ReturnUnlocking, sessionVars, Atomic!Refusals
<1>3. CASE CheckOverlap(s) /\ Goto(s, "validate") /\ UNCHANGED <<result, lock>>
  BY <1>3, Silent DEF CheckOverlap, Goto, IInv, sessionVars
<1>4. CASE ValidatePatch(s) /\ Advance(s) /\ UNCHANGED <<result, lock>>
  BY <1>4, Stays DEF ValidatePatch, Advance, sessionVars
<1>5. CASE ValidatePatch(s) /\ ReturnUnlocking(s, "SourceChanged")
  BY <1>5, ReturnRefuses
     DEF ValidatePatch, ReturnUnlocking, sessionVars, Atomic!Refusals
<1>6. CASE ValidateDone(s)
  BY <1>6, Silent DEF ValidateDone, Goto, IInv, sessionVars, processVars
<1>. QED  BY <1>1, <1>2, <1>3, <1>4, <1>5, <1>6
          DEF CheckOverlap, ValidatePatch

LEMMA ProtectAbstract ==
    ASSUME IInv, NEW s \in Sessions,
           ProtectPage(s) \/ ProtectDone(s) \/ RevalidatePatch(s)
    PROVE  UNCHANGED Atomic!vars
<1>1. CASE ProtectPage(s) /\ UNCHANGED pc
  BY <1>1, Stays DEF ProtectPage, sessionVars
<1>2. CASE ProtectPage(s) /\ Goto(s, "rollback")
  BY <1>2, Silent DEF ProtectPage, Goto, IInv, sessionVars
<1>3. CASE ProtectDone(s)
  BY <1>3, Silent DEF ProtectDone, Goto, IInv, sessionVars, processVars
<1>4. CASE RevalidatePatch(s) /\ Advance(s)
  BY <1>4, Stays DEF RevalidatePatch, Advance, sessionVars, processVars
<1>5. CASE RevalidatePatch(s) /\ Goto(s, "rollback")
  BY <1>5, Silent DEF RevalidatePatch, Goto, IInv, sessionVars, processVars
<1>. QED  BY <1>1, <1>2, <1>3, <1>4, <1>5 DEF ProtectPage, RevalidatePatch
-----------------------------------------------------------------------------
(* The commit point and after. *)

LEMMA CommitAbstract ==
    ASSUME IInv, NEW s \in Sessions, Commit(s)
    PROVE  Atomic!Commit(s)
<1>1. /\ pc[s] = "revalidate" /\ pc' = [pc EXCEPT ![s] = "copy"]
      /\ UNCHANGED <<pending, mem, result>>
  BY DEF Commit, Goto
<1>2. \A t \in Sessions : Committed(t)' <=> Committed(t) \/ t = s
  BY CommittedStep DEF SessionStep, Install
<1>3. \A t \in Sessions : PhaseOf(t)' =
        IF t = s THEN "committed" ELSE PhaseOf(t)
  BY <1>1, <1>2 DEF PhaseOf, IInv, TypeOK
<1>4. phaseBar' = [phaseBar EXCEPT ![s] = "committed"] /\ phaseBar[s] = "called"
  BY <1>1, <1>3, PhaseValue DEF phaseBar
<1>5. patchesBar' = patchesBar
  BY <1>1 DEF patchesBar, Seen
<1>6. \A t \in Sessions : phaseBar[t] # "committed"
  BY <1>1, PhaseValue DEF IInv, LockInv, LockedPhases
<1>7. ~Atomic!Collides(s)
  BY <1>1, CollidesOverlaps DEF IInv, OverlapInv
<1>8. ASSUME ~HostRaces, NEW patch \in patchesBar[s]
      PROVE  Atomic!Holds(patch, patch.expected)
  <2>1. PICK i \in DOMAIN pending[s] : patch = Seen(pending[s][i])
    BY <1>8 DEF patchesBar
  <2>2. SourceUnchanged(pending[s][i])
    <3>1. i < cursor[s]
      BY PatchFacts DEF Commit, IInv, TypeOK
    <3>. QED  BY <1>1, <1>8, <3>1 DEF IInv, ExpectedInv
  <2>3. \A k \in DOMAIN patch.expected :
          mem[patch.address + k - 1] = patch.expected[k]
    <3>1. Len(pending[s][i].expected) \in Nat
          /\ pending[s][i].expected \in Seq(Byte)
      BY PatchFacts DEF IInv
    <3>. QED  BY <2>1, <2>2, <3>1 DEF Seen, SourceUnchanged, ReadCode
  <2>. QED  BY <2>3 DEF Atomic!Holds
<1>. QED  BY <1>1, <1>4, <1>5, <1>6, <1>7, <1>8 DEF Atomic!Commit

LEMMA CopyAbstract ==
    ASSUME IInv, NEW s \in Sessions, CopyPatch(s)
    PROVE  Atomic!Write(s)
<1>. DEFINE patch == pending[s][cursor[s]]
<1>1. /\ pc[s] = "copy" /\ cursor[s] \in DOMAIN pending[s]
      /\ UNCHANGED <<pending, pc, registry, result>>
  BY DEF CopyPatch, Advance, sessionVars
<1>2. phaseBar' = phaseBar /\ phaseBar[s] = "committed"
  BY <1>1, PhaseValue DEF phaseBar, PhaseOf, Committed
<1>3. patchesBar' = patchesBar /\ Seen(patch) \in patchesBar[s]
  BY <1>1 DEF patchesBar, Seen
<1>4. Atomic!Source(Seen(patch)) = PatchCells(patch)
  BY DEF Atomic!Source, Atomic!Cells, PatchCells, Cells, Size, Seen
<1>5. mem' = [a \in Atomic!Address |->
                IF a \in Atomic!Source(Seen(patch))
                THEN Seen(patch).replacement[a - Seen(patch).address + 1]
                ELSE mem[a]]
  BY <1>4 DEF CopyPatch, Seen, Address, Atomic!Address
<1>. QED  BY <1>1, <1>2, <1>3, <1>5 DEF Atomic!Write

(* Past the copies every patch is in place. *)
LEMMA InPlace ==
    ASSUME IInv, NEW s \in Sessions, pc[s] \in {"flush", "restore", "log"},
           NEW patch \in patchesBar[s]
    PROVE  Atomic!Holds(patch, patch.replacement)
<1>1. PICK i \in DOMAIN pending[s] : patch = Seen(pending[s][i])
  BY DEF patchesBar
<1>2. Written(s, i)
  BY PhaseValue DEF Written
<1>3. /\ pending[s][i].replacement \in Seq(Byte)
      /\ pending[s][i].address \in Nat
  BY PatchFacts DEF IInv
<1>4. \A k \in DOMAIN pending[s][i].replacement :
        /\ pending[s][i].address + k - 1 \in PatchCells(pending[s][i])
        /\ pending[s][i].address + k - 1 \in Address
        /\ (pending[s][i].address + k - 1) - pending[s][i].address + 1 = k
  <2>1. \A k \in DOMAIN pending[s][i].replacement :
          /\ pending[s][i].address + k - 1 \in PatchCells(pending[s][i])
          /\ (pending[s][i].address + k - 1) - pending[s][i].address + 1 = k
    BY <1>3, SMTT(30) DEF PatchCells, Cells, Size
  <2>2. PatchCells(pending[s][i]) \subseteq Address
    BY PatchFacts DEF IInv
  <2>. QED  BY <2>1, <2>2
<1>5. \A k \in DOMAIN pending[s][i].replacement :
        mem[pending[s][i].address + k - 1] = pending[s][i].replacement[k]
  BY <1>2, <1>4 DEF IInv, InstalledIntact, IntactAt
<1>. QED  BY <1>1, <1>5 DEF Atomic!Holds, Seen

(* Returning after the copies completes the abstract call. *)
LEMMA ReturnCompletes ==
    ASSUME IInv, NEW s \in Sessions, NEW outcome \in Atomic!Completions,
           pc[s] \in {"restore", "log"}, UNCHANGED <<pending, registry, mem>>,
           Return(s, outcome)
    PROVE  Atomic!Complete(s)
<1>1. phaseBar[s] = "committed" /\ Committed(s)
  BY PhaseValue
<1>2. Atomic!End(s, "installed", outcome)
  BY <1>1, ReturnEnds DEF IInv
<1>. QED  BY <1>1, <1>2, InPlace DEF Atomic!Complete

LEMMA FinishAbstract ==
    ASSUME IInv, NEW s \in Sessions,
           CopyDone(s) \/ FlushPatch(s) \/ FlushDone(s) \/ RestorePage(s)
             \/ RestoreDone(s) \/ Log(s) \/ ReleasePages(s)
    PROVE  \/ Atomic!Refuse(s) \/ Atomic!Complete(s)
           \/ UNCHANGED Atomic!vars
<1>1. CASE CopyDone(s)
  BY <1>1, Silent DEF CopyDone, Goto, IInv, sessionVars, processVars
<1>2. CASE FlushDone(s)
  BY <1>2, Silent DEF FlushDone, Goto, IInv, sessionVars, processVars
<1>3. CASE RestorePage(s)
  BY <1>3, Stays DEF RestorePage, sessionVars
<1>4. CASE RestoreDone(s)
  <2>1. CASE Return(s, Outcome(s)) /\ pc[s] = "rollback"
    <3>1. Outcome(s) \in Atomic!Refusals /\ Outcome(s) # "OverlappingPatch"
      BY <2>1 DEF IInv, ResultInv, Outcome, Atomic!Refusals
    <3>. QED  BY <1>4, <2>1, <3>1, ReturnRefuses DEF RestoreDone, sessionVars
  <2>2. CASE Return(s, Outcome(s)) /\ pc[s] = "restore" /\ Outcome(s) # "Ok"
    <3>1. Outcome(s) \in Atomic!Completions
      BY <2>2 DEF IInv, ResultInv, Outcome, Atomic!Completions
    <3>. QED  BY <1>4, <2>2, <3>1, ReturnCompletes DEF RestoreDone, sessionVars
  <2>3. CASE Goto(s, "log") /\ pc[s] = "restore" /\ UNCHANGED <<result, lock>>
    BY <1>4, <2>3, Silent DEF RestoreDone, Goto, IInv, sessionVars
  <2>. QED  BY <1>4, <2>1, <2>2, <2>3 DEF RestoreDone, ReturnUnlocking
<1>5. CASE Log(s)
  BY <1>5, ReturnCompletes
     DEF Log, ReturnUnlocking, sessionVars, Atomic!Completions
<1>6. CASE ReleasePages(s)
  BY <1>6, Silent DEF ReleasePages, Goto, IInv
<1>7. CASE FlushPatch(s) /\ Advance(s)
  BY <1>7, Stays DEF FlushPatch, Advance, sessionVars
<1>8. CASE FlushPatch(s) /\ Goto(s, "restore")
  BY <1>8, Silent DEF FlushPatch, Goto, IInv, sessionVars
<1>. QED  BY <1>1, <1>2, <1>3, <1>4, <1>5, <1>6, <1>7, <1>8 DEF FlushPatch
-----------------------------------------------------------------------------
LEMMA HostAbstract ==
    ASSUME IInv, NEW a \in HostCells, NEW b \in Data, HostWrite(a, b)
    PROVE  Atomic!HostWrite(a, b)
<1>1. UNCHANGED <<pc, pending, registry, result>> /\ a \notin InstalledCells
  BY DEF HostWrite, sessionVars, callVars
<1>2. phaseBar' = phaseBar /\ patchesBar' = patchesBar
  BY <1>1 DEF phaseBar, PhaseOf, Committed, patchesBar, Seen
<1>3. ASSUME NEW s \in Atomic!Permanent, NEW patch \in patchesBar[s]
      PROVE  a \notin Atomic!Source(patch)
  <2>1. s \in Sessions /\ Committed(s)
    BY PermanentCommitted
  <2>2. PICK i \in DOMAIN pending[s] : patch = Seen(pending[s][i])
    BY <2>1 DEF patchesBar
  <2>3. Atomic!Source(patch) = PatchCells(pending[s][i])
    BY <2>2 DEF Atomic!Source, Atomic!Cells, PatchCells, Cells, Size, Seen
  <2>. QED  BY <1>1, <2>1, <2>3, CommittedInstalled DEF IInv
<1>. QED  BY <1>1, <1>2, <1>3 DEF HostWrite, Atomic!HostWrite

LEMMA InitAbstract == Init => Atomic!Init
<1>. SUFFICES ASSUME Init
              PROVE  Atomic!Init
  OBVIOUS
<1>1. phaseBar = [s \in Sessions |-> "open"]
  BY DEF Init, phaseBar, PhaseOf
<1>2. patchesBar = [s \in Sessions |-> {}]
  BY DEF Init, patchesBar
<1>. QED  BY <1>1, <1>2 DEF Init, Atomic!Init

(***************************************************************************)
(* install_permanently, with its mutex, its registry and its system calls  *)
(* (session.rs 387-474), implements the all-or-nothing specification.      *)
(***************************************************************************)
THEOREM InstallIsAtomic == Spec => InstallsAtomically
<1>1. IInv /\ [Next]_vars => [Atomic!Next]_(Atomic!vars)
  <2>. SUFFICES ASSUME IInv, [Next]_vars
                PROVE  Atomic!Next \/ UNCHANGED Atomic!vars
    OBVIOUS
  <2>1. ASSUME NEW s \in Sessions, SessionStep(s)
        PROVE  Atomic!Next \/ UNCHANGED Atomic!vars
    BY <2>1, PrepareAbstract, BeginAbstract, PagesAbstract, CheckAbstract,
       ProtectAbstract, CommitAbstract, CopyAbstract, FinishAbstract
       DEF SessionStep, Install, Atomic!Next
  <2>2. ASSUME NEW a \in HostCells, NEW b \in Data, HostWrite(a, b)
        PROVE  Atomic!Next
    BY <2>2, HostAbstract DEF Atomic!Next
  <2>3. CASE UNCHANGED vars
    BY <2>3 DEF vars, Atomic!vars, phaseBar, PhaseOf, Committed, patchesBar, Seen
  <2>. QED  BY <2>1, <2>2, <2>3 DEF Next, SessionStep, Finished
<1>. QED  BY <1>1, InitAbstract, Invariance, PTL
          DEF Spec, InstallsAtomically, Atomic!Spec
=============================================================================
