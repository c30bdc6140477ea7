---------------------------- MODULE PatchInstall ----------------------------
(***************************************************************************)
(* PatchSession::install_permanently (src/src/session.rs) run by several   *)
(* sessions of one process at once, each owned by a thread of its own.     *)
(*                                                                         *)
(* A session is prepared (overwrites and detours are added to pending,     *)
(* trampoline pages are allocated), and is then dropped or installed.      *)
(* Installing is a sequence of system calls, any of which may fail, and of *)
(* memory accesses; from taking the registry's mutex to returning, the     *)
(* mutex is held.  Every system call and every access to a patch's bytes   *)
(* is a step, so the steps of other threads fall between them: other       *)
(* sessions, and the host program rewriting its own code.                  *)
(*                                                                         *)
(* Preparation is modelled here by its effect on the state that            *)
(* installation reads (the PatchSession module models it in full): early   *)
(* returns change nothing and are stuttering steps.                        *)
(***************************************************************************)
EXTENDS AddressSpace, Sequences, FiniteSets

CONSTANTS
    Sessions,           \* the PatchSession values of the process
    NoSession,          \* the registry's mutex is free
    CodePages,          \* places where mmap can put a trampoline page
    NoPage,             \* the page of a patch without a trampoline
    Data,               \* byte values of the host's code and of payloads
    Nop,                \* 0x90, the padding of a near jump
    PageSize,           \* MmapOptions::page_size()
    NEAR_JUMP_SIZE,     \* 5 in the source
    InitialCode,        \* the host's code before any patch
    InitialProtection,  \* the protection of each source page
    Payloads,           \* byte strings an overwrite may install
    Sites,              \* addresses callers patch
    DetourSizes,        \* sizes callers pass to detours
    HostCells,          \* addresses the host may rewrite on its own
    HostRaces,          \* may the host write between revalidation and copy?
    MaxPatches          \* bound on the patches of one session

RWX == "PAGE_EXECUTE_READWRITE"
Untouched == "untouched"    \* no SourceProtection entry for the page

(* The bytes of a near jump into trampoline page p. *)
Jump(p) == <<"jump", p>>

Byte == Data \cup {Jump(p) : p \in CodePages}
Protection == {RWX, "PAGE_EXECUTE_READ", "PAGE_READONLY"}
PageBases == {a \in Address : a % PageSize = 0}

ASSUME ConstantsAssumption ==
    /\ NoSession \notin Sessions
    /\ NoPage \notin CodePages
    /\ Nop \in Data
    /\ PageSize \in Nat \ {0}
    /\ NEAR_JUMP_SIZE \in Nat \ {0}
    /\ MaxPatches \in Nat
    /\ HostRaces \in BOOLEAN

ASSUME CodeAssumption ==
    /\ \A p \in CodePages : Jump(p) \notin Data
    /\ InitialCode \in [Address -> Data]
    /\ InitialProtection \in [PageBases -> Protection]
    /\ Payloads \subseteq Seq(Data)
    /\ Sites \subseteq Address
    /\ DetourSizes \subseteq Nat
    /\ HostCells \subseteq Address

VARIABLES
    \* the fields of each PatchSession
    pages,          \* its trampoline pages, in allocation order
    pending,        \* its prepared patches, in preparation order
    \* the locals of each call of install_permanently
    pc,             \* what the thread does next
    cursor,         \* position in the Vec being iterated
    protections,    \* old protection of each source page it made writable
    failure,        \* the error that ended a loop early, "Ok" if none
    restoreFailed,  \* restore_patch_sources: first_error.is_some()
    result,         \* what the call returned
    \* the process
    lock,           \* holder of the mutex of PERMANENT_PATCH_SETS
    registry,       \* PERMANENT_PATCH_SETS; the Vec's order is never used
    codePage,       \* state of each place for a trampoline page
    mem,            \* the bytes of the host's code
    protection,     \* page protection of the host's code
    stale           \* addresses written and not flushed from the I-cache

sessionVars == <<pages, pending>>
callVars == <<pc, cursor, protections, failure, restoreFailed, result>>
processVars == <<lock, registry, codePage, mem, protection, stale>>
vars == <<pages, pending, pc, cursor, protections, failure, restoreFailed,
          result, lock, registry, codePage, mem, protection, stale>>

(* PendingPatch; ensure_patch_does_not_overlap rejects what would not fit. *)
Patch ==
    {patch \in [address : Address, expected : Seq(Byte),
                replacement : Seq(Byte), page : CodePages \cup {NoPage}] :
        /\ Len(patch.replacement) > 0
        /\ Len(patch.expected) = Len(patch.replacement)
        /\ patch.address + Len(patch.replacement) <= UsizeMax}
InstalledPatch == [address : Address, size : Nat]
PermanentPatchSet == [session : Sessions, pages : SUBSET CodePages,
                      patches : SUBSET InstalledPatch]

Phases == {"open", "seal", "flush_pages", "lock", "overlap", "validate",
           "protect", "revalidate", "copy", "flush", "rollback", "restore",
           "log", "release", "done"}
(* The phases between permanent_patch_sets() and the return. *)
LockedPhases == {"overlap", "validate", "protect", "revalidate", "copy",
                 "flush", "rollback", "restore", "log"}
Results == {"none", "Ok", "Dropped", "Mapping", "InstructionCache",
            "OverlappingPatch", "SourceChanged", "Protection", "Panic"}

SeqElements(seq) == {seq[i] : i \in DOMAIN seq}
Size(patch) == Len(patch.replacement)
PatchCells(patch) == Cells(patch.address, Size(patch))
SourceCells(s) == UNION {PatchCells(pending[s][i]) : i \in DOMAIN pending[s]}
AllInstalled == UNION {e.patches : e \in registry}
InstalledCells == UNION {Cells(ip.address, ip.size) : ip \in AllInstalled}
PermanentPages == UNION {e.pages : e \in registry}
Committed(s) == \E e \in registry : e.session = s

(* slice::from_raw_parts(address, size).to_vec() *)
ReadCode(address, size) == [i \in 1 .. size |-> mem[address + i - 1]]

TypeOK ==
    /\ pages \in [Sessions -> Seq(CodePages)]
    /\ pending \in [Sessions -> Seq(Patch)]
    /\ pc \in [Sessions -> Phases]
    /\ cursor \in [Sessions -> Nat \ {0}]
    /\ protections \in
         [Sessions -> [PageBases -> Protection \cup {Untouched}]]
    /\ failure \in [Sessions -> Results]
    /\ restoreFailed \in [Sessions -> BOOLEAN]
    /\ result \in [Sessions -> Results]
    /\ lock \in Sessions \cup {NoSession}
    /\ registry \subseteq PermanentPatchSet
    /\ codePage \in [CodePages -> {"free", "writable", "sealed", "flushed"}]
    /\ mem \in [Address -> Byte]
    /\ protection \in [PageBases -> Protection]
    /\ stale \subseteq Address

Init ==
    /\ pages = [s \in Sessions |-> <<>>]
    /\ pending = [s \in Sessions |-> <<>>]
    /\ pc = [s \in Sessions |-> "open"]
    /\ cursor = [s \in Sessions |-> 1]
    /\ protections = [s \in Sessions |-> [g \in PageBases |-> Untouched]]
    /\ failure = [s \in Sessions |-> "Ok"]
    /\ restoreFailed = [s \in Sessions |-> FALSE]
    /\ result = [s \in Sessions |-> "none"]
    /\ lock = NoSession
    /\ registry = {}
    /\ codePage = [p \in CodePages |-> "free"]
    /\ mem = InitialCode
    /\ protection = InitialProtection
    /\ stale = {}
-----------------------------------------------------------------------------
(* Preparation: PatchSession::overwrite and the detour family (patch.rs).  *)

(* ensure_patch_does_not_overlap *)
ensure_patch_does_not_overlap(s, address, size) ==
    /\ size > 0
    /\ checked_add(address, size) # None
    /\ \A i \in DOMAIN pending[s] :
         ~RangesOverlap(address, size,
                        pending[s][i].address, Size(pending[s][i]))

PushPending(s, address, replacement, p) ==
    pending' = [pending EXCEPT ![s] = Append(@,
        [address |-> address,
         expected |-> ReadCode(address, Len(replacement)),
         replacement |-> replacement,
         page |-> p])]

Overwrite(s, address, data) ==
    /\ pc[s] = "open"
    /\ Len(pending[s]) < MaxPatches
    /\ ensure_patch_does_not_overlap(s, address, Len(data))
    /\ PushPending(s, address, data, NoPage)
    /\ UNCHANGED <<pages, callVars, processVars>>

build_near_jump(p, size) ==
    [i \in 1 .. size |-> IF i <= NEAR_JUMP_SIZE THEN Jump(p) ELSE Nop]

(***************************************************************************)
(* patch_call, detour, detour_trampoline and detour_with all end in        *)
(* prepare_detour: the trampoline goes into a slot of a page the session   *)
(* already has, or into a new page placed wherever mmap allows.            *)
(***************************************************************************)
PrepareDetour(s, address, size, p) ==
    /\ pc[s] = "open"
    /\ Len(pending[s]) < MaxPatches
    /\ size >= NEAR_JUMP_SIZE
    /\ ensure_patch_does_not_overlap(s, address, size)
    /\ \/ /\ p \in SeqElements(pages[s])
          /\ UNCHANGED <<pages, codePage>>
       \/ /\ codePage[p] = "free"
          /\ pages' = [pages EXCEPT ![s] = Append(@, p)]
          /\ codePage' = [codePage EXCEPT ![p] = "writable"]
    /\ PushPending(s, address, build_near_jump(p, size), p)
    /\ UNCHANGED <<callVars, lock, registry, mem, protection, stale>>
-----------------------------------------------------------------------------
(* Control of a call: the next loop, an early return, the final return.    *)

Goto(s, phase) ==
    /\ pc' = [pc EXCEPT ![s] = phase]
    /\ cursor' = [cursor EXCEPT ![s] = 1]

Advance(s) ==
    /\ cursor' = [cursor EXCEPT ![s] = @ + 1]
    /\ UNCHANGED pc

(* Return outcome; the locals that own pages are dropped in "release". *)
Return(s, outcome) ==
    /\ result' = [result EXCEPT ![s] = outcome]
    /\ Goto(s, "release")

(* Mutant: an early return that keeps the mutex. *)
ReturnKeepingLock(s, outcome) ==
    /\ Return(s, outcome)
    /\ UNCHANGED lock

(* Return while holding the mutex: the guard is dropped first. *)
ReturnUnlocking(s, outcome) ==
    /\ Return(s, outcome)
    /\ lock' = NoSession

DropSession(s) ==
    /\ pc[s] = "open"
    /\ Return(s, "Dropped")
    /\ UNCHANGED <<sessionVars, protections, failure, restoreFailed,
                   processVars>>

InstallPermanently(s) ==
    /\ pc[s] = "open"
    /\ Goto(s, "seal")
    /\ UNCHANGED <<sessionVars, protections, failure, restoreFailed, result,
                   processVars>>
-----------------------------------------------------------------------------
(* Sealing and flushing the session's own trampoline pages, before the     *)
(* mutex is taken.                                                         *)

SealPage(s) ==
    /\ pc[s] = "seal"
    /\ cursor[s] \in DOMAIN pages[s]
    /\ \/ /\ codePage' = [codePage EXCEPT ![pages[s][cursor[s]]] = "sealed"]
          /\ Advance(s)
          /\ UNCHANGED result
       \/ /\ Return(s, "Mapping")
          /\ UNCHANGED codePage
    /\ UNCHANGED <<sessionVars, protections, failure, restoreFailed,
                   lock, registry, mem, protection, stale>>

FlushPage(s) ==
    /\ pc[s] = "flush_pages"
    /\ cursor[s] \in DOMAIN pages[s]
    /\ \/ /\ codePage' = [codePage EXCEPT ![pages[s][cursor[s]]] =
                           IF @ = "sealed" THEN "flushed" ELSE @]
          /\ Advance(s)
          /\ UNCHANGED result
       \/ /\ Return(s, "InstructionCache")
          /\ UNCHANGED codePage
    /\ UNCHANGED <<sessionVars, protections, failure, restoreFailed,
                   lock, registry, mem, protection, stale>>

(* The two loops over the pages run to their end. *)
PagesDone(s) ==
    /\ cursor[s] > Len(pages[s])
    /\ \/ pc[s] = "seal" /\ Goto(s, "flush_pages")
       \/ pc[s] = "flush_pages" /\ Goto(s, "lock")
    /\ UNCHANGED <<sessionVars, protections, failure, restoreFailed, result,
                   processVars>>
-----------------------------------------------------------------------------
(* Under the mutex, before the commit point.                               *)

(* Mutant: the mutex does not exclude. *)
LockWithoutWaiting(s) ==
    /\ pc[s] = "lock"
    /\ lock' = s
    /\ Goto(s, "overlap")
    /\ UNCHANGED <<sessionVars, protections, failure, restoreFailed, result,
                   registry, codePage, mem, protection, stale>>

(* permanent_patch_sets(): a poisoned mutex is entered like any other. *)
LockRegistry(s) ==
    /\ pc[s] = "lock"
    /\ lock = NoSession
    /\ lock' = s
    /\ Goto(s, "overlap")
    /\ UNCHANGED <<sessionVars, protections, failure, restoreFailed, result,
                   registry, codePage, mem, protection, stale>>

(* Mutant: only the first byte of a patch is looked up. *)
OverlapsStartInside(s) ==
    \E i \in DOMAIN pending[s], ip \in AllInstalled :
        /\ ip.address <= pending[s][i].address
        /\ pending[s][i].address < ip.address + ip.size

OverlapsInstalled(s) ==
    \E i \in DOMAIN pending[s], ip \in AllInstalled :
        RangesOverlap(pending[s][i].address, Size(pending[s][i]),
                      ip.address, ip.size)

(* ensure_patches_do_not_overlap_installed *)
CheckOverlap(s) ==
    /\ pc[s] = "overlap"
    /\ \/ /\ OverlapsInstalled(s)
          /\ ReturnUnlocking(s, "OverlappingPatch")
       \/ /\ ~OverlapsInstalled(s)
          /\ Goto(s, "validate")
          /\ UNCHANGED <<result, lock>>
    /\ UNCHANGED <<sessionVars, protections, failure, restoreFailed,
                   registry, codePage, mem, protection, stale>>

SourceUnchanged(patch) ==
    ReadCode(patch.address, Len(patch.expected)) = patch.expected

(* One iteration of validate_patch_sources, before protections change. *)
ValidatePatch(s) ==
    /\ pc[s] = "validate"
    /\ cursor[s] \in DOMAIN pending[s]
    /\ LET patch == pending[s][cursor[s]] IN
       \/ /\ SourceUnchanged(patch)
          /\ Advance(s)
          /\ UNCHANGED <<result, lock>>
       \/ /\ ~SourceUnchanged(patch)
          /\ ReturnUnlocking(s, "SourceChanged")
    /\ UNCHANGED <<sessionVars, protections, failure, restoreFailed,
                   registry, codePage, mem, protection, stale>>

ValidateDone(s) ==
    /\ pc[s] = "validate"
    /\ cursor[s] > Len(pending[s])
    /\ Goto(s, "protect")
    /\ UNCHANGED <<sessionVars, protections, failure, restoreFailed, result,
                   processVars>>

(* The pages from the first byte's to the last byte's, both included. *)
PatchPages(patch) ==
    {g \in PageBases :
        /\ align_down(patch.address, PageSize) <= g
        /\ g <= align_down(patch.address + Size(patch) - 1, PageSize)}

(* Mutant: no walk to the page of the last byte. *)
FirstPageOnly(s) ==
    {align_down(pending[s][i].address, PageSize) : i \in DOMAIN pending[s]}

(* The BTreeSet of protect_patch_sources. *)
SourcePages(s) ==
    UNION {PatchPages(pending[s][i]) : i \in DOMAIN pending[s]}

Held(s) == {g \in PageBases : protections[s][g] # Untouched}

(* Mutant: the old protection is kept before VirtualProtect fills it in. *)
ProtectPageKeepingZero(s) ==
    /\ pc[s] = "protect"
    /\ \E g \in SourcePages(s) \ Held(s) :
         /\ \A h \in SourcePages(s) \ Held(s) : g <= h
         /\ \/ /\ protections' = [protections EXCEPT ![s][g] = "0"]
               /\ protection' = [protection EXCEPT ![g] = RWX]
               /\ UNCHANGED <<pc, cursor, failure>>
            \/ /\ failure' = [failure EXCEPT ![s] = "Protection"]
               /\ Goto(s, "rollback")
               /\ UNCHANGED <<protections, protection>>
    /\ UNCHANGED <<sessionVars, restoreFailed, result,
                   lock, registry, codePage, mem, stale>>

(* VirtualProtect on the lowest page left, or its failure. *)
ProtectPage(s) ==
    /\ pc[s] = "protect"
    /\ \E g \in SourcePages(s) \ Held(s) :
         /\ \A h \in SourcePages(s) \ Held(s) : g <= h
         /\ \/ /\ protections' = [protections EXCEPT ![s][g] = protection[g]]
               /\ protection' = [protection EXCEPT ![g] = RWX]
               /\ UNCHANGED <<pc, cursor, failure>>
            \/ /\ failure' = [failure EXCEPT ![s] = "Protection"]
               /\ Goto(s, "rollback")
               /\ UNCHANGED <<protections, protection>>
    /\ UNCHANGED <<sessionVars, restoreFailed, result,
                   lock, registry, codePage, mem, stale>>

ProtectDone(s) ==
    /\ pc[s] = "protect"
    /\ SourcePages(s) \subseteq Held(s)
    /\ Goto(s, "revalidate")
    /\ UNCHANGED <<sessionVars, protections, failure, restoreFailed, result,
                   processVars>>

(* Mutant: the first check is trusted. *)
SkipRevalidation(s) ==
    /\ pc[s] = "revalidate"
    /\ cursor[s] \in DOMAIN pending[s]
    /\ Advance(s)
    /\ UNCHANGED <<sessionVars, protections, failure, restoreFailed, result,
                   processVars>>

(* validate_patch_sources again, with the source pages writable. *)
RevalidatePatch(s) ==
    /\ pc[s] = "revalidate"
    /\ cursor[s] \in DOMAIN pending[s]
    /\ LET patch == pending[s][cursor[s]] IN
       \/ /\ SourceUnchanged(patch)
          /\ Advance(s)
          /\ UNCHANGED failure
       \/ /\ ~SourceUnchanged(patch)
          /\ failure' = [failure EXCEPT ![s] = "SourceChanged"]
          /\ Goto(s, "rollback")
    /\ UNCHANGED <<sessionVars, protections, restoreFailed, result,
                   processVars>>
-----------------------------------------------------------------------------
(* The commit point and what follows it.                                   *)

(* Mutant: the registry records the index of the last byte as the size. *)
PatchSetOneShort(s) ==
    {[address |-> pending[s][i].address, size |-> Size(pending[s][i]) - 1] :
        i \in DOMAIN pending[s]}

PatchSet(s) ==
    {[address |-> pending[s][i].address, size |-> Size(pending[s][i])] :
        i \in DOMAIN pending[s]}

(* Mutant: the pages stay with the call and are dropped when it returns. *)
CommitKeepingPages(s) ==
    /\ pc[s] = "revalidate"
    /\ cursor[s] > Len(pending[s])
    /\ registry' = registry \cup
         {[session |-> s, pages |-> SeqElements(pages[s]),
           patches |-> PatchSet(s)]}
    /\ Goto(s, "copy")
    /\ UNCHANGED <<sessionVars, protections, failure, restoreFailed, result,
                   lock, codePage, mem, protection, stale>>

(* installed_sets.push: the pages move from the call into the registry. *)
Commit(s) ==
    /\ pc[s] = "revalidate"
    /\ cursor[s] > Len(pending[s])
    /\ registry' = registry \cup
         {[session |-> s, pages |-> SeqElements(pages[s]),
           patches |-> PatchSet(s)]}
    /\ pages' = [pages EXCEPT ![s] = <<>>]
    /\ Goto(s, "copy")
    /\ UNCHANGED <<pending, protections, failure, restoreFailed, result,
                   lock, codePage, mem, protection, stale>>

(* Mutant: the last byte of a patch is not copied. *)
CopyPatchOneShort(s) ==
    /\ pc[s] = "copy"
    /\ cursor[s] \in DOMAIN pending[s]
    /\ LET patch == pending[s][cursor[s]]
           last == patch.address + Size(patch) - 1
       IN /\ mem' = [a \in Address |->
                       IF a \in PatchCells(patch) \ {last}
                       THEN patch.replacement[a - patch.address + 1]
                       ELSE mem[a]]
          /\ stale' = stale \cup PatchCells(patch)
    /\ Advance(s)
    /\ UNCHANGED <<sessionVars, protections, failure, restoreFailed, result,
                   lock, registry, codePage, protection>>

(* copy_nonoverlapping over the source of patch after patch. *)
CopyPatch(s) ==
    /\ pc[s] = "copy"
    /\ cursor[s] \in DOMAIN pending[s]
    /\ LET patch == pending[s][cursor[s]] IN
       /\ mem' = [a \in Address |->
                    IF a \in PatchCells(patch)
                    THEN patch.replacement[a - patch.address + 1]
                    ELSE mem[a]]
       /\ stale' = stale \cup PatchCells(patch)
    /\ Advance(s)
    /\ UNCHANGED <<sessionVars, protections, failure, restoreFailed, result,
                   lock, registry, codePage, protection>>

CopyDone(s) ==
    /\ pc[s] = "copy"
    /\ cursor[s] > Len(pending[s])
    /\ Goto(s, "flush")
    /\ UNCHANGED <<sessionVars, protections, failure, restoreFailed, result,
                   processVars>>

(* Mutant: a failed flush is passed over. *)
FlushIgnoringErrors(s) ==
    /\ pc[s] = "flush"
    /\ cursor[s] \in DOMAIN pending[s]
    /\ \/ stale' = stale \ PatchCells(pending[s][cursor[s]])
       \/ UNCHANGED stale
    /\ Advance(s)
    /\ UNCHANGED <<sessionVars, protections, failure, restoreFailed, result,
                   lock, registry, codePage, mem, protection>>

(* try_for_each: the first failed flush ends the loop. *)
FlushPatch(s) ==
    /\ pc[s] = "flush"
    /\ cursor[s] \in DOMAIN pending[s]
    /\ \/ /\ stale' = stale \ PatchCells(pending[s][cursor[s]])
          /\ Advance(s)
          /\ UNCHANGED failure
       \/ /\ failure' = [failure EXCEPT ![s] = "InstructionCache"]
          /\ Goto(s, "restore")
          /\ UNCHANGED stale
    /\ UNCHANGED <<sessionVars, protections, restoreFailed, result,
                   lock, registry, codePage, mem, protection>>

FlushDone(s) ==
    /\ pc[s] = "flush"
    /\ cursor[s] > Len(pending[s])
    /\ Goto(s, "restore")
    /\ UNCHANGED <<sessionVars, protections, failure, restoreFailed, result,
                   processVars>>

(***************************************************************************)
(* restore_patch_sources, entered to undo a failed installation            *)
(* ("rollback") or at the end of a committed one ("restore"): the highest  *)
(* page first, and every page is tried even after a failure.               *)
(***************************************************************************)
RestorePage(s) ==
    /\ pc[s] \in {"rollback", "restore"}
    /\ \E g \in Held(s) :
         /\ \A h \in Held(s) : h <= g
         /\ protections' = [protections EXCEPT ![s][g] = Untouched]
         /\ \/ /\ protection' = [protection EXCEPT ![g] = protections[s][g]]
               /\ UNCHANGED restoreFailed
            \/ /\ restoreFailed' = [restoreFailed EXCEPT ![s] = TRUE]
               /\ UNCHANGED protection
    /\ UNCHANGED <<sessionVars, pc, cursor, failure, result,
                   lock, registry, codePage, mem, stale>>

(* Mutant: the error of restore_patch_sources is dropped. *)
OutcomeOfFailure(s) == failure[s]

(***************************************************************************)
(* The result once every page was tried.  A rollback returns the error of  *)
(* restore_patch_sources when there is one and the error that caused it    *)
(* otherwise; after a commit the flush error comes first.                  *)
(***************************************************************************)
Outcome(s) ==
    IF restoreFailed[s] /\ (pc[s] = "rollback" \/ failure[s] = "Ok")
    THEN "Protection"
    ELSE failure[s]

RestoreDone(s) ==
    /\ pc[s] \in {"rollback", "restore"}
    /\ Held(s) = {}
    /\ \/ /\ pc[s] = "restore" /\ Outcome(s) = "Ok"
          /\ Goto(s, "log")
          /\ UNCHANGED <<result, lock>>
       \/ /\ pc[s] = "rollback" \/ Outcome(s) # "Ok"
          /\ ReturnUnlocking(s, Outcome(s))
    /\ UNCHANGED <<sessionVars, protections, failure, restoreFailed,
                   registry, codePage, mem, protection, stale>>

(***************************************************************************)
(* log::info! runs the logger the host installed, with the mutex held.  It *)
(* returns, or it panics; the unwinding drops the guard too, and poisons   *)
(* the mutex.                                                              *)
(***************************************************************************)
Log(s) ==
    /\ pc[s] = "log"
    /\ \E outcome \in {"Ok", "Panic"} : ReturnUnlocking(s, outcome)
    /\ UNCHANGED <<sessionVars, protections, failure, restoreFailed,
                   registry, codePage, mem, protection, stale>>

(* Mutant: the pages that are executable already stay mapped. *)
ReleaseWritablePages(s) ==
    /\ pc[s] = "release"
    /\ codePage' = [p \in CodePages |->
                      IF p \in SeqElements(pages[s]) /\ codePage[p] = "writable"
                      THEN "free"
                      ELSE codePage[p]]
    /\ pages' = [pages EXCEPT ![s] = <<>>]
    /\ Goto(s, "done")
    /\ UNCHANGED <<pending, protections, failure, restoreFailed, result,
                   lock, registry, mem, protection, stale>>

(***************************************************************************)
(* Dropping the pages the call still owns unmaps them: a session's         *)
(* mappings, or after a failed make_exec the mapping it returns, those     *)
(* made executable before it and those that were to follow.                *)
(***************************************************************************)
ReleasePages(s) ==
    /\ pc[s] = "release"
    /\ codePage' = [p \in CodePages |->
                      IF p \in SeqElements(pages[s]) THEN "free"
                      ELSE codePage[p]]
    /\ pages' = [pages EXCEPT ![s] = <<>>]
    /\ Goto(s, "done")
    /\ UNCHANGED <<pending, protections, failure, restoreFailed, result,
                   lock, registry, mem, protection, stale>>
-----------------------------------------------------------------------------
(***************************************************************************)
(* The host program rewrites (and flushes) code of its own.  It leaves     *)
(* installed patches alone; unless HostRaces, it also keeps away from a    *)
(* source between its revalidation and its replacement, as the safety      *)
(* contract of install_permanently asks of other threads.                  *)
(***************************************************************************)
HostWrite(a, b) ==
    /\ a \notin InstalledCells
    /\ \/ HostRaces
       \/ \A s \in Sessions : pc[s] = "revalidate" => a \notin SourceCells(s)
    /\ mem' = [mem EXCEPT ![a] = b]
    /\ UNCHANGED <<sessionVars, callVars, lock, registry, codePage,
                   protection, stale>>

Prepare(s) ==
    \/ \E address \in Sites, data \in Payloads : Overwrite(s, address, data)
    \/ \E address \in Sites, size \in DetourSizes, p \in CodePages :
         PrepareDetour(s, address, size, p)

Install(s) ==
    \/ SealPage(s) \/ FlushPage(s) \/ PagesDone(s)
    \/ LockRegistry(s) \/ CheckOverlap(s)
    \/ ValidatePatch(s) \/ ValidateDone(s)
    \/ ProtectPage(s) \/ ProtectDone(s)
    \/ RevalidatePatch(s) \/ Commit(s)
    \/ CopyPatch(s) \/ CopyDone(s)
    \/ FlushPatch(s) \/ FlushDone(s)
    \/ RestorePage(s) \/ RestoreDone(s)
    \/ Log(s) \/ ReleasePages(s)

(* Every session has returned; nothing more is asked of Patchy. *)
Finished ==
    /\ \A s \in Sessions : pc[s] = "done"
    /\ UNCHANGED vars

Next ==
    \/ \E s \in Sessions : Prepare(s) \/ DropSession(s)
                             \/ InstallPermanently(s) \/ Install(s)
    \/ \E a \in HostCells, b \in Data : HostWrite(a, b)
    \/ Finished

Spec == Init /\ [][Next]_vars

(* A thread inside install_permanently is scheduled and runs on. *)
FairSpec == Spec /\ \A s \in Sessions : WF_vars(Install(s))
-----------------------------------------------------------------------------
(* Properties.                                                             *)

(* Patch i of s has been copied over its source. *)
Written(s, i) == Committed(s) /\ (pc[s] = "copy" => i < cursor[s])

(***************************************************************************)
(* A jump that is in the host's code leads to a page that is mapped,       *)
(* executable and flushed from the instruction cache, whatever failed and  *)
(* whichever session's pages were unmapped: the pages are sealed and moved *)
(* into the registry before the first source byte changes (session.rs      *)
(* 390-448), and only pages still owned by the call are dropped.           *)
(***************************************************************************)
NoDanglingJump ==
    \A a \in Address, p \in CodePages :
        mem[a] = Jump(p) => codePage[p] = "flushed"

(* Address a has the byte of every patch that was copied over it. *)
IntactAt(a) ==
    \A s \in Sessions : \A i \in DOMAIN pending[s] :
        Written(s, i) /\ a \in PatchCells(pending[s][i]) =>
            mem[a] = pending[s][i].replacement
                         [a - pending[s][i].address + 1]

(***************************************************************************)
(* Once copied, a patch stays byte for byte what was prepared: no later    *)
(* patch, of this session or another, replaces a byte of it (the overlap   *)
(* checks at session.rs 70-96 and 344-371 under one mutex).                *)
(***************************************************************************)
InstalledIntact == \A a \in Address : IntactAt(a)

(***************************************************************************)
(* Every byte about to be copied lies in a page that is writable then: the *)
(* page walk of protect_patch_sources (session.rs 246-297) covers patches  *)
(* that straddle pages, and no other session restores a shared page.       *)
(***************************************************************************)
CopiesIntoWritablePages ==
    \A s \in Sessions : pc[s] = "copy" =>
        \A a \in SourceCells(s) : protection[align_down(a, PageSize)] = RWX

(***************************************************************************)
(* When no installation is under way a source page has its original        *)
(* protection, or a call that patched it returned an error of the kind     *)
(* that announces it (a flush error hides a failed restore, session.rs     *)
(* 465-468): no interleaving of sessions on a shared page leaves it        *)
(* writable silently.                                                      *)
(***************************************************************************)
LeftWritableIsReported ==
    lock = NoSession =>
        \A g \in PageBases :
            \/ protection[g] = InitialProtection[g]
            \/ \E t \in Sessions :
                 /\ g \in SourcePages(t)
                 /\ result[t] \in {"Protection", "InstructionCache"}

(***************************************************************************)
(* Ok is returned only when the patches are registered and every one was   *)
(* flushed from the instruction cache; a flush error ends the loop early   *)
(* (session.rs 450-468) and is never lost.  A panic can only come from the *)
(* logger (470-472), when all of it is done.  The errors found before the  *)
(* commit point mean that nothing was installed.                           *)
(***************************************************************************)
ResultTellsTheTruth ==
    \A s \in Sessions :
        /\ result[s] \in {"Ok", "Panic"} =>
             Committed(s) /\ SourceCells(s) \cap stale = {}
        /\ result[s] \in {"Dropped", "Mapping", "OverlappingPatch",
                          "SourceChanged"} => ~Committed(s)

(* A patch of session s jumps to page p. *)
LeadsTo(s, p) == \E i \in DOMAIN pending[s] : pending[s][i].page = p

(***************************************************************************)
(* A trampoline page stays mapped only as long as a session that has not   *)
(* returned owns it, or for good when an installed patch leads to it.      *)
(* Wherever a call fails, between two pages that are made executable (393) *)
(* as well as under the mutex, all its pages are unmapped, and an          *)
(* installation keeps no page that its patches do not need (session.rs     *)
(* 388-436).                                                               *)
(***************************************************************************)
PagesAreReleased ==
    \A p \in CodePages : codePage[p] # "free" =>
        \/ \E s \in Sessions :
             pc[s] # "done" /\ p \in SeqElements(pages[s]) /\ LeadsTo(s, p)
        \/ \E e \in registry : p \in e.pages /\ LeadsTo(e.session, p)

(***************************************************************************)
(* The bytes a copy replaces are those read when the patch was prepared    *)
(* (validate_patch_sources, session.rs 328-342 and 414-423): a trampoline  *)
(* that replays the overwritten instructions replays what was there.       *)
(***************************************************************************)
OverwritesOnlyExpected ==
    \A s \in Sessions : pc[s] = "copy" =>
        \A i \in cursor[s] .. Len(pending[s]) : SourceUnchanged(pending[s][i])

(***************************************************************************)
(* A step of a session changes only code that is in the registry already,  *)
(* so a session that sees the registry sees every byte Patchy may have     *)
(* touched (the push at session.rs 427 precedes the copies at 438).        *)
(***************************************************************************)
ChangesOnlyRegisteredCode ==
    [][(pc' # pc \/ cursor' # cursor) =>
         \A a \in Address \ InstalledCells : mem'[a] = mem[a]]_vars

(***************************************************************************)
(* install_permanently returns or unwinds, and its pages are released or   *)
(* permanent: no failure path and no panic keeps the mutex, no two         *)
(* sessions wait for each other.                                           *)
(***************************************************************************)
InstallReturns == \A s \in Sessions : pc[s] = "seal" ~> pc[s] = "done"
-----------------------------------------------------------------------------
(***************************************************************************)
(* Refinement: what a session and its caller see of an installation.       *)
(***************************************************************************)

(* A patch without the page its replacement jumps to. *)
Seen(patch) ==
    [address |-> patch.address, expected |-> patch.expected,
     replacement |-> patch.replacement]

(* How far the call of a session is. *)
PhaseOf(s) ==
    IF pc[s] = "open" THEN "open"
    ELSE IF pc[s] \in {"release", "done"}
    THEN IF Committed(s) THEN "installed" ELSE "refused"
    ELSE IF Committed(s) THEN "committed" ELSE "called"

phaseBar == [s \in Sessions |-> PhaseOf(s)]

(* What overwrites and detours put in the place of the host's code. *)
Replacements ==
    Payloads \cup {build_near_jump(p, size) : p \in CodePages,
                                             size \in DetourSizes}

patchesBar ==
    [s \in Sessions |-> {Seen(pending[s][i]) : i \in DOMAIN pending[s]}]

Atomic == INSTANCE AtomicInstall WITH
    Replacements <- Replacements,
    patches <- patchesBar,
    phase <- phaseBar

(***************************************************************************)
(* However many system calls an installation makes, and whichever of them  *)
(* fails, its patches become permanent together or not at all: the one     *)
(* step that decides is the push into the registry (session.rs 427), after *)
(* which every patch is written before the call returns.                   *)
(***************************************************************************)
InstallsAtomically == Atomic!Spec
-----------------------------------------------------------------------------
(***************************************************************************)
(* The inductive invariant behind the theorems of PatchInstallProofs.      *)
(***************************************************************************)

(* The mutex is held by the one session in a locked phase. *)
LockInv ==
    \A s \in Sessions : (lock = s) <=> (pc[s] \in LockedPhases)

(* Prepared patches do not overlap and jump to their own page only. *)
PendingInv ==
    \A s \in Sessions : \A i \in DOMAIN pending[s] :
        LET patch == pending[s][i] IN
        /\ \A k \in 1 .. Size(patch), p \in CodePages :
             patch.replacement[k] = Jump(p) => p = patch.page
        /\ \A j \in DOMAIN pending[s] : j # i =>
             ~RangesOverlap(patch.address, Size(patch), pending[s][j].address,
                            Size(pending[s][j]))

(* A registry entry holds the patches of a session past its commit point. *)
RegistryInv ==
    /\ \A e \in registry :
         /\ pc[e.session] \in {"copy", "flush", "restore", "log", "release",
                              "done"}
         /\ pages[e.session] = <<>>
         /\ e.patches = PatchSet(e.session)
    /\ \A s \in Sessions : pc[s] \in {"copy", "flush", "restore", "log"} =>
         Committed(s)

(* Each trampoline page has one owner: a session or the registry. *)
PageInv ==
    /\ \A p \in PermanentPages : codePage[p] = "flushed"
    /\ \A s \in Sessions : \A p \in SeqElements(pages[s]) :
         /\ codePage[p] # "free"
         /\ p \notin PermanentPages
         /\ \A t \in Sessions : t # s => p \notin SeqElements(pages[t])
    /\ \A s \in Sessions : \A i \in DOMAIN pages[s] :
         /\ pc[s] = "seal" /\ i < cursor[s] => codePage[pages[s][i]] = "sealed"
         /\ pc[s] = "flush_pages" =>
              /\ i < cursor[s] => codePage[pages[s][i]] = "flushed"
              /\ codePage[pages[s][i]] \in {"sealed", "flushed"}
         /\ pc[s] \in {"lock", "overlap", "validate", "protect", "revalidate"}
              => codePage[pages[s][i]] = "flushed"

(* The page of every detour is where its session's progress says it is. *)
DetourInv ==
    \A s \in Sessions : \A i \in DOMAIN pending[s] :
        pending[s][i].page # NoPage =>
            /\ Committed(s) => pending[s][i].page \in PermanentPages
            /\ \/ Committed(s) \/ pc[s] \in {"release", "done"}
               \/ pending[s][i].page \in SeqElements(pages[s])

(* Patches of different sessions past the check do not overlap. *)
OverlapInv ==
    /\ \A s, t \in Sessions : s # t /\ Committed(s) /\ Committed(t) =>
         \A i \in DOMAIN pending[s], j \in DOMAIN pending[t] :
             ~RangesOverlap(pending[s][i].address, Size(pending[s][i]),
                            pending[t][j].address, Size(pending[t][j]))
    /\ \A s \in Sessions : pc[s] \in {"validate", "protect", "revalidate"} =>
         ~OverlapsInstalled(s)

(* Jumps lead to pages of the registry. *)
JumpInv ==
    \A a \in Address, p \in CodePages : mem[a] = Jump(p) => p \in PermanentPages

(* A call that tried in vain to restore source page g. *)
Leaked(g) == \E t \in Sessions : g \in SourcePages(t) /\ restoreFailed[t]

(* The source pages a call has made writable and not tried to restore. *)
HoldInv ==
    \A s \in Sessions :
        /\ Held(s) \subseteq SourcePages(s)
        /\ Held(s) # {} => pc[s] \in {"protect", "revalidate", "copy", "flush",
                                     "rollback", "restore"}
        /\ pc[s] \in {"revalidate", "copy", "flush"} =>
             SourcePages(s) \subseteq Held(s)

(* Who knows that page g does not have its original protection. *)
ProtectionAt(g) ==
    /\ \/ protection[g] = InitialProtection[g]
       \/ Leaked(g)
       \/ \E s \in Sessions : g \in Held(s)
    /\ \A s \in Sessions : g \in Held(s) =>
         /\ protection[g] = RWX
         /\ protections[s][g] = InitialProtection[g] \/ Leaked(g)

ProtectionInv == HoldInv /\ \A g \in PageBases : ProtectionAt(g)

(* What the locals of a call can be in each phase. *)
ResultInv ==
    \A s \in Sessions :
        /\ pc[s] \notin {"release", "done"} => result[s] = "none"
        /\ pc[s] \notin {"rollback", "restore", "release", "done"} =>
             failure[s] = "Ok"
        /\ pc[s] = "rollback" => failure[s] \in {"Protection", "SourceChanged"}
        /\ pc[s] = "restore" => failure[s] \in {"Ok", "InstructionCache"}
        /\ restoreFailed[s] =>
             \/ pc[s] \in {"rollback", "restore"}
             \/ /\ pc[s] \in {"release", "done"}
                /\ result[s] \in {"Protection", "InstructionCache"}
        /\ result[s] \in {"Ok", "Panic"} => Committed(s)
        /\ result[s] \in {"Dropped", "Mapping", "OverlappingPatch",
                          "SourceChanged"} => ~Committed(s)

FlushInv ==
    \A s \in Sessions : \A i \in DOMAIN pending[s] :
        (\/ pc[s] = "flush" /\ i < cursor[s]
         \/ pc[s] = "restore" /\ failure[s] = "Ok"
         \/ pc[s] = "log"
         \/ result[s] \in {"Ok", "Panic"}) => PatchCells(pending[s][i]) \cap stale = {}

(* What was compared stays as it was while the host keeps away. *)
ExpectedInv ==
    ~HostRaces => \A s \in Sessions : \A i \in DOMAIN pending[s] :
        (\/ pc[s] = "revalidate" /\ i < cursor[s]
         \/ pc[s] = "copy" /\ i >= cursor[s]) =>
            SourceUnchanged(pending[s][i])

IInv ==
    /\ TypeOK
    /\ LockInv
    /\ PendingInv
    /\ RegistryInv
    /\ PageInv
    /\ DetourInv
    /\ OverlapInv
    /\ JumpInv
    /\ InstalledIntact
    /\ ProtectionInv
    /\ ResultInv
    /\ FlushInv
    /\ ExpectedInv
-----------------------------------------------------------------------------
(* What of the invariant no other copy of the library can disturb by       *)
(* writing to the host's code or to its protections (TwoCopies).           *)

OwnedPages == PermanentPages \cup UNION {SeqElements(pages[s]) : s \in Sessions}
PatchedPages == UNION {SourcePages(s) : s \in Sessions}
PatchedCells == UNION {SourceCells(s) : s \in Sessions}

OwnInv ==
    /\ TypeOK
    /\ LockInv
    /\ PendingInv
    /\ RegistryInv
    /\ PageInv
    /\ DetourInv
    /\ OverlapInv
    /\ HoldInv
    /\ ResultInv
=============================================================================
