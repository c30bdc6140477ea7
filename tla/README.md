# A formal model of Patchy

Patchy (`patchy-rs`) is a Rust library that patches the code of the running
64-bit Windows process it is loaded into. A `PatchSession` collects overwrites
and detours, puts the detours' trampolines into pages near the patched code,
and then installs everything permanently, in one go, under a process-wide
mutex. This directory holds TLA+ modules that model the library's core, TLC
configurations that check them on small instances, and proofs that TLAPS
checks for every value of the constants.

## 1. The system

| Part | Source | State it keeps | Operations |
|---|---|---|---|
| Preparation | `src/patch.rs` | `PatchSession.pending` | `overwrite`, `patch_call`, `detour`, `detour_trampoline`, `detour_with` |
| Trampoline allocation | `src/session.rs` 98-231 | `PatchSession.pages` (mapping, bytes used), the address space | `allocate_trampoline`, `allocate_trampoline_page`, `try_allocate_page` |
| Relative jumps | `src/relative_jump.rs` | the iterator `CandidateAddresses` | `relative_offset`, `slot_range`, `candidate_bounds`, `next` |
| Permanent installation | `src/session.rs` 246-474 | the registry `PERMANENT_PATCH_SETS` and its mutex, page protections, the host's code, the instruction cache | `install_permanently`, dropping a session |
| Generated calls | `src/arch.rs` | none; the code it emits keeps registers on the stack | `build_call`, `push_preserved_call` |
| Trampoline builder | `src/trampoline.rs` | code, labels, fixups | `new_label`, `bind`, jumps, calls, `build` |
| C ABI | `patchy-ffi/src/lib.rs`, `include/patchy.h` | opaque handles, labels by index, a last error per thread | one function per core operation |
| Modules | `src/process_module.rs` | none | `main`, `resolve_rva` |

How they interact. A session belongs to one thread at a time (`&mut self`,
then `self` by value). Sessions of different threads meet in the address space
(each maps pages near its hooks), in the registry and its mutex, and in the
host's code: the source pages whose protection they change and the bytes they
replace. The host program runs all the while and may rewrite code of its own.
The operating system can refuse any request. The C ABI wraps the core
operations one by one.

What is hard:

* *Interleaving.* Sessions prepared side by side are installed one after the
  other against bytes that were read long before. The source pages are a
  shared resource which each installation makes writable and gives back.
* *Partial failure.* Sealing, flushing and protecting are loops of system
  calls. What was done by the time one fails decides what must be undone, what
  may be unmapped and what the caller has to be told.
* *Ordering.* Pages must be executable, flushed and out of the reach of
  `Drop` before the first jump is written.
* *Arithmetic at the edges.* Candidate bases around a hook, at both ends of
  the address space and of the reach of a 32-bit displacement, and slots at
  the end of a page.
* *Stack and register bookkeeping* in generated code, in three variants.
* *Late binding.* A trampoline is written with holes that are filled when its
  address is known, by offsets and label numbers remembered until then.
* *Ownership across the C ABI.* A handle is consumed by an installation that
  may fail or panic; errors are merged into statuses, messages are per thread.
* *Copies.* Two copies of the library in a process share the host's code and
  nothing else.

`PROJECT.json` lists these hazards with their lines and the properties that
watch them. Two have none: the host writing between the second validation and
the copy (the code leaves the window to the caller's contract), and a logger
that installs a session of its own (it would wait for its own mutex).

### What makes each part correct

* Preparation: a call that fails leaves the session as it was; detours are
  connected at both ends; trampolines never overlap; no mapping is leaked.
* Search: exactly the bases a near jump reaches are tried, nearest first, also
  while other sessions map and unmap pages, and the search ends.
* Installation: no dangling jump; installed patches stay intact; writes go
  only to writable pages, to registered addresses and over the expected bytes;
  protections are restored or the failure is reported; results are true; pages
  of a failed call are released; every call returns.
* Trampolines: built anywhere, every branch leads where its caller said; the
  allocator's view of a trampoline decides as the real one.
* C ABI: handles have one owner; failed calls change nothing; statuses,
  messages and label numbers mean what a caller takes them to mean.
* Generated calls: registers, stack and flags as documented around any
  callback that obeys its ABI.

## 2. The modules

| Module | What it is |
|---|---|
| `AddressSpace` | addresses, checked addition, alignment, the overlap test |
| `RelativeJump` | the arithmetic of `relative_jump.rs` as operators |
| `NearestFirst` | abstract specification of the search for a place |
| `CandidateSearch` | `allocate_trampoline_page` driving `CandidateAddresses`; implements `NearestFirst` |
| `Builder` | what the allocator sees of a trampoline: a size and relative exits |
| `Trampoline` | the trampoline builder: labels, branches, fixups, `build` |
| `PatchSession` | preparation and trampoline allocation, several sessions |
| `AtomicInstall` | abstract specification of installation: all patches or none |
| `PatchInstall` | `install_permanently`, several sessions, the host, failures; implements `AtomicInstall` |
| `TwoCopies` | two `PatchInstall`s with registries of their own over one address space |
| `Ffi` | the C ABI, over `AtomicInstall`'s sessions and `Trampoline`'s trampolines |
| `GeneratedCall` | the code of `arch.rs`, executed |
| `AddressSpaceProofs` | lemmas about alignment |
| `CandidateSearchProofs`, `PatchInstallProofs`, `PatchSessionProofs`, `TrampolineProofs`, `FfiProofs`, `GeneratedCallProofs` | theorems about the modules they extend |
| `TwoCopiesProofs` | theorems about `TwoCopies`, from the lemmas of `PatchInstallProofs` |
| `MC...` | the values of the constants for TLC |

Operators keep the names of the Rust functions where there is one. The
definitions marked "Mutant" are deliberately wrong versions of the definition
below them; substituting one must break the property `PROJECT.json` pairs it
with.

### PatchInstall

State: each session's fields (`pages`, `pending`), the locals of its call
(`pc`, `cursor` for the `Vec` being iterated, `protections`, `failure`,
`restoreFailed`, `result`), and the process (`lock`, `registry`, `codePage`,
`mem`, `protection`, `stale` for bytes not flushed since they were written).

| Code | Actions |
|---|---|
| preparation, in short (`PatchSession` has it in full) | `Overwrite`, `PrepareDetour` |
| `make_exec` loop, page flush loop (388-408) | `SealPage`, `FlushPage`, `PagesDone` |
| `permanent_patch_sets`, overlap check (410-411) | `LockRegistry`, `CheckOverlap` |
| `validate_patch_sources` (414, 419) | `ValidatePatch`, `ValidateDone`, `RevalidatePatch` |
| `protect_patch_sources` (246-297) | `ProtectPage`, `ProtectDone` |
| registry push, copies, flushes (425-464) | `Commit`, `CopyPatch`, `CopyDone`, `FlushPatch`, `FlushDone` |
| `restore_patch_sources` (299-326), as a rollback or at the end | `RestorePage`, `RestoreDone` |
| `log::info!` (470-472) | `Log` |
| dropping what the call still owns | `ReleasePages`, `DropSession` |
| (the host program) | `HostWrite` |

Each system call, and each patch compared or copied, is one step. A system
call may fail without effect. The bytes of a near jump are the value
`Jump(p)`: all that matters of a displacement here is the page it leads to.
The copy of one patch is one step, because the safety contract of
`install_permanently` (session.rs 383-386) keeps other threads from executing
it meanwhile.

`HostRaces` says whether the host may write into a source between its second
validation and its copy. The code cannot prevent it, and says so (the comment
at session.rs 417 speaks of narrowing the window); the safety contract puts it
on the caller. Only `OverwritesOnlyExpected` depends on it, so that property
says nothing of the window itself: it is checked for callers that keep the
contract. `install_atomic` lets the host write in the window.

The host's logger is called by `Log`, with the mutex held and the source pages
restored. It returns, and the call is `Ok`, or it panics: the result is then
`Panic`, the guard is dropped, and the mutex is poisoned, which later sessions
ignore (session.rs 61). A logger that calls back into Patchy is left out.

### AtomicInstall

What a caller may rely on: a session is prepared, and then either refused, with
nothing registered, or committed in one step that makes all its patches
permanent, if none overlaps a permanent patch and the bytes are as expected.
After that its bytes are written in any order and the call ends with any result
that the commit allows. `PatchInstall` maps to it by its program counter and
the registry (`PhaseOf`), so the commit is the push onto the registry and not,
say, the first copy.

### TwoCopies

Two instances of `PatchInstall` with variables of their own, except `mem`,
`protection`, `stale` and `codePage`. Properties that fail between copies are
documented limits (README.md 22-27) and are not stated. What is stated is what
each copy can still count on: jumps never dangle, bytes that only one copy
patches stay what it made them, and pages that only one copy patches are
writable when they must be and restored afterwards. The README's "Disjoint patches may
work" is true with a condition: they must be disjoint in pages. Patches that
are disjoint in bytes only do not corrupt each other, but one copy may take the
other's write access away or leave the page writable.

### PatchSession

State: `pages`, `pending`, the trampolines in the pages (`code`), the call
each thread is in, what the latest call answered, and `place`, who has mapped
what. A builder (the `build` closure) is its announced size, the length it
really has, its relative exits, and whether it fails. `TryPage` is one
iteration of the loop over existing pages, `TryCandidate` one request to the
operating system, which refuses or maps a page, at the candidate or at any
other free place. `BuildInNewPage` is the rest of `try_allocate_page`: a
mapping that is elsewhere, out of reach or cannot be built in is given back
(`GiveBack`, the drop of `mapping`), and until then it is live and in the way
of other sessions (`NoPageLeaks`). The prologue up to the first request is part
of the action that starts the call. `Err(Mapping)` at session.rs 189 is left
out: `MmapOptions::new` refuses a size of 0 only, and the page size is not 0.

### Trampoline and Builder

State: `code`, `labels` and `relative_fixups` of each `Trampoline`, and the
ghost `asked`, the branches as the caller meant them. A byte is opaque data, an
opcode or a part of an encoded displacement, which is enough to see a fixup
that misses its instruction. `build` is the pure function it is in the code, so
the properties quantify over all addresses. `ForeignLabels` says whether
callers may use a label with another trampoline. The `Build` step stands for
the call, which takes `&self`.

`PatchSession` works with a `Builder`. `BuildsLikeABuilder` says that for every
trampoline and place the two agree on success and on which error comes first.
The exits of the `Builder` are the fixups that leave the code (`Leaving`) in
their order (`Nth`); the branches to bound labels are left out, since `build`
cannot fail for them while the trampoline is in the address space and at most
`I32Max` bytes long, 2 GiB in the source. Longer ones, whose labels may be out
of reach of their branches, are not claimed to be `Builder`s.

### Ffi

State: each C thread's pointers and latest status, each allocation (`box`),
the thread's message, the label table of each `PatchyTrampoline`, and the
variables of `AtomicInstall` and `Trampoline` behind them. A function of the
ABI is an action; those whose checks and effects have the same form share one
(`trampoline_append`, `trampoline_jump`, `session_detour`). An action's
`Invalid` disjunct is its wrong arguments, from any of its checks. Which of the
core's errors a preparing call meets is open (`PreparationErrors`), but what
the trampoline itself decides is not: the allocator skips places its exits do
not reach, and one that builds nowhere is refused.
`session_install_permanently` is the part up to the core call,
`InstallStep` and `InstallReturn` the core's steps, between which other threads
call in. Callers keep the contract of `patchy.h`: a pointer is null or live,
and not in use by another call; after destroying a handle they forget it.
`HandOver` passes a session to another thread. Label numbers, constants and
null pointers are passed wrong. A panic comes from the logger.

### RelativeJump, CandidateSearch and NearestFirst

`NearestFirst` keeps the set of bases not tried yet and lets only a nearest
one be tried. `CandidateSearch` keeps the two ends of the iterator. The
refinement mapping takes `left` to the bases that the two ends still span.
`AddressOverflow` appears in the abstract specification as well: for a hook in
the last granule of the address space, rounding up fails although bases below
the hook would serve. Windows keeps user code far from there.

### GeneratedCall

A symbolic machine with the volatile registers, the words of the stack, RSP
and the last writer of the flags. `build_call(v)` and `push_preserved_call(v)`
are the instruction sequences of `arch.rs`. The callback overwrites all that
its ABI lets it overwrite, and any subset of its home area. The bytes callers
put around a preserved call change every volatile register but keep RSP, as
`trampoline.rs` 152-168 asks. RSP is taken to be aligned to 16 bytes where the
code is entered, as it is at the call sites `patch_call` replaces.

## 3. The runs

| Run | Checks | Instance |
|---|---|---|
| `install` | `TypeOK`, `NoDanglingJump`, `InstalledIntact`, `CopiesIntoWritablePages`, `LeftWritableIsReported`, `ResultTellsTheTruth`, `PagesAreReleased`, `OverwritesOnlyExpected`, `ChangesOnlyRegisteredCode` | 2 sessions, 2 places for pages, 8 addresses in 2 source pages, patches of 1 and 2 bytes at two adjacent sites, one at the page boundary, up to 2 patches per session; 1.1 M states |
| `install_atomic` | `IInv`, `InstallsAtomically`, `InstallReturns` | detours of 3 bytes (jump and padding) and patches across the boundary, up to 2 per session, `HostRaces`; 0.35 M states |
| `two_copies` | `JumpsStayAlive`, `UnsharedPagesAreWritable`, `UnsharedPagesAreRestored`, `UnsharedCodeStaysIntact` | one session per copy; one patch across the page boundary, one in the second page only, possibly overlapping; 67 k states |
| `search` | `TypeOK`, `TriesNearestFirst`, `SearchReturns` | every hook of 64 addresses, 8-byte granules, reach 20 |
| `session` | `TypeOK`, `TrampolinesDisjoint`, `DetoursConnect`, `PreparesAllOrNothing` | one session, 3 patches, 4 sites, 8 builders, pages of 12 bytes; 0.40 M states |
| `session_shared` | `NoPageLeaks`, `CallReturns`, `SearchesNearestFirst` | two sessions, 1 patch each after any number of failed calls, a hook near the start of the address space, one on a granule boundary, one in between, and a builder whose exit some places do not reach, mappings placed elsewhere; 65 k states |
| `trampoline` | `TypeOK`, `BranchesLeadToTargets`, `BuildsLikeABuilder` | one trampoline of up to 2 labels, displacements of 2 bytes, built at every address; 73 k states |
| `trampoline_foreign` | `ForeignLabelsAreReported` is **violated** | two trampolines |
| `ffi_sessions` | `HandlesHaveOneOwner`, `HeldSessionsAreOpen`, `MessageMatchesStatus`, `StatusTellsInstalled` | two threads, two sessions; 0.10 M states |
| `ffi_trampolines` | `HandlesHaveOneOwner`, `NumbersNameTheirLabels`, `FailedCallsChangeNothing` | one session, trampolines with up to 2 labels; 0.26 M states |
| `generated_call` | `TypeOK`, `StateRestored`, `CallIsAligned`, `DecisionSurvives` | both generators, all variants, every use of the home area under a preserved call and none under `build_call` |
| `generated_call_home` | `PreservesBoth` is **violated** | `build_call`, every use of the home area |

Why the bounds are enough. Two sessions suffice for every property of
`PatchInstall`, since each relates at most two of them and the mutex lets one
at a time past the check; two patches per session give loops an iteration to
fail on after one that succeeded; two source pages with a patch across their
boundary give the protection loop the same; the two pages start with different
protections, so restoring the wrong one shows. In `search` the address space
is small enough for both of its ends to be in reach of some hook while other
hooks have full reach on both sides. In `session` a page holds up to three
trampolines, whose slots can end exactly at its capacity, one builder is
larger than a page, and there are hooks from which the first page is out of
reach. In `trampoline` the reach is shorter than the address space, so exits
fail at some addresses and not at others, and overflow at the end; a label can
be bound before and after the branches to it. `ffi_sessions` has two threads
because its properties relate at most two; each can install while the other
calls.

Symmetry: the sessions (and the places of pages in `PatchInstall`) are
interchangeable in the runs without liveness.

Deadlock is checked in every run; `Finished` is the only stuttering action,
enabled when nothing more is asked of the library.

Fairness. `FairSpec` of `PatchInstall` has weak fairness of `Install(s)` for
each session: a thread inside `install_permanently` keeps running, and a
session waiting for the mutex gets it. Weak fairness suffices for the latter
because a session calls `install_permanently` once, so the mutex is free for
good after finitely many steps. Nothing is assumed of the host nor of sessions
being prepared. `FairSpec` of `CandidateSearch` has weak fairness of the loop,
which is sequential code, and that of `PatchSession` weak fairness of
`Allocate(s)`, the loops of `allocate_trampoline`, for each thread: requests
are never forced, and nothing is assumed of what the operating system grants.
The fairness of `Install(s)` includes `Log`: the host's logger is assumed to
return or panic.

### What the violated runs show

`generated_call_home`: `build_call` saves XMM0 at `[RSP+0]` and calls without reserving the 32 bytes
of home area that a callee of the Windows x64 ABI may write
(`push_preserved_call` reserves them: arch.rs 101-104). A callback that stores
its arguments there, as unoptimised code does, destroys the saved XMM0, and
part of XMM1, although `ReturnType::None` promises to "Preserve both `RAX` and
`XMM0`" (lib.rs 33). `generated_call` shows that the sequences are otherwise
right.

`trampoline_foreign`: `InvalidLabel` is documented as "A trampoline label does
not belong to the builder using it" (error.rs 98), but a `Label` is a bare
index, and `build` checks only that the index exists. A label of another
trampoline is accepted when this one has as many labels, and the branch leads
to the label with the same number.

## 4. The proofs

`PatchInstallProofs` proves, for every number of sessions, pages, sites and
payloads, every page size and address width: `TypeCorrect`, `Invariance`,
`NoDanglingJumps`, `InstalledStaysIntact`, `WritesNeverFault`,
`LeftWritableReported`, `ResultsAreTrue`, `PagesReleased`,
`RegisteredBeforeWritten`, and, if
`HostRaces` is false, `ReplacesOnlyExpected`. The assumptions are those of the
modules: `ConstantsAssumption`, `CodeAssumption`, `UsizeMaxAssumption`.

None of these properties is inductive. `IInv` adds what the code relies on
without saying it:

* `LockInv`: a session is in a locked phase exactly when it holds the mutex.
* `PendingInv`, `OverlapInv`: patches of one session do not overlap, nor do
  those of sessions that passed the check; so a copy leaves the others alone.
* `RegistryInv`, `PageInv`, `DetourInv`: every trampoline page has one owner,
  the registry's pages are flushed, and the page of each detour is with its
  session until the commit and with the registry after it.
* `JumpInv`: jumps in the host's code lead to pages of the registry; together
  with `PageInv` this is `NoDanglingJump`.
* `ProtectionInv`: a session holds source pages of its own, all of them while
  it copies, and only in its protected phases (`HoldInv`); a page has its
  original protection, or the one session in its protected phases holds it, or
  a restoration failed (`ProtectionAt`, `Leaked`).
* `ResultInv`, `FlushInv`, `ExpectedInv`: what the locals mean in each phase.

`PagesReleased` rests on an invariant of its own, `UseInv`: a page is mapped
for a session that has not returned or for the registry, in either case because
a patch leads to it. `DoneEdge` says why a call that fails leaves none behind:
every way to return without the commit goes through `ReleasePages`.

Each part is proved by a lemma of its own about the steps of one session
(`LockSession`, `PageSession`, ...); `HostStep` covers the host, and
`IInvStep` puts them together.

`TwoCopiesProofs` proves the four properties of `TwoCopies`, for any number of
sessions in each copy. The other copy is not the host of `PatchInstall`: it
changes protections and overwrites patched bytes, which `PatchInstall`'s
invariant does not survive. So `PatchInstallProofs` states what is left of it:

* `OwnInv`, the parts of `IInv` about a copy's own variables and pages, which
  any step outside the copy keeps if it leaves these alone and moves none of
  the copy's pages (`Rely`, `OwnInvRely`), and which the copy's own steps keep
  without the rest of `IInv` (`OwnStep`);
* `Guarantee`, what a step of the copy does to the others: it takes only free
  pages and touches only its own, writes only into `PatchedCells` and changes
  protections of `PatchedPages` only (`GuaranteeSession`);
* `IntactAt(a)`, `ProtectionAt(g)` and `JumpInv`, the parts of `IInv` about
  single bytes and pages of the host, which a copy's step keeps at the bytes
  and pages where they held before.

`TwoCopiesProofs` instantiates these lemmas once per copy and shows that the
guarantee of each copy gives the other what it relies on (`StepOfCopy1`,
`StepOfCopy2`). The invariant is both `OwnInv`s, `PagesApart` (no trampoline
page belongs to both), jumps that lead to pages of either registry, and
`ProtectionAt` and `IntactAt` where the other copy patches nothing. Every
theorem follows from it alone. `CopiesAssumption` is what `PatchInstall`
assumes of its constants, for both copies.

`CandidateSearchProofs` proves that `CandidateSearch` implements
`NearestFirst` (`SearchRefinesNearestFirst`) and its type invariant, for every
address width, reach, page size and granularity. Its invariant `IInv` says
that both ends of the iterator are multiples of the granularity in bounds, each on
its side of the hook, and that the upper one is above the lower one. The facts
about multiples come from `AddressSpaceProofs`.

The last part of `PatchInstallProofs` shows that `PatchInstall` implements
`AtomicInstall` (`InstallIsAtomic`). Under the mapping, the steps of a call before the commit
and those that only flush, protect or restore are stutters (`Silent`,
`Stays`); the push onto the registry is `Commit`, a copy is `Write`, and a
return is `Refuse` or `Complete` according to the registry (`ReturnEnds`). The
mapping needs `IInv`: it is `RegistryInv` that says a session is in the
registry exactly in the phases after the commit, `OverlapInv` that `Commit`'s
guard holds when the code has passed its check, and `LockInv` that no second
session is between commit and return.

`TrampolineProofs` proves `TypeCorrect`, `BranchesLead` and
`TrampolineIsABuilder` for any sizes of instructions and displacements, labels,
targets and reach.
Its invariant adds `FixupInv` to the types: the fixups are the branches the
caller asked for, in order (`asked`), each with its placeholder inside its
instruction, and instructions do not overlap. So the placeholder of one branch
is never covered by another's, and what `build` writes into it is the distance
of that branch alone. `BranchesLead` also covers labels of another trampoline,
for which it says what the code does, not what the caller meant.
`TrampolineIsABuilder` is `BuildsLikeABuilder`: a fixup fails as its exit does
and one that is no exit never fails (`FixupsFailAsExits`), and since the ranks
in a finite set of numbers count its members in order (`RankOrder`,
`NthInOrder`), the first failing exit is the exit of the first failing fixup
(`FirstFailures`); and it is indeed a `Builder` (`BuilderType`). With it, the
theorems about `PatchSession`, which hold for every set of `Builder`s, hold of
the trampolines that callers write, up to `I32Max` bytes.

`PatchSessionProofs` proves all invariants of `PatchSession`,
`PreparesAllOrNothing` and `SearchesNearestFirst`, for any number of sessions, hooks and builders, any
page size, granularity, alignment and reach. `IInv` adds to them

* `CallInv`: what a call has checked by the time it is at a page or a
  candidate (sizes, overflow), and that its candidates are multiples of the
  granularity;
* `PageInv`: no place is listed twice in a session, nor built in while listed;
* `CodeInv`: every trampoline lies aligned in the used part of a page of its
  session, and no two overlap.

`TrampolinesDisjoint` is not inductive because a slot is chosen from `used`
alone: only `CodeInv` says that everything before `used` is taken and nothing
after it is. `NoPageLeaks` needs `PageInv`, which needs it in turn: that a
page just mapped, where it was asked for or not, is none of the session's own
follows from its place having been free, and that giving it back loses no page
from `PageInv`.

`SearchesNearestFirst` (`EveryPlaceNearestFirst`) is what the search alone
promises, `NearestFirst`, inside a session: between its requests other sessions
map and unmap pages, and it gives pages back itself. It rests on a second
invariant, `SearchInv`: the two ends of every search are places on their side
of its hook. That a step keeps it, and takes the nearest place and no other, is
what `CandidateSearchProofs` proves of the iterator (`Bounds`, `NewIterator`,
`NearerEnd`, `StepDown`, `StepUp`). `PatchSessionProofs` instantiates that
module for all hooks with room for a near jump and cites those lemmas; none of
them mentions a state of `CandidateSearch`.

`FfiProofs` proves for any number of threads, sessions and trampolines all the
properties of the two `ffi` runs, and two facts that carry the results about
the core over to C callers: `SessionsBehave` (the sessions behind handles do
what `AtomicInstall` allows, so what holds of it holds of them) and
`BranchesLead` (so do trampolines; the proof is that each call is a step of
`Trampoline` or leaves it alone, and then `NextIInv` of `TrampolineProofs`,
through `INSTANCE`). `IInv` is `HandleInv` (who refers to which handle, thread
by thread, and that a session never handed to anyone is open), `AnswerInv`,
`LabelInv` (a table lists exactly the labels of its trampoline, so a number
and an index differ by one and no more) and the invariant of
`TrampolineProofs`.

`GeneratedCallProofs` proves the four invariants of `GeneratedCall`. Its first
part finds the instruction at each position of the code (`BuildCallParts`,
`PreservedParts`, `InstructionAt`): both generators push, make room, store,
call, load, give the room back and pop, and differ in where the optional
instructions are, which `A` (is RAX pushed?) and `Z` (is XMM0 loaded?) say. The
rest speaks of positions only.

* `ControlInv`: RSP at each position (`Depth`), and that after the caller's
  bytes the flags are theirs. The callback's writes do not matter to it, so
  `TypeCorrect`, `CallsAreAligned` and `DecisionsSurvive` hold for every home
  use.
* `DataInv`: from its push or store until the end, each register's word or
  slot holds its value; no register has changed before the call; each has its
  value back from its load or pop on; and the result is in the return register
  from the call on. It is kept because the slots overlap neither each other nor
  the pushed words (`SlotsApart`) and the callback writes below them.

The last holds of preserved calls for every home use, because the first four
words above RSP are reserved for it. In `build_call` these four words are
slots, so `RegistersRestored` has the hypothesis `LeafCallbacks`, that its
callbacks write nothing there; the run `generated_call_home` shows what
happens otherwise.

The proofs assume what the modules state of their constants:
`ConstantsAssumption`, `CodeAssumption`, `UsizeMaxAssumption`,
`CopiesAssumption`, `RelativeJumpAssumption`, `SessionAssumption`,
`TrampolineAssumption`, `HandleAssumption`, `BuilderAssumption`,
`CallAssumption`. TLC evaluates each in some run.

Only model-checked:

* liveness (`InstallReturns`, `SearchReturns`, `CallReturns`): the prover does
  neither fairness nor ENABLED.

## 5. What is left out

* Other code in the process that changes protections or unmaps pages.
* The meaning of the patched instructions, and whether another thread executes
  them while they are replaced (the caller's contract).
* A logger that installs a session of its own, which would wait for its own
  mutex; allocation failures of Rust's allocator, which abort.
* C callers that break the contract of `patchy.h`: stale handles, or one handle
  in two calls at once.
* The addresses that the C ABI writes to optional outputs; `patchy_abi_version`
  and `patchy_last_error_message`, which only read; wording and fields of
  errors.
* Not modelled: `tests/windows.rs` (it exercises the library on Windows and
  was read for what callers do), the build files, the packaging and the C++
  example, which hold no logic of the library.

## 6. What could be added

1. A logger that calls back into the library, as an action that begins under
   the mutex.
2. Other code in the process that changes protections: a third party without a
   registry, whose guarantee would be that it keeps away from patched pages.
