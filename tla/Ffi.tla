-------------------------------- MODULE Ffi --------------------------------
(***************************************************************************)
(* The C ABI of patchy-ffi/src/lib.rs.  Threads of a C program own handles *)
(* of sessions and trampolines, pass them to the functions of the library, *)
(* and learn from a status and from the thread's last message what became  *)
(* of a call.  The sessions behind the handles are those of AtomicInstall, *)
(* the trampolines those of Trampoline.                                    *)
(*                                                                         *)
(* Callers keep the contract of patchy.h: a pointer is null or a live      *)
(* handle that no other call is using.  Pointers, lengths, labels and      *)
(* constants that the library validates are passed wrong as well.          *)
(***************************************************************************)
EXTENDS RelativeJump, Sequences, FiniteSets

CONSTANTS
    Threads,            \* the C program's threads
    NULL,               \* ptr::null_mut()
    Sessions,           \* where Box::new can put a PatchySession
    Trampolines,        \* where it can put a PatchyTrampoline
    PreparationErrors,  \* errors that preparing a patch may meet
    Replacements, InitialCode,                              \* AtomicInstall
    DataLengths, ABSOLUTE_CALL_SIZE, ABSOLUTE_JUMP_SIZE,
    DISPLACEMENT_SIZE, Destinations, MaxCode, MaxLabels,    \* Trampoline
    MaxPatches          \* bound on the patches of a session

Handles == Sessions \cup Trampolines

ASSUME HandleAssumption ==
    /\ NULL \notin Handles
    /\ Sessions \cap Trampolines = {}
    /\ PreparationErrors \subseteq
         {"EmptyPatch", "EmptyTrampoline", "AddressOverflow", "PatchTooSmall",
          "OverlappingPatch", "TrampolineTooLarge", "NoMemoryCave"}

(* What Trampoline assumes of its constants. *)
ASSUME BuilderAssumption ==
    /\ DataLengths \subseteq Nat
    /\ {ABSOLUTE_CALL_SIZE, ABSOLUTE_JUMP_SIZE} \subseteq Nat
    /\ DISPLACEMENT_SIZE \in Nat \ {0}
    /\ Destinations \subseteq Address
    /\ {MaxCode, MaxLabels} \subseteq Nat

VARIABLES
    \* the C program
    session,        \* each thread's variable for a session pointer
    trampoline,     \* each thread's variable for a trampoline pointer
    given,          \* labels of each trampoline that callers were given
    status,         \* what each thread's latest call returned
    \* the library
    box,            \* the state of each allocation
    installing,     \* the session each thread's install call has taken
    last_error,     \* LAST_ERROR; an error stands for its message
    label_table,    \* PatchyTrampoline.labels
    patches, phase, result, mem,                 \* PatchSession
    code, inner_labels, relative_fixups, asked   \* PatchyTrampoline.inner

Core == INSTANCE AtomicInstall WITH
    HostCells <- {}, Data <- {}, HostRaces <- FALSE
Inner == INSTANCE Trampoline WITH
    labels <- inner_labels, ForeignLabels <- FALSE

coreVars == <<patches, phase, result, mem>>
innerVars == <<code, inner_labels, relative_fixups, asked>>
handleVars == <<session, trampoline, box, installing>>
labelVars == <<given, label_table>>
answerVars == <<status, last_error>>
vars == <<handleVars, labelVars, answerVars, coreVars, innerVars>>

Init ==
    /\ session = [t \in Threads |-> NULL]
    /\ trampoline = [t \in Threads |-> NULL]
    /\ given = [h \in Trampolines |-> {}]
    /\ status = [t \in Threads |-> "Ok"]
    /\ box = [h \in Handles |-> "none"]
    /\ installing = [t \in Threads |-> NULL]
    /\ last_error = [t \in Threads |-> "Ok"]
    /\ label_table = [h \in Trampolines |-> <<>>]
    /\ Core!Init
    /\ Inner!Init
-----------------------------------------------------------------------------
(* Statuses, messages and the end of a call.                               *)

(* Mutant: a page that cannot be made writable counts as allocation. *)
status_merging_protection(error) ==
    CASE error = "Invalid" -> "InvalidArgument"
      [] error = "InstructionCache" -> "InstructionCacheFailed"
      [] error = "ModuleLookup" -> "ModuleLookupFailed"
      [] error \in {"Mapping", "NoMemoryCave", "TrampolineTooLarge",
                    "Protection"} -> "AllocationFailed"
      [] error \in {"LabelAlreadyBound", "UnboundLabel"} -> "InvalidLabel"
      [] OTHER -> error

(* FfiError::from: the status of an error; "Invalid" is FfiError::invalid. *)
status_of(error) ==
    CASE error = "Invalid" -> "InvalidArgument"
      [] error = "InstructionCache" -> "InstructionCacheFailed"
      [] error = "Protection" -> "ProtectionFailed"
      [] error = "ModuleLookup" -> "ModuleLookupFailed"
      [] error \in {"Mapping", "NoMemoryCave", "TrampolineTooLarge"} ->
           "AllocationFailed"
      [] error \in {"LabelAlreadyBound", "UnboundLabel"} -> "InvalidLabel"
      [] OTHER -> error

(* Mutant: one message for the whole process. *)
set_last_error_of_all(t, error) == last_error' = [u \in Threads |-> error]

(* The thread's message; that of "Ok" is empty. *)
set_last_error(t, error) == last_error' = [last_error EXCEPT ![t] = error]

(* ffi_call, when operation returns: the message is that of its error. *)
Return(t, error) ==
    /\ set_last_error(t, error)
    /\ status' = [status EXCEPT ![t] = status_of(error)]

(* The thread makes a call; those below are short and end in one step. *)
Idle(t) == installing[t] = NULL

Fail(t, error) ==
    /\ Return(t, error)
    /\ UNCHANGED <<handleVars, labelVars, coreVars, innerVars>>

Invalid(t) == Idle(t) /\ Fail(t, "Invalid")
-----------------------------------------------------------------------------
(* Handles.                                                                *)

(* Mutant: the box is made before the output pointer is looked at. *)
box_before_checking(t, h, output_is_null) ==
    /\ box' = [box EXCEPT ![h] = "live"]
    /\ \/ output_is_null /\ Return(t, "Invalid")
       \/ ~output_is_null /\ Return(t, "Ok")

(* Box::into_raw(Box::new(..)), unless there is nowhere to write it. *)
new_box(t, h, output_is_null) ==
    \/ output_is_null /\ Return(t, "Invalid") /\ UNCHANGED box
    \/ /\ ~output_is_null
       /\ box' = [box EXCEPT ![h] = "live"]
       /\ Return(t, "Ok")

session_create(t) ==
    /\ Idle(t) /\ session[t] = NULL
    /\ \E h \in Sessions, output_is_null \in BOOLEAN :
         /\ box[h] = "none"
         /\ new_box(t, h, output_is_null)
         /\ session' = IF output_is_null THEN session
                       ELSE [session EXCEPT ![t] = h]
    /\ UNCHANGED <<trampoline, installing, labelVars, coreVars, innerVars>>

trampoline_create(t) ==
    /\ Idle(t) /\ trampoline[t] = NULL
    /\ \E h \in Trampolines, output_is_null \in BOOLEAN :
         /\ box[h] = "none"
         /\ new_box(t, h, output_is_null)
         /\ trampoline' = IF output_is_null THEN trampoline
                          ELSE [trampoline EXCEPT ![t] = h]
    /\ UNCHANGED <<session, installing, labelVars, coreVars, innerVars>>

(* The caller forgets a pointer it has given back. *)
session_destroy(t) ==
    /\ Idle(t)
    /\ Return(t, "Ok")
    /\ \/ session[t] = NULL /\ UNCHANGED <<session, box, coreVars>>
       \/ /\ session[t] # NULL
          /\ box' = [box EXCEPT ![session[t]] = "freed"]
          /\ Core!Drop(session[t])
          /\ session' = [session EXCEPT ![t] = NULL]
    /\ UNCHANGED <<trampoline, installing, labelVars, innerVars>>

trampoline_destroy(t) ==
    /\ Idle(t)
    /\ Return(t, "Ok")
    /\ \/ trampoline[t] = NULL /\ UNCHANGED <<trampoline, box>>
       \/ /\ trampoline[t] # NULL
          /\ box' = [box EXCEPT ![trampoline[t]] = "freed"]
          /\ trampoline' = [trampoline EXCEPT ![t] = NULL]
    /\ UNCHANGED <<session, installing, labelVars, coreVars, innerVars>>

(* The C program moves a session to another thread. *)
HandOver(t, u) ==
    /\ Idle(t) /\ Idle(u)
    /\ session[t] # NULL /\ session[u] = NULL
    /\ session' = [session EXCEPT ![t] = NULL, ![u] = session[t]]
    /\ UNCHANGED <<trampoline, box, installing, labelVars, answerVars,
                   coreVars, innerVars>>
-----------------------------------------------------------------------------
(* Preparing patches.                                                      *)

(* The core operation returns one of errors. *)
Refuses(t, errors) ==
    \E error \in errors :
        /\ error = "OverlappingPatch" => patches[session[t]] # {}
        /\ Fail(t, error)

(* It prepares a patch or returns one of errors. *)
Prepares(t, errors) ==
    \/ /\ Cardinality(patches[session[t]]) < MaxPatches
       /\ Core!Prepare(session[t])
       /\ Return(t, "Ok")
       /\ UNCHANGED <<handleVars, labelVars, innerVars>>
    \/ Refuses(t, errors)

session_overwrite(t) ==
    \/ Invalid(t)    \* null session, null bytes of a nonzero length
    \/ /\ Idle(t) /\ session[t] # NULL
       /\ Prepares(t, PreparationErrors \cap
            {"EmptyPatch", "AddressOverflow", "OverlappingPatch"})

(* patch_call and detour; the address of the trampoline is abstracted. *)
session_detour(t) ==
    \/ Invalid(t)    \* null pointers, replay flag, return type
    \/ /\ Idle(t) /\ session[t] # NULL
       /\ Prepares(t, PreparationErrors \ {"EmptyPatch"})

(* The session gets a clone of the trampoline; where it is placed decides. *)
(* Addresses that its exits do not reach are skipped: when it builds at    *)
(* none the search ends with NoMemoryCave, not with the builder's error.   *)
session_detour_trampoline(t) ==
    \/ Invalid(t)
    \/ /\ Idle(t) /\ session[t] # NULL /\ trampoline[t] # NULL
       /\ LET h == trampoline[t]
              built == {Inner!build(h, a).error : a \in Address}
              errors == (PreparationErrors \cup built) \
                            {"Ok", "EmptyPatch", "EmptyTrampoline",
                             "RelativeJumpOutOfRange"}
          IN \/ code[h] = <<>> /\ Fail(t, "EmptyTrampoline")
             \/ code[h] # <<>> /\ "Ok" \in built /\ Prepares(t, errors)
             \/ code[h] # <<>> /\ "Ok" \notin built /\ Refuses(t, errors)
-----------------------------------------------------------------------------
(* Installing: the pointer is cleared and the box taken before the core    *)
(* operation begins, which takes its time and may fail or panic.           *)

(* Mutant: the caller's pointer is left as it is. *)
take_keeping_pointer(t) ==
    /\ installing' = [installing EXCEPT ![t] = session[t]]
    /\ UNCHANGED session

take_session(t) ==
    /\ installing' = [installing EXCEPT ![t] = session[t]]
    /\ session' = [session EXCEPT ![t] = NULL]

session_install_permanently(t) ==
    \/ Invalid(t)    \* null pointer to the pointer, null session
    \/ /\ Idle(t) /\ session[t] # NULL
       /\ take_session(t)
       /\ Core!Call(session[t])
       /\ set_last_error(t, "Ok")
       /\ UNCHANGED <<trampoline, box, status, labelVars, innerVars>>

InstallStep(t) ==
    /\ ~Idle(t)
    /\ Core!Commit(installing[t]) \/ Core!Write(installing[t])
    /\ UNCHANGED <<handleVars, labelVars, answerVars, innerVars>>

(* install_permanently returns or panics; the box goes either way. *)
InstallReturn(t) ==
    /\ ~Idle(t)
    /\ Core!Refuse(installing[t]) \/ Core!Complete(installing[t])
    /\ box' = [box EXCEPT ![installing[t]] = "freed"]
    /\ installing' = [installing EXCEPT ![t] = NULL]
    /\ Return(t, result'[installing[t]])
    /\ UNCHANGED <<session, trampoline, labelVars, innerVars>>
-----------------------------------------------------------------------------
(* Trampolines.                                                            *)

(* A call on the thread's trampoline that succeeds. *)
Builds(t) ==
    /\ Idle(t) /\ trampoline[t] # NULL
    /\ Return(t, "Ok")
    /\ UNCHANGED <<handleVars, coreVars>>

(* lookup_label: callers pass any number. *)
lookup_label(h, label) == label + 1 \in DOMAIN label_table[h]
InnerLabel(h, label) == [index |-> label_table[h][label + 1], home |-> h]

trampoline_length(t) ==
    \/ Invalid(t)    \* null trampoline, null output
    \/ Builds(t) /\ UNCHANGED <<labelVars, innerVars>>

(* Functions whose arguments are checked before anything is appended. *)
trampoline_append(t) ==
    \/ Invalid(t)    \* null pointers, null function
    \/ /\ Builds(t)
       /\ LET h == trampoline[t] IN
          \/ Inner!bytes(h) \/ Inner!absolute_call(h) \/ Inner!absolute_jump(h)
          \/ \E destination \in Destinations :
               Inner!relative_jump(h, destination)
       /\ UNCHANGED labelVars

(* Mutant: the second byte range is looked at after the call is emitted. *)
preserved_call_piecewise(t) ==
    /\ Idle(t) /\ trampoline[t] # NULL
    /\ Inner!preserved_call(trampoline[t])
    /\ Return(t, "Ok") \/ Return(t, "Invalid")
    /\ UNCHANGED <<handleVars, coreVars, labelVars>>

trampoline_preserved_call(t) ==
    \/ Invalid(t)    \* null function, return type, null byte ranges
    \/ /\ Builds(t)
       /\ Inner!preserved_call(trampoline[t])
       /\ UNCHANGED labelVars

(* Mutant: the number is taken once the label is in the table. *)
number_after_push(h) == Len(label_table[h]) + 1

(* The index that becomes the label's number. *)
next_number(h) == Len(label_table[h])

(* The label is added before its number turns out to have nowhere to go. *)
trampoline_new_label(t) ==
    \/ Invalid(t)    \* null trampoline
    \/ /\ Idle(t) /\ trampoline[t] # NULL
       /\ LET h == trampoline[t]
              label == Len(inner_labels[h]) + 1
          IN /\ Inner!new_label(h)
             /\ label_table' = [label_table EXCEPT ![h] = Append(@, label)]
             /\ \/ Return(t, "Invalid") /\ UNCHANGED given
                \/ /\ Return(t, "Ok")
                   /\ given' = [given EXCEPT ![h] = @ \cup
                        {[number |-> next_number(h), label |-> label]}]
       /\ UNCHANGED <<handleVars, coreVars>>

trampoline_bind(t) ==
    \/ Invalid(t)    \* null trampoline, unknown label
    \/ /\ Idle(t) /\ trampoline[t] # NULL
       /\ LET h == trampoline[t] IN
          \E label \in {l \in 0 .. MaxLabels : lookup_label(h, l)} :
            \/ /\ inner_labels[h][InnerLabel(h, label).index] = None
               /\ Builds(t)
               /\ Inner!bind(h, InnerLabel(h, label))
               /\ UNCHANGED labelVars
            \/ /\ inner_labels[h][InnerLabel(h, label).index] # None
               /\ Fail(t, "LabelAlreadyBound")

trampoline_jump(t) ==
    \/ Invalid(t)    \* null trampoline, unknown condition, unknown label
    \/ /\ Builds(t)
       /\ LET h == trampoline[t] IN
          \E label \in {l \in 0 .. MaxLabels : lookup_label(h, l)} :
            \/ Inner!jump_to(h, InnerLabel(h, label))
            \/ Inner!jump_if(h, InnerLabel(h, label))
       /\ UNCHANGED labelVars
-----------------------------------------------------------------------------
(* Modules: ProcessModule::main and resolve_rva.                           *)

resolve_rva(base, rva) ==
    IF checked_add(base, rva) = None THEN "AddressOverflow" ELSE "Ok"

module_query(t) ==
    /\ Idle(t)
    /\ \/ \E error \in {"ModuleLookup", "Ok", "Invalid"} : Fail(t, error)
       \/ \E base, rva \in Address : Fail(t, resolve_rva(base, rva))
-----------------------------------------------------------------------------
Next ==
    \E t \in Threads :
        \/ session_create(t) \/ session_destroy(t)
        \/ session_overwrite(t) \/ session_detour(t)
        \/ session_detour_trampoline(t)
        \/ session_install_permanently(t) \/ InstallStep(t) \/ InstallReturn(t)
        \/ trampoline_create(t) \/ trampoline_destroy(t)
        \/ trampoline_length(t) \/ trampoline_append(t)
        \/ trampoline_preserved_call(t)
        \/ trampoline_new_label(t) \/ trampoline_bind(t) \/ trampoline_jump(t)
        \/ module_query(t)
        \/ \E u \in Threads : HandOver(t, u)

Spec == Init /\ [][Next]_vars
-----------------------------------------------------------------------------
(* Properties.                                                             *)

(* The variables and running calls that refer to h. *)
Owners(h) ==
    {<<"session", t>> : t \in {u \in Threads : session[u] = h}}
    \cup {<<"trampoline", t>> : t \in {u \in Threads : trampoline[u] = h}}
    \cup {<<"install", t>> : t \in {u \in Threads : installing[u] = h}}

(***************************************************************************)
(* A live allocation is referred to by exactly one pointer variable or     *)
(* installing call, a freed one by none, whatever failed in between: a C   *)
(* program that follows patchy.h neither leaks a handle nor frees one      *)
(* twice, also while an installation runs and after it failed or panicked  *)
(* (lib.rs 252-283, 437-460, 500-534).                                     *)
(***************************************************************************)
HandlesHaveOneOwner ==
    \A h \in Handles :
        Cardinality(Owners(h)) = IF box[h] = "live" THEN 1 ELSE 0

(***************************************************************************)
(* A handle a caller holds is a session that can still be used: it was     *)
(* neither dropped nor installed (install consumes it, lib.rs 447-458).    *)
(***************************************************************************)
HeldSessionsAreOpen ==
    \A t \in Threads : session[t] # NULL => phase[session[t]] = "open"

(***************************************************************************)
(* A thread between calls finds the message of its own latest call, empty  *)
(* if it succeeded, whatever other threads' calls fail at meanwhile and    *)
(* whichever thread prepared the session (lib.rs 109-143).                 *)
(***************************************************************************)
MessageMatchesStatus ==
    \A t \in Threads : Idle(t) => status_of(last_error[t]) = status[t]

(***************************************************************************)
(* What a caller may conclude from the status of an installation, although *)
(* errors are merged into fewer statuses: Ok and Panic mean that every     *)
(* patch is permanent; AllocationFailed, SourceChanged and                 *)
(* OverlappingPatch that none is.  The others say neither (lib.rs 80-107). *)
(***************************************************************************)
StatusTellsInstalled ==
    [][\A t \in Threads :
         LET s == installing[t] IN
         ~Idle(t) /\ installing'[t] = NULL =>
            /\ status'[t] \in {"Ok", "Panic"} => phase'[s] = "installed"
            /\ status'[t] \in {"AllocationFailed", "SourceChanged",
                               "OverlappingPatch"} =>
                 phase'[s] = "refused"]_vars

(***************************************************************************)
(* The number a caller got for a label names the label created for it, and *)
(* no other caller's, also after calls that created a label and failed     *)
(* (lib.rs 581-595).                                                       *)
(***************************************************************************)
NumbersNameTheirLabels ==
    \A h \in Trampolines : \A g \in given[h] :
        /\ lookup_label(h, g.number)
        /\ InnerLabel(h, g.number).index = g.label
        /\ \A f \in given[h] : f.number = g.number => f = g

(***************************************************************************)
(* A call that fails leaves the caller's session and the instructions,     *)
(* branches and positions of its trampoline as they were (a failed         *)
(* new_label may add a label nobody can name); a session call leaves the   *)
(* trampoline it borrows alone even when it succeeds (lib.rs 400-424).     *)
(***************************************************************************)
FailedCallsChangeNothing ==
    [][\A t \in Threads :
         /\ session[t] # NULL /\ status'[t] # "Ok" =>
              patches'[session[t]] = patches[session[t]]
         /\ LET h == trampoline[t] IN
            h # NULL /\ (status'[t] # "Ok" \/ patches' # patches) =>
              /\ UNCHANGED <<code[h], relative_fixups[h]>>
              /\ \A i \in DOMAIN inner_labels[h] :
                   inner_labels'[h][i] = inner_labels[h][i]]_vars
=============================================================================
