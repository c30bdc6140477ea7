---------------------------- MODULE GeneratedCall ----------------------------
(***************************************************************************)
(* The code that calls a callback from a trampoline (src/src/arch.rs),     *)
(* executed instruction by instruction: build_call, for patch_call, and    *)
(* push_preserved_call, for Trampoline::preserved_call.                    *)
(*                                                                         *)
(* The stack is counted in words of eight bytes from where RSP points when *)
(* the code is entered, which is taken to be aligned to two words.  A      *)
(* register holds the name of the register whose value at the entry it     *)
(* has, or "callback" or "caller" for what those left there; a word of the *)
(* stack holds a whole value (part 0) or one half of an XMM register.  The *)
(* callback obeys the Windows x64 ABI: it may change every volatile        *)
(* register, the flags, the words below RSP, and its home area, the four   *)
(* words above its return address.                                         *)
(***************************************************************************)
EXTENDS Integers, Sequences

CONSTANTS
    Forms,          \* which of the two generators are looked at
    HomeUses        \* for each form, the parts of its home area that the
                    \* callback may write

Generators == {"build_call", "push_preserved_call"}
ReturnType == {"None", "Rax", "Xmm0"}
HomeArea == 0 .. 3

ASSUME CallAssumption ==
    /\ Forms \subseteq Generators
    /\ HomeUses \in [Generators -> SUBSET SUBSET HomeArea]

VARIABLES
    form, allow_return,     \* which code is run
    ip,                     \* the position of the next instruction
    regs,                   \* the volatile registers
    rsp,                    \* in words; 0 at entry
    stack,                  \* the words below the entry
    flags                   \* who set the flags last

vars == <<form, allow_return, ip, regs, rsp, stack, flags>>

Integer == {"RAX", "RCX", "RDX", "R8", "R9", "R10", "R11"}
Xmm == <<"XMM0", "XMM1", "XMM2", "XMM3", "XMM4", "XMM5">>
Volatile == Integer \cup {Xmm[i] : i \in 1 .. 6}
Words == -40 .. -1
-----------------------------------------------------------------------------
(* Instructions.                                                           *)

Push(r) == [op |-> "push", reg |-> r]
Pop(r) == [op |-> "pop", reg |-> r]
(* ADD and SUB set the flags, LEA leaves them. *)
Add(words) == [op |-> "add", words |-> words]
(* Mutant: the flags are forgotten. *)
LeaAsAdd(words) == Add(words)
Lea(words) == [op |-> "lea", words |-> words]
(* MOVDQU to and from two words at RSP + at. *)
Store(r, at) == [op |-> "store", reg |-> r, at |-> at]
Load(r, at) == [op |-> "load", reg |-> r, at |-> at]
Call == [op |-> "call"]
(* The caller's own bytes. *)
ArgumentSetup == [op |-> "argument_setup"]
ResultHandling == [op |-> "result_handling"]

When(condition, code) == IF condition THEN code ELSE <<>>
Pushes(rs) == [i \in DOMAIN rs |-> Push(rs[i])]
Pops(rs) == [i \in DOMAIN rs |-> Pop(rs[Len(rs) + 1 - i])]
(* XMM registers first .. 5, in consecutive slots from word at. *)
Stores(first, at) ==
    [i \in 1 .. 6 - first |-> Store(Xmm[first + i], at + 2 * (i - 1))]
Loads(first, at) ==
    [i \in 1 .. 6 - first |-> Load(Xmm[first + i], at + 2 * (i - 1))]

SaveRegisters ==
    Pushes(<<"RCX", "RDX", "R8", "R9", "R10", "R11">>) \o <<Add(-12)>>
      \o Stores(1, 2)
LoadRegisters ==
    Loads(1, 2) \o <<Add(12)>>
      \o Pops(<<"RCX", "RDX", "R8", "R9", "R10", "R11">>)

build_call(allow) ==
    LET needs_alignment == allow # "Rax"
        saves_xmm0 == allow # "Xmm0"
    IN When(needs_alignment, <<Push("RAX")>>)
       \o SaveRegisters
       \o When(needs_alignment, <<Add(-1)>>)
       \o When(saves_xmm0, <<Store("XMM0", 0)>>)
       \o <<Call>>
       \o When(saves_xmm0, <<Load("XMM0", 0)>>)
       \o When(needs_alignment, <<Add(1)>>)
       \o LoadRegisters
       \o When(needs_alignment, <<Pop("RAX")>>)

PreservedOrder == <<"RAX", "RCX", "RDX", "R8", "R9", "R10", "R11">>
(* Mutant: no padding. *)
frame_without_padding == 16
(* Words reserved below the pushes: home area, six XMM slots, padding. *)
preserved_frame == 17
(* Mutant: the slots begin where the callback's home area is. *)
slots_at_rsp == 0
(* The first XMM slot. *)
preserved_slots == 4

(* Mutant: the bytes of the displacement are taken for words. *)
discard_too_much(allow) == IF allow = "Rax" THEN <<Lea(8)>> ELSE <<Pop("RAX")>>
(* The last word: the saved RAX is dropped when RAX is the result. *)
restore_or_discard_rax(allow) ==
    IF allow = "Rax" THEN <<Lea(1)>> ELSE <<Pop("RAX")>>

push_preserved_call(allow) ==
    Pushes(PreservedOrder)
    \o <<Add(-preserved_frame)>>
    \o Stores(0, preserved_slots)
    \o <<ArgumentSetup, Call, ResultHandling>>
    \o When(allow # "Xmm0", <<Load("XMM0", preserved_slots)>>)
    \o Loads(1, preserved_slots + 2)
    \o <<Lea(preserved_frame)>>
    \o Pops(SubSeq(PreservedOrder, 2, 7))
    \o restore_or_discard_rax(allow)

code == IF form = "build_call" THEN build_call(allow_return)
        ELSE push_preserved_call(allow_return)
-----------------------------------------------------------------------------
(* Execution.                                                              *)

Values == Volatile \cup {"callback", "caller", "torn"}
Word(v, part) == [value |-> v, part |-> part]
ReturnRegister == IF allow_return = "Rax" THEN "RAX" ELSE "XMM0"

TypeOK ==
    /\ form \in Forms
    /\ allow_return \in ReturnType
    /\ ip \in Nat
    /\ regs \in [Volatile -> Values]
    /\ rsp \in Words \cup {0}
    /\ stack \in [Words -> [value : Values, part : 0 .. 2]]
    /\ flags \in {"entry", "arithmetic", "callback", "result_handling"}

Init ==
    /\ form \in Forms
    /\ allow_return \in ReturnType
    /\ ip = 1
    /\ regs = [r \in Volatile |-> r]
    /\ rsp = 0
    /\ stack = [w \in Words |-> Word("caller", 0)]
    /\ flags = "entry"

Fetch(op) ==
    /\ ip \in DOMAIN code
    /\ code[ip].op = op
    /\ ip' = ip + 1
    /\ UNCHANGED <<form, allow_return>>

ExecPush ==
    /\ Fetch("push")
    /\ rsp' = rsp - 1
    /\ stack' = [stack EXCEPT ![rsp - 1] = Word(regs[code[ip].reg], 0)]
    /\ UNCHANGED <<regs, flags>>

ExecPop ==
    /\ Fetch("pop")
    /\ rsp' = rsp + 1
    /\ regs' = [regs EXCEPT ![code[ip].reg] =
                  IF stack[rsp].part = 0 THEN stack[rsp].value ELSE "torn"]
    /\ UNCHANGED <<stack, flags>>

ExecAdd ==
    /\ Fetch("add")
    /\ rsp' = rsp + code[ip].words
    /\ flags' = "arithmetic"
    /\ UNCHANGED <<regs, stack>>

ExecLea ==
    /\ Fetch("lea")
    /\ rsp' = rsp + code[ip].words
    /\ UNCHANGED <<regs, stack, flags>>

ExecStore ==
    /\ Fetch("store")
    /\ LET w == rsp + code[ip].at
           v == regs[code[ip].reg]
       IN stack' = [stack EXCEPT ![w] = Word(v, 1), ![w + 1] = Word(v, 2)]
    /\ UNCHANGED <<regs, rsp, flags>>

ExecLoad ==
    /\ Fetch("load")
    /\ LET w == rsp + code[ip].at
           v == stack[w].value
       IN regs' = [regs EXCEPT ![code[ip].reg] =
                     IF stack[w] = Word(v, 1) /\ stack[w + 1] = Word(v, 2)
                     THEN v ELSE "torn"]
    /\ UNCHANGED <<rsp, stack, flags>>

(* The callback runs and returns. *)
ExecCall ==
    /\ Fetch("call")
    /\ regs' = [r \in Volatile |-> "callback"]
    /\ \E home \in HomeUses[form] :
         stack' = [w \in Words |->
                     IF w < rsp \/ w - rsp \in home THEN Word("callback", 0)
                     ELSE stack[w]]
    /\ flags' = "callback"
    /\ UNCHANGED rsp

(* The bytes callers supply may change every volatile register. *)
ExecArgumentSetup ==
    /\ Fetch("argument_setup")
    /\ regs' = [r \in Volatile |-> "caller"]
    /\ flags' = "arithmetic"
    /\ UNCHANGED <<rsp, stack>>

(* They keep a result that is to be returned, and may decide in the flags. *)
ExecResultHandling ==
    /\ Fetch("result_handling")
    /\ regs' = [r \in Volatile |->
                  IF allow_return # "None" /\ r = ReturnRegister
                  THEN regs[r]
                  ELSE "caller"]
    /\ flags' = "result_handling"
    /\ UNCHANGED <<rsp, stack>>

Finished == ip > Len(code) /\ UNCHANGED vars

Next ==
    \/ ExecPush \/ ExecPop \/ ExecAdd \/ ExecLea \/ ExecStore \/ ExecLoad
    \/ ExecCall \/ ExecArgumentSetup \/ ExecResultHandling
    \/ Finished

Spec == Init /\ [][Next]_vars
-----------------------------------------------------------------------------
(* Properties.                                                             *)

(***************************************************************************)
(* After the code every volatile register has the value it was entered     *)
(* with, except that the return register the caller chose has the          *)
(* callback's result, and RSP is back: what is saved is restored from      *)
(* where it was saved, in each of the three variants of both generators    *)
(* (arch.rs 50-148).  In a preserved call the callback cannot reach what   *)
(* is saved; in build_call it can, and this holds only for callbacks that  *)
(* leave their home area alone (HomeUses; see PreservesBoth).              *)
(***************************************************************************)
StateRestored ==
    ip > Len(code) =>
        /\ rsp = 0
        /\ \A r \in Volatile :
             regs[r] = IF allow_return # "None" /\ r = ReturnRegister
                       THEN "callback"
                       ELSE r

(***************************************************************************)
(* RSP is aligned to 16 bytes at every call, whatever was pushed before it *)
(* (arch.rs 5-8 and 101-104).                                              *)
(***************************************************************************)
CallIsAligned ==
    ip \in DOMAIN code /\ code[ip].op = "call" => rsp % 2 = 0

(***************************************************************************)
(* The decision that result_handling left in the flags is still there when *)
(* a conditional jump after the preserved call reads it (trampoline.rs     *)
(* 158-161, arch.rs 118-144).                                              *)
(***************************************************************************)
DecisionSurvives ==
    ip > Len(code) /\ form = "push_preserved_call" =>
        flags = "result_handling"

(***************************************************************************)
(* "Preserve both RAX and XMM0", as ReturnType::None says (lib.rs 33).     *)
(***************************************************************************)
PreservesBoth ==
    ip > Len(code) /\ allow_return = "None" =>
        regs["RAX"] = "RAX" /\ regs["XMM0"] = "XMM0"
=============================================================================
