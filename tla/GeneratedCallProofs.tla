------------------------ MODULE GeneratedCallProofs ------------------------
(***************************************************************************)
(* Theorems about the generated calls, for every use a callback may make   *)
(* of its home area.  The code of both generators is laid out alike:       *)
(* pushes, room on the stack, stores, the call, loads, the room given      *)
(* back, pops.  The lemmas of the first part find the instruction at each  *)
(* position; the invariant then speaks of positions only.                  *)
(***************************************************************************)
EXTENDS GeneratedCall, SequenceTheorems, TLAPS

Instruction ==
    {Call, ArgumentSetup, ResultHandling}
    \cup [op : {"push", "pop"}, reg : Volatile]
    \cup [op : {"add", "lea"}, words : Int]
    \cup [op : {"store", "load"}, reg : Volatile, at : Int]

(* The instructions of part come in c after the first n. *)
At(c, n, part) == \A j \in 1 .. Len(part) : c[n + j] = part[j]

LEMMA AtJoined ==
    ASSUME NEW c, NEW n \in Nat,
           NEW p \in Seq(Instruction), NEW q \in Seq(Instruction),
           At(c, n, p \o q)
    PROVE  /\ At(c, n, p) /\ At(c, n + Len(p), q)
           /\ n + Len(p) \in Nat
<1>1. /\ Len(p) \in Nat /\ Len(q) \in Nat
      /\ Len(p \o q) = Len(p) + Len(q)
      /\ \A j \in 1 .. Len(p) : (p \o q)[j] = p[j]
      /\ \A j \in 1 .. Len(q) : (p \o q)[Len(p) + j] = q[j]
  OBVIOUS
<1>2. At(c, n, p)
  BY <1>1 DEF At
<1>3. ASSUME NEW j \in 1 .. Len(q)
      PROVE  c[(n + Len(p)) + j] = q[j]
  <2>1. Len(p) + j \in 1 .. Len(p \o q)
    BY <1>1
  <2>2. c[n + (Len(p) + j)] = q[j]
    BY <1>1, <2>1 DEF At
  <2>3. n + (Len(p) + j) = (n + Len(p)) + j
    BY <1>1
  <2>. QED  BY <2>2, <2>3
<1>. QED  BY <1>1, <1>2, <1>3 DEF At

LEMMA Concatenated ==
    ASSUME NEW p \in Seq(Instruction), NEW q \in Seq(Instruction)
    PROVE  p \o q \in Seq(Instruction) /\ Len(p \o q) = Len(p) + Len(q)
OBVIOUS

LEMMA Listed ==
    \A m \in Nat : \A f \in [1 .. m -> Instruction] :
        f \in Seq(Instruction) /\ Len(f) = m
OBVIOUS

Integers6 == <<"RCX", "RDX", "R8", "R9", "R10", "R11">>

(* The parts that the generators are put together from. *)
LEMMA Parts ==
    /\ \A i \in Instruction : <<i>> \in Seq(Instruction) /\ Len(<<i>>) = 1
    /\ <<>> \in Seq(Instruction) /\ Len(<<>>) = 0
    /\ Pushes(Integers6) = [j \in 1 .. 6 |-> Push(Integers6[j])]
    /\ Pops(Integers6) = [j \in 1 .. 6 |-> Pop(Integers6[7 - j])]
    /\ Pushes(PreservedOrder) = [j \in 1 .. 7 |-> Push(PreservedOrder[j])]
    /\ SubSeq(PreservedOrder, 2, 7) = Integers6
<1>1. DOMAIN Integers6 = 1 .. 6 /\ Len(Integers6) = 6
  BY DEF Integers6
<1>2. DOMAIN PreservedOrder = 1 .. 7
  BY DEF PreservedOrder
<1>3. Pushes(Integers6) = [j \in 1 .. 6 |-> Push(Integers6[j])]
  BY <1>1 DEF Pushes
<1>4. Pops(Integers6) = [j \in 1 .. 6 |-> Pop(Integers6[7 - j])]
  BY <1>1 DEF Pops
<1>5. Pushes(PreservedOrder) = [j \in 1 .. 7 |-> Push(PreservedOrder[j])]
  BY <1>2 DEF Pushes
<1>6. SubSeq(PreservedOrder, 2, 7) = Integers6
  <2>1. PreservedOrder \in Seq(Volatile) /\ Len(PreservedOrder) = 7
    BY DEF PreservedOrder, Volatile, Integer
  <2>2. Integers6 \in Seq(Volatile)
    BY DEF Integers6, Volatile, Integer
  <2>3. \A k \in 1 .. 6 : Integers6[k] = PreservedOrder[2 + k - 1]
    BY DEF Integers6, PreservedOrder
  <2>. DEFINE part == SubSeq(PreservedOrder, 2, 7)
  <2>4. /\ part \in Seq(Volatile) /\ Len(part) = 6
        /\ \A k \in 1 .. 6 : part[k] = PreservedOrder[2 + k - 1]
    <3>1. \A k \in 2 .. 7 : PreservedOrder[k] \in Volatile
      BY DEF PreservedOrder, Volatile, Integer
    <3>. QED  BY <2>1, <3>1, SubSeqProperties
  <2>. HIDE DEF part
  <2>. QED  BY <1>1, <2>2, <2>3, <2>4, SeqEqual
<1>. QED  BY <1>3, <1>4, <1>5, <1>6
-----------------------------------------------------------------------------
(* Where everything is.  Positions count instructions, as ip does.         *)

IsBuildCall == form = "build_call"
A == IF IsBuildCall /\ allow_return = "Rax" THEN 0 ELSE 1   \* is RAX pushed?
Z == IF allow_return = "Xmm0" THEN 0 ELSE 1                 \* is XMM0 loaded?
Frame == IF IsBuildCall THEN 12 ELSE 17
CallAt == IF IsBuildCall THEN 2 * A + 13 + Z ELSE 16
(* The words of the frame are given back. *)
UndoAt == IF IsBuildCall THEN 3 * A + 2 * Z + 19 ELSE 23 + Z
Last == UndoAt + 6 + A

(* The XMM registers, from 0 to 5. *)
Saved(i) == IsBuildCall => i > 0 \/ Z = 1
Loaded(i) == i > 0 \/ Z = 1
SaveAt(i) == IF IsBuildCall THEN IF i = 0 THEN 2 * A + 13 ELSE A + 7 + i
             ELSE 9 + i
LoadAt(i) == IF IsBuildCall THEN IF i = 0 THEN CallAt + 1 ELSE CallAt + Z + A + i
             ELSE 17 + Z + i
Offset(i) == IF IsBuildCall THEN 2 * i ELSE 4 + 2 * i

(* The instruction at ip. *)
IsPush == \E j \in 0 .. 6 : /\ j > 0 \/ A = 1
                            /\ ip = A + j
                            /\ code[ip] = Push(PreservedOrder[j + 1])
IsReserve == ip = A + 7 /\ code[ip] = Add(-Frame)
IsStore == \E i \in 0 .. 5 : /\ Saved(i)
                             /\ ip = SaveAt(i)
                             /\ code[ip] = Store(Xmm[i + 1], Offset(i))
IsPad == IsBuildCall /\ A = 1 /\ ip = 14 /\ code[ip] = Add(-1)
IsArgumentSetup == ~IsBuildCall /\ ip = 15 /\ code[ip] = ArgumentSetup
IsCall == ip = CallAt /\ code[ip] = Call
IsResultHandling == ~IsBuildCall /\ ip = 17 /\ code[ip] = ResultHandling
IsLoad == \E i \in 0 .. 5 : /\ Loaded(i)
                            /\ ip = LoadAt(i)
                            /\ code[ip] = Load(Xmm[i + 1], Offset(i))
IsUnpad == IsBuildCall /\ A = 1 /\ ip = CallAt + Z + 1 /\ code[ip] = Add(1)
IsUndo == ip = UndoAt /\ code[ip] = IF IsBuildCall THEN Add(12) ELSE Lea(17)
IsPop == \E j \in 0 .. 6 : /\ j > 0 \/ allow_return # "Rax"
                           /\ ip = UndoAt + 7 - j
                           /\ code[ip] = Pop(PreservedOrder[j + 1])
IsDiscard == /\ ~IsBuildCall /\ allow_return = "Rax"
             /\ ip = UndoAt + 7 /\ code[ip] = Lea(1)

AnyInstruction ==
    \/ IsPush \/ IsReserve \/ IsStore \/ IsPad \/ IsArgumentSetup \/ IsCall
    \/ IsResultHandling \/ IsLoad \/ IsUnpad \/ IsUndo \/ IsPop \/ IsDiscard

LEMMA PartsAt ==
    ASSUME NEW c, NEW n \in Nat
    PROVE  /\ \A i \in Instruction : At(c, n, <<i>>) => c[n + 1] = i
           /\ At(c, n, Pushes(Integers6)) =>
                \A j \in 1 .. 6 : c[n + j] = Push(Integers6[j])
           /\ At(c, n, Pops(Integers6)) =>
                \A j \in 1 .. 6 : c[n + j] = Pop(Integers6[7 - j])
           /\ At(c, n, Pushes(PreservedOrder)) =>
                \A j \in 1 .. 7 : c[n + j] = Push(PreservedOrder[j])
<1>1. \A i \in Instruction : At(c, n, <<i>>) => c[n + 1] = i
  BY Parts DEF At
<1>2. At(c, n, Pushes(Integers6)) =>
        \A j \in 1 .. 6 : c[n + j] = Push(Integers6[j])
  <2>1. Pushes(Integers6) = [j \in 1 .. 6 |-> Push(Integers6[j])]
    BY Parts
  <2>2. Len(Pushes(Integers6)) = 6
    BY <2>1
  <2>. QED  BY <2>1, <2>2 DEF At
<1>3. At(c, n, Pops(Integers6)) =>
        \A j \in 1 .. 6 : c[n + j] = Pop(Integers6[7 - j])
  <2>1. Pops(Integers6) = [j \in 1 .. 6 |-> Pop(Integers6[7 - j])]
    BY Parts
  <2>2. Len(Pops(Integers6)) = 6
    BY <2>1
  <2>. QED  BY <2>1, <2>2 DEF At
<1>4. At(c, n, Pushes(PreservedOrder)) =>
        \A j \in 1 .. 7 : c[n + j] = Push(PreservedOrder[j])
  <2>1. Pushes(PreservedOrder) = [j \in 1 .. 7 |-> Push(PreservedOrder[j])]
    BY Parts
  <2>2. Len(Pushes(PreservedOrder)) = 7
    BY <2>1
  <2>. QED  BY <2>1, <2>2 DEF At
<1>. QED  BY <1>1, <1>2, <1>3, <1>4

(* The parts that the generators are put together from, one kind at a time. *)
LEMMA Pieces ==
    /\ Pushes(Integers6) \in Seq(Instruction) /\ Len(Pushes(Integers6)) = 6
    /\ Pops(Integers6) \in Seq(Instruction) /\ Len(Pops(Integers6)) = 6
    /\ Pushes(PreservedOrder) \in Seq(Instruction)
    /\ Len(Pushes(PreservedOrder)) = 7
    /\ \A v \in Volatile :
         /\ <<Push(v)>> \in Seq(Instruction) /\ <<Pop(v)>> \in Seq(Instruction)
         /\ \A k \in Int : /\ <<Store(v, k)>> \in Seq(Instruction)
                           /\ <<Load(v, k)>> \in Seq(Instruction)
    /\ \A k \in Int :
         <<Add(k)>> \in Seq(Instruction) /\ <<Lea(k)>> \in Seq(Instruction)
    /\ <<Call>> \in Seq(Instruction)
    /\ <<ArgumentSetup, Call, ResultHandling>> \in Seq(Instruction)
<1>1. \A v \in Volatile, k \in Int :
         /\ Push(v) \in Instruction /\ Pop(v) \in Instruction
         /\ Add(k) \in Instruction /\ Lea(k) \in Instruction
         /\ Store(v, k) \in Instruction /\ Load(v, k) \in Instruction
  BY DEF Instruction, Push, Pop, Add, Lea, Store, Load
<1>2. \A j \in 1 .. 6 : Integers6[j] \in Volatile /\ Integers6[7 - j] \in Volatile
  BY DEF Integers6, Volatile, Integer
<1>3. \A j \in 1 .. 7 : PreservedOrder[j] \in Volatile
  BY DEF PreservedOrder, Volatile, Integer
<1>4. Pushes(Integers6) \in [1 .. 6 -> Instruction]
  BY <1>1, <1>2, Parts
<1>5. Pops(Integers6) \in [1 .. 6 -> Instruction]
  BY <1>1, <1>2, Parts
<1>6. Pushes(PreservedOrder) \in [1 .. 7 -> Instruction]
  BY <1>1, <1>3, Parts
<1>7. {Call, ArgumentSetup, ResultHandling} \subseteq Instruction
  BY DEF Instruction
<1>8. <<ArgumentSetup, Call, ResultHandling>> \in Seq(Instruction)
  BY <1>7
<1>9. /\ \A v \in Volatile :
           /\ Push(v) \in Instruction /\ Pop(v) \in Instruction
           /\ \A k \in Int : /\ Store(v, k) \in Instruction
                             /\ Load(v, k) \in Instruction
      /\ \A k \in Int : Add(k) \in Instruction /\ Lea(k) \in Instruction
  BY DEF Instruction, Push, Pop, Add, Lea, Store, Load
<1>10. \A i \in Instruction : <<i>> \in Seq(Instruction)
  BY Parts
<1>11. Call \in Instruction
  BY <1>7
<1>12. /\ Pushes(Integers6) \in Seq(Instruction) /\ Len(Pushes(Integers6)) = 6
       /\ Pops(Integers6) \in Seq(Instruction) /\ Len(Pops(Integers6)) = 6
       /\ Pushes(PreservedOrder) \in Seq(Instruction)
       /\ Len(Pushes(PreservedOrder)) = 7
  BY <1>4, <1>5, <1>6, Listed
<1>. QED  BY <1>8, <1>9, <1>10, <1>11, <1>12, Zenon

(* XMM1 to XMM5 of build_call, and the slots of preserved_call. *)
LEMMA Slots ==
    /\ Stores(1, 2) \in Seq(Instruction) /\ Len(Stores(1, 2)) = 5
    /\ \A i \in 1 .. 5 : Stores(1, 2)[i] = Store(Xmm[i + 1], 2 * i)
    /\ Loads(1, 2) \in Seq(Instruction) /\ Len(Loads(1, 2)) = 5
    /\ \A i \in 1 .. 5 : Loads(1, 2)[i] = Load(Xmm[i + 1], 2 * i)
    /\ Stores(0, 4) \in Seq(Instruction) /\ Len(Stores(0, 4)) = 6
    /\ \A i \in 1 .. 6 : Stores(0, 4)[i] = Store(Xmm[i], 2 * i + 2)
    /\ Loads(1, 6) \in Seq(Instruction) /\ Len(Loads(1, 6)) = 5
    /\ \A i \in 1 .. 5 : Loads(1, 6)[i] = Load(Xmm[i + 1], 2 * i + 4)
<1>1. \A i \in 1 .. 6 : Xmm[i] \in Volatile
  BY DEF Volatile
<1>2. \A v \in Volatile, k \in Int :
         Store(v, k) \in Instruction /\ Load(v, k) \in Instruction
  BY DEF Instruction, Store, Load
<1>3. \A first \in 0 .. 1, at \in Nat :
        /\ Stores(first, at) \in [1 .. 6 - first -> Instruction]
        /\ Loads(first, at) \in [1 .. 6 - first -> Instruction]
        /\ \A i \in 1 .. 6 - first :
             /\ Stores(first, at)[i] = Store(Xmm[first + i], at + 2 * (i - 1))
             /\ Loads(first, at)[i] = Load(Xmm[first + i], at + 2 * (i - 1))
  <2>. SUFFICES ASSUME NEW first \in 0 .. 1, NEW at \in Nat
                PROVE  /\ Stores(first, at) \in [1 .. 6 - first -> Instruction]
                       /\ Loads(first, at) \in [1 .. 6 - first -> Instruction]
    BY DEF Stores, Loads
  <2>1. \A i \in 1 .. 6 - first :
          Xmm[first + i] \in Volatile /\ at + 2 * (i - 1) \in Int
    BY <1>1
  <2>2. \A i \in 1 .. 6 - first :
          /\ Store(Xmm[first + i], at + 2 * (i - 1)) \in Instruction
          /\ Load(Xmm[first + i], at + 2 * (i - 1)) \in Instruction
    BY <1>2, <2>1, Zenon
  <2>. QED  BY <2>2, Zenon DEF Stores, Loads
<1>4. \A i \in 1 .. 6 : /\ 2 + 2 * (i - 1) = 2 * i
                       /\ 4 + 2 * (i - 1) = 2 * i + 2
                       /\ 6 + 2 * (i - 1) = 2 * i + 4
                       /\ 1 + i = i + 1 /\ 0 + i = i
  OBVIOUS
<1>5. /\ Stores(1, 2) \in [1 .. 5 -> Instruction]
      /\ Loads(1, 2) \in [1 .. 5 -> Instruction]
      /\ Stores(0, 4) \in [1 .. 6 -> Instruction]
      /\ Loads(1, 6) \in [1 .. 5 -> Instruction]
  <2>1. 6 - 1 = 5 /\ 6 - 0 = 6
    OBVIOUS
  <2>2. 0 \in 0 .. 1 /\ 1 \in 0 .. 1 /\ {2, 4, 6} \subseteq Nat
    OBVIOUS
  <2>. QED  BY <1>3, <2>1, <2>2
<1>6. /\ \A i \in 1 .. 5 : Stores(1, 2)[i] = Store(Xmm[i + 1], 2 * i)
      /\ \A i \in 1 .. 5 : Loads(1, 2)[i] = Load(Xmm[i + 1], 2 * i)
      /\ \A i \in 1 .. 6 : Stores(0, 4)[i] = Store(Xmm[i], 2 * i + 2)
      /\ \A i \in 1 .. 5 : Loads(1, 6)[i] = Load(Xmm[i + 1], 2 * i + 4)
  BY <1>4 DEF Stores, Loads
<1>. QED  BY <1>5, <1>6, Listed

LEMMA SaveParts ==
    /\ SaveRegisters \in Seq(Instruction) /\ Len(SaveRegisters) = 12
    /\ \A n \in Nat : \A c : At(c, n, SaveRegisters) =>
         /\ \A j \in 1 .. 6 : c[n + j] = Push(Integers6[j])
         /\ c[n + 7] = Add(-12)
         /\ \A i \in 1 .. 5 : c[n + 7 + i] = Store(Xmm[i + 1], 2 * i)
<1>. DEFINE p == Pushes(Integers6)
            q == <<Add(-12)>>
            r == Stores(1, 2)
<1>1. p \in Seq(Instruction) /\ Len(p) = 6
  BY Pieces
<1>2. q \in Seq(Instruction) /\ Len(q) = 1 /\ q[1] = Add(-12)
  <2>1. -12 \in Int
    OBVIOUS
  <2>. QED  BY <2>1, Pieces
<1>3. /\ r \in Seq(Instruction) /\ Len(r) = 5
      /\ \A i \in 1 .. 5 : r[i] = Store(Xmm[i + 1], 2 * i)
  BY Slots
<1>4. SaveRegisters = (p \o q) \o r
  BY DEF SaveRegisters, Integers6
<1>5. \A n \in Nat : \A c : At(c, n, p) => \A j \in 1 .. 6 : c[n + j] = Push(Integers6[j])
  BY PartsAt
<1>. HIDE DEF p, q, r
<1>6. p \o q \in Seq(Instruction) /\ Len(p \o q) = 7
  <2>1. p \o q \in Seq(Instruction) /\ Len(p \o q) = Len(p) + Len(q)
    BY <1>1, <1>2, Concatenated
  <2>. QED  BY <1>1, <1>2, <2>1
<1>7. SaveRegisters \in Seq(Instruction) /\ Len(SaveRegisters) = 12
  <2>1. /\ (p \o q) \o r \in Seq(Instruction)
        /\ Len((p \o q) \o r) = Len(p \o q) + Len(r)
    BY <1>3, <1>6, Concatenated
  <2>. QED  BY <1>3, <1>4, <1>6, <2>1
<1>8. ASSUME NEW n \in Nat, NEW c, At(c, n, SaveRegisters)
      PROVE  /\ \A j \in 1 .. 6 : c[n + j] = Push(Integers6[j])
             /\ c[n + 7] = Add(-12)
             /\ \A i \in 1 .. 5 : c[n + 7 + i] = Store(Xmm[i + 1], 2 * i)
  <2>1. At(c, n, p \o q) /\ At(c, n + 7, r)
    BY <1>3, <1>4, <1>6, <1>8, AtJoined
  <2>2. At(c, n, p) /\ At(c, n + 6, q)
    BY <1>1, <1>2, <2>1, AtJoined
  <2>3. c[n + 7] = q[1]
    <3>1. c[(n + 6) + 1] = q[1] /\ (n + 6) + 1 = n + 7
      BY <1>2, <2>2 DEF At
    <3>. QED  BY <3>1
  <2>4. \A i \in 1 .. 5 : c[n + 7 + i] = r[i]
    BY <1>3, <2>1 DEF At
  <2>. QED  BY <1>2, <1>3, <1>5, <2>2, <2>3, <2>4
<1>. QED  BY <1>7, <1>8

LEMMA LoadParts ==
    /\ LoadRegisters \in Seq(Instruction) /\ Len(LoadRegisters) = 12
    /\ \A n \in Nat : \A c : At(c, n, LoadRegisters) =>
         /\ \A i \in 1 .. 5 : c[n + i] = Load(Xmm[i + 1], 2 * i)
         /\ c[n + 6] = Add(12)
         /\ \A j \in 1 .. 6 : c[n + 6 + j] = Pop(Integers6[7 - j])
<1>. DEFINE p == Loads(1, 2)
            q == <<Add(12)>>
            r == Pops(Integers6)
<1>1. /\ p \in Seq(Instruction) /\ Len(p) = 5
      /\ \A i \in 1 .. 5 : p[i] = Load(Xmm[i + 1], 2 * i)
  BY Slots
<1>2. q \in Seq(Instruction) /\ Len(q) = 1 /\ q[1] = Add(12)
  <2>1. 12 \in Int
    OBVIOUS
  <2>. QED  BY <2>1, Pieces
<1>3. r \in Seq(Instruction) /\ Len(r) = 6
  BY Pieces
<1>4. LoadRegisters = (p \o q) \o r
  BY DEF LoadRegisters, Integers6
<1>5. \A n \in Nat : \A c : At(c, n, r) => \A j \in 1 .. 6 : c[n + j] = Pop(Integers6[7 - j])
  BY PartsAt
<1>. HIDE DEF p, q, r
<1>6. p \o q \in Seq(Instruction) /\ Len(p \o q) = 6
  <2>1. p \o q \in Seq(Instruction) /\ Len(p \o q) = Len(p) + Len(q)
    BY <1>1, <1>2, Concatenated
  <2>. QED  BY <1>1, <1>2, <2>1
<1>7. LoadRegisters \in Seq(Instruction) /\ Len(LoadRegisters) = 12
  <2>1. /\ (p \o q) \o r \in Seq(Instruction)
        /\ Len((p \o q) \o r) = Len(p \o q) + Len(r)
    BY <1>3, <1>6, Concatenated
  <2>. QED  BY <1>3, <1>4, <1>6, <2>1
<1>8. ASSUME NEW n \in Nat, NEW c, At(c, n, LoadRegisters)
      PROVE  /\ \A i \in 1 .. 5 : c[n + i] = Load(Xmm[i + 1], 2 * i)
             /\ c[n + 6] = Add(12)
             /\ \A j \in 1 .. 6 : c[n + 6 + j] = Pop(Integers6[7 - j])
  <2>1. At(c, n, p \o q) /\ At(c, n + 6, r)
    BY <1>3, <1>4, <1>6, <1>8, AtJoined
  <2>2. At(c, n, p) /\ At(c, n + 5, q)
    BY <1>1, <1>2, <2>1, AtJoined
  <2>3. c[n + 6] = q[1]
    <3>1. c[(n + 5) + 1] = q[1] /\ (n + 5) + 1 = n + 6
      BY <1>2, <2>2 DEF At
    <3>. QED  BY <3>1
  <2>4. \A i \in 1 .. 5 : c[n + i] = p[i]
    BY <1>1, <2>2 DEF At
  <2>5. \A j \in 1 .. 6 : c[(n + 6) + j] = Pop(Integers6[7 - j])
    BY <1>5, <2>1
  <2>. QED  BY <1>1, <1>2, <2>3, <2>4, <2>5
<1>. QED  BY <1>7, <1>8

LEMMA Choices ==
    ASSUME allow_return \in ReturnType
    PROVE  /\ A \in 0 .. 1 /\ Z \in 0 .. 1 /\ A + Z \in 1 .. 2
           /\ IsBuildCall => (A = 1 <=> allow_return # "Rax")
           /\ ~IsBuildCall => A = 1
           /\ Z = 1 <=> allow_return # "Xmm0"
BY DEF ReturnType, A, Z

(* Where the nine parts of build_call begin. *)
LEMMA BuildCallParts ==
    ASSUME allow_return \in ReturnType, IsBuildCall
    PROVE  /\ code \in Seq(Instruction) /\ Len(code) = Last
           /\ A = 1 => /\ code[1] = Push("RAX")
                       /\ code[14] = Add(-1)
                       /\ code[CallAt + Z + 1] = Add(1)
                       /\ code[Last] = Pop("RAX")
           /\ Z = 1 => /\ code[2 * A + 13] = Store("XMM0", 0)
                       /\ code[CallAt + 1] = Load("XMM0", 0)
           /\ code[CallAt] = Call
           /\ At(code, A, SaveRegisters)
           /\ At(code, CallAt + Z + A, LoadRegisters)
<1>. DEFINE needs_alignment == allow_return # "Rax"
            saves_xmm0 == allow_return # "Xmm0"
            w1 == When(needs_alignment, <<Push("RAX")>>)
            w3 == When(needs_alignment, <<Add(-1)>>)
            w4 == When(saves_xmm0, <<Store("XMM0", 0)>>)
            w5 == <<Call>>
            w6 == When(saves_xmm0, <<Load("XMM0", 0)>>)
            w7 == When(needs_alignment, <<Add(1)>>)
            w9 == When(needs_alignment, <<Pop("RAX")>>)
            c2 == w1 \o SaveRegisters
            c3 == c2 \o w3
            c4 == c3 \o w4
            c5 == c4 \o w5
            c6 == c5 \o w6
            c7 == c6 \o w7
            c8 == c7 \o LoadRegisters
            c9 == c8 \o w9
<1>1. code = c9
  BY DEF code, build_call, IsBuildCall
<1>2. "RAX" \in Volatile /\ "XMM0" \in Volatile
  <2>1. Xmm[1] = "XMM0" /\ 1 \in 1 .. 6
    BY DEF Xmm
  <2>. QED  BY <2>1 DEF Volatile, Integer
<1>3. -1 \in Int /\ 0 \in Int /\ 1 \in Int
  OBVIOUS
<1>4. \A i : Len(<<i>>) = 1
  OBVIOUS
<1>5. /\ (needs_alignment <=> A = 1) /\ (saves_xmm0 <=> Z = 1)
      /\ A \in 0 .. 1 /\ Z \in 0 .. 1
  BY Choices
<1>6. /\ w1 \in Seq(Instruction) /\ Len(w1) = A /\ (A = 1 => w1 = <<Push("RAX")>>)
      /\ w3 \in Seq(Instruction) /\ Len(w3) = A /\ (A = 1 => w3 = <<Add(-1)>>)
      /\ w7 \in Seq(Instruction) /\ Len(w7) = A /\ (A = 1 => w7 = <<Add(1)>>)
      /\ w9 \in Seq(Instruction) /\ Len(w9) = A /\ (A = 1 => w9 = <<Pop("RAX")>>)
  <2>1. /\ <<Push("RAX")>> \in Seq(Instruction) /\ <<Add(-1)>> \in Seq(Instruction)
        /\ <<Add(1)>> \in Seq(Instruction) /\ <<Pop("RAX")>> \in Seq(Instruction)
    BY <1>2, <1>3, Pieces
  <2>3. \A p \in Seq(Instruction) : Len(p) = 1 =>
          /\ When(needs_alignment, p) \in Seq(Instruction)
          /\ Len(When(needs_alignment, p)) = A
          /\ A = 1 => When(needs_alignment, p) = p
    BY <1>5, Parts DEF When
  <2>. HIDE DEF needs_alignment
  <2>. QED  BY <1>4, <2>1, <2>3, Zenon
<1>7. /\ w4 \in Seq(Instruction) /\ Len(w4) = Z
      /\ w6 \in Seq(Instruction) /\ Len(w6) = Z
      /\ Z = 1 => w4 = <<Store("XMM0", 0)>> /\ w6 = <<Load("XMM0", 0)>>
  <2>1. /\ <<Store("XMM0", 0)>> \in Seq(Instruction)
        /\ <<Load("XMM0", 0)>> \in Seq(Instruction)
    BY <1>2, <1>3, Pieces
  <2>3. \A p \in Seq(Instruction) : Len(p) = 1 =>
          /\ When(saves_xmm0, p) \in Seq(Instruction)
          /\ Len(When(saves_xmm0, p)) = Z
          /\ Z = 1 => When(saves_xmm0, p) = p
    BY <1>5, Parts DEF When
  <2>. HIDE DEF saves_xmm0
  <2>. QED  BY <1>4, <2>1, <2>3, Zenon
<1>8. w5 \in Seq(Instruction) /\ Len(w5) = 1 /\ w5 = <<Call>>
  BY <1>4, Pieces
<1>9. /\ SaveRegisters \in Seq(Instruction) /\ Len(SaveRegisters) = 12
      /\ LoadRegisters \in Seq(Instruction) /\ Len(LoadRegisters) = 12
  BY SaveParts, LoadParts
<1>. HIDE DEF w1, w3, w4, w5, w6, w7, w9
<1>11. c2 \in Seq(Instruction) /\ Len(c2) = A + 12
  <2>1. c2 \in Seq(Instruction) /\ Len(c2) = Len(w1) + Len(SaveRegisters)
    BY <1>6, <1>9, Concatenated
  <2>. QED  BY <1>5, <1>6, <1>9, <2>1
<1>. HIDE DEF c2
<1>12. c3 \in Seq(Instruction) /\ Len(c3) = 2 * A + 12
  BY <1>5, <1>6, <1>11, Concatenated
<1>. HIDE DEF c3
<1>13. c4 \in Seq(Instruction) /\ Len(c4) = 2 * A + Z + 12
  BY <1>5, <1>7, <1>12, Concatenated
<1>. HIDE DEF c4
<1>14. c5 \in Seq(Instruction) /\ Len(c5) = 2 * A + Z + 13
  BY <1>5, <1>8, <1>13, Concatenated
<1>. HIDE DEF c5
<1>15. c6 \in Seq(Instruction) /\ Len(c6) = 2 * A + 2 * Z + 13
  BY <1>5, <1>7, <1>14, Concatenated
<1>. HIDE DEF c6
<1>16. c7 \in Seq(Instruction) /\ Len(c7) = 3 * A + 2 * Z + 13
  BY <1>5, <1>6, <1>15, Concatenated
<1>. HIDE DEF c7
<1>17. c8 \in Seq(Instruction) /\ Len(c8) = 3 * A + 2 * Z + 25
  <2>1. c8 \in Seq(Instruction) /\ Len(c8) = Len(c7) + Len(LoadRegisters)
    BY <1>9, <1>16, Concatenated
  <2>. QED  BY <1>5, <1>9, <1>16, <2>1
<1>. HIDE DEF c8
<1>18. c9 \in Seq(Instruction) /\ Len(c9) = 4 * A + 2 * Z + 25
  BY <1>5, <1>6, <1>17, Concatenated
<1>20. At(code, 0, c9)
  BY <1>1, <1>18 DEF At
<1>21. At(code, 0, c8) /\ At(code, 0 + Len(c8), w9)
  BY <1>6, <1>17, <1>20, AtJoined
<1>22. At(code, 0, c7) /\ At(code, 0 + Len(c7), LoadRegisters)
  BY <1>9, <1>16, <1>21, AtJoined DEF c8
<1>23. At(code, 0, c6) /\ At(code, 0 + Len(c6), w7)
  BY <1>6, <1>15, <1>22, AtJoined DEF c7
<1>24. At(code, 0, c5) /\ At(code, 0 + Len(c5), w6)
  BY <1>7, <1>14, <1>23, AtJoined DEF c6
<1>25. At(code, 0, c4) /\ At(code, 0 + Len(c4), w5)
  BY <1>8, <1>13, <1>24, AtJoined DEF c5
<1>26. At(code, 0, c3) /\ At(code, 0 + Len(c3), w4)
  BY <1>7, <1>12, <1>25, AtJoined DEF c4
<1>27. At(code, 0, c2) /\ At(code, 0 + Len(c2), w3)
  BY <1>6, <1>11, <1>26, AtJoined DEF c3
<1>28. At(code, 0, w1) /\ At(code, 0 + Len(w1), SaveRegisters)
  BY <1>6, <1>9, <1>27, AtJoined DEF c2
<1>30. \A n \in Nat : \A i : At(code, n, <<i>>) => code[n + 1] = i
  BY DEF At
<1>31. /\ CallAt = 2 * A + 13 + Z
       /\ Last = 4 * A + 2 * Z + 25
  BY <1>5 DEF CallAt, Last, UndoAt
<1>32. ASSUME A = 1
       PROVE  /\ code[1] = Push("RAX") /\ code[14] = Add(-1)
              /\ code[CallAt + Z + 1] = Add(1) /\ code[Last] = Pop("RAX")
  <2>1. code[0 + 1] = Push("RAX")
    BY <1>6, <1>28, <1>30, <1>32
  <2>2. code[Len(c2) + 1] = Add(-1)
    BY <1>6, <1>11, <1>27, <1>30, <1>32
  <2>3. code[Len(c6) + 1] = Add(1)
    BY <1>5, <1>6, <1>15, <1>23, <1>30, <1>32
  <2>4. code[Len(c8) + 1] = Pop("RAX")
    BY <1>5, <1>6, <1>17, <1>21, <1>30, <1>32
  <2>. QED  BY <1>5, <1>11, <1>15, <1>17, <1>31, <1>32, <2>1, <2>2, <2>3, <2>4
<1>33. ASSUME Z = 1
       PROVE  /\ code[2 * A + 13] = Store("XMM0", 0)
              /\ code[CallAt + 1] = Load("XMM0", 0)
  <2>1. code[Len(c3) + 1] = Store("XMM0", 0)
    BY <1>5, <1>7, <1>12, <1>26, <1>30, <1>33
  <2>2. code[Len(c5) + 1] = Load("XMM0", 0)
    BY <1>5, <1>7, <1>14, <1>24, <1>30, <1>33
  <2>. QED  BY <1>5, <1>12, <1>14, <1>31, <1>33, <2>1, <2>2
<1>34. code[CallAt] = Call
  <2>1. code[Len(c4) + 1] = Call
    BY <1>5, <1>8, <1>13, <1>25, <1>30
  <2>. QED  BY <1>5, <1>13, <1>31, <2>1
<1>35. At(code, A, SaveRegisters)
  BY <1>5, <1>6, <1>28
<1>36. At(code, CallAt + Z + A, LoadRegisters)
  <2>1. 0 + Len(c7) = CallAt + Z + A
    BY <1>5, <1>16, <1>31
  <2>. QED  BY <1>22, <2>1
<1>. QED  BY <1>1, <1>18, <1>31, <1>32, <1>33, <1>34, <1>35, <1>36

(* Where the parts of push_preserved_call begin. *)
LEMMA PreservedParts ==
    ASSUME allow_return \in ReturnType, ~IsBuildCall
    PROVE  /\ code \in Seq(Instruction) /\ Len(code) = Last
           /\ \A j \in 1 .. 7 : code[j] = Push(PreservedOrder[j])
           /\ code[8] = Add(-17)
           /\ \A i \in 1 .. 6 : code[8 + i] = Store(Xmm[i], 2 * i + 2)
           /\ code[15] = ArgumentSetup /\ code[16] = Call
           /\ code[17] = ResultHandling
           /\ Z = 1 => code[18] = Load("XMM0", 4)
           /\ \A i \in 1 .. 5 : code[17 + Z + i] = Load(Xmm[i + 1], 2 * i + 4)
           /\ code[UndoAt] = Lea(17)
           /\ \A j \in 1 .. 6 : code[UndoAt + j] = Pop(Integers6[7 - j])
           /\ code[Last] = IF allow_return = "Rax" THEN Lea(1) ELSE Pop("RAX")
<1>. DEFINE w1 == Pushes(PreservedOrder)
            w2 == <<Add(-17)>>
            w3 == Stores(0, 4)
            w4 == <<ArgumentSetup, Call, ResultHandling>>
            w5 == When(allow_return # "Xmm0", <<Load("XMM0", 4)>>)
            w6 == Loads(1, 6)
            w7 == <<Lea(17)>>
            w8 == Pops(Integers6)
            end == IF allow_return = "Rax" THEN Lea(1) ELSE Pop("RAX")
            w9 == <<end>>
            c2 == w1 \o w2
            c3 == c2 \o w3
            c4 == c3 \o w4
            c5 == c4 \o w5
            c6 == c5 \o w6
            c7 == c6 \o w7
            c8 == c7 \o w8
            c9 == c8 \o w9
<1>1. code = c9
  <2>1. /\ w8 = Pops(SubSeq(PreservedOrder, 2, 7))
        /\ w6 = Loads(1, preserved_slots + 2)
        /\ w2 = <<Add(-preserved_frame)>> /\ w7 = <<Lea(preserved_frame)>>
        /\ w3 = Stores(0, preserved_slots)
        /\ w5 = When(allow_return # "Xmm0", <<Load("XMM0", preserved_slots)>>)
    <3>1. preserved_slots = 4 /\ preserved_slots + 2 = 6 /\ preserved_frame = 17
      BY DEF preserved_slots, preserved_frame
    <3>2. SubSeq(PreservedOrder, 2, 7) = Integers6
      BY Parts
    <3>. QED  BY <3>1, <3>2, Zenon
  <2>2. w9 = restore_or_discard_rax(allow_return)
    BY Zenon DEF restore_or_discard_rax
  <2>3. code = push_preserved_call(allow_return)
    BY DEF code, IsBuildCall
  <2>. HIDE DEF w1, w2, w3, w4, w5, w6, w7, w8, w9
  <2>. QED  BY <2>1, <2>2, <2>3, Zenon DEF push_preserved_call, w1, w4
<1>2. "RAX" \in Volatile /\ "XMM0" \in Volatile
  <2>1. Xmm[1] = "XMM0" /\ 1 \in 1 .. 6
    BY DEF Xmm
  <2>. QED  BY <2>1 DEF Volatile, Integer
<1>3. -17 \in Int /\ 17 \in Int /\ 1 \in Int /\ 4 \in Int
  OBVIOUS
<1>4. \A i : Len(<<i>>) = 1
  OBVIOUS
<1>5. /\ (allow_return # "Xmm0" <=> Z = 1) /\ Z \in 0 .. 1 /\ A = 1
  BY Choices
<1>6. /\ w1 \in Seq(Instruction) /\ Len(w1) = 7
      /\ w8 \in Seq(Instruction) /\ Len(w8) = 6
  BY Pieces
<1>7. /\ w2 \in Seq(Instruction) /\ Len(w2) = 1
      /\ w7 \in Seq(Instruction) /\ Len(w7) = 1
  BY <1>3, <1>4, Pieces
<1>8. /\ w3 \in Seq(Instruction) /\ Len(w3) = 6
      /\ w6 \in Seq(Instruction) /\ Len(w6) = 5
  BY Slots
<1>9. w4 \in Seq(Instruction) /\ Len(w4) = 3
  BY Pieces
<1>10. w5 \in Seq(Instruction) /\ Len(w5) = Z /\ (Z = 1 => w5 = <<Load("XMM0", 4)>>)
  <2>1. <<Load("XMM0", 4)>> \in Seq(Instruction)
    BY <1>2, <1>3, Pieces
  <2>2. \A p \in Seq(Instruction) : Len(p) = 1 =>
          /\ When(allow_return # "Xmm0", p) \in Seq(Instruction)
          /\ Len(When(allow_return # "Xmm0", p)) = Z
          /\ Z = 1 => When(allow_return # "Xmm0", p) = p
    BY <1>5, Parts DEF When
  <2>. QED  BY <1>4, <2>1, <2>2, Zenon
<1>11. w9 \in Seq(Instruction) /\ Len(w9) = 1
  <2>1. <<Lea(1)>> \in Seq(Instruction) /\ <<Pop("RAX")>> \in Seq(Instruction)
    BY <1>2, <1>3, Pieces
  <2>2. w9 = <<Lea(1)>> \/ w9 = <<Pop("RAX")>>
    BY Zenon
  <2>. QED  BY <1>4, <2>1, <2>2, Zenon
<1>. HIDE DEF w1, w2, w3, w4, w5, w6, w7, w8, w9
<1>12. c2 \in Seq(Instruction) /\ Len(c2) = 8
  <2>1. c2 \in Seq(Instruction) /\ Len(c2) = Len(w1) + Len(w2)
    BY <1>6, <1>7, Concatenated
  <2>. QED  BY <1>6, <1>7, <2>1
<1>. HIDE DEF c2
<1>13. c3 \in Seq(Instruction) /\ Len(c3) = 14
  <2>1. c3 \in Seq(Instruction) /\ Len(c3) = Len(c2) + Len(w3)
    BY <1>8, <1>12, Concatenated
  <2>. QED  BY <1>8, <1>12, <2>1
<1>. HIDE DEF c3
<1>14. c4 \in Seq(Instruction) /\ Len(c4) = 17
  <2>1. c4 \in Seq(Instruction) /\ Len(c4) = Len(c3) + Len(w4)
    BY <1>9, <1>13, Concatenated
  <2>. QED  BY <1>9, <1>13, <2>1
<1>. HIDE DEF c4
<1>15. c5 \in Seq(Instruction) /\ Len(c5) = 17 + Z
  BY <1>5, <1>10, <1>14, Concatenated
<1>. HIDE DEF c5
<1>16. c6 \in Seq(Instruction) /\ Len(c6) = 22 + Z
  <2>1. c6 \in Seq(Instruction) /\ Len(c6) = Len(c5) + Len(w6)
    BY <1>8, <1>15, Concatenated
  <2>. QED  BY <1>5, <1>8, <1>15, <2>1
<1>. HIDE DEF c6
<1>17. c7 \in Seq(Instruction) /\ Len(c7) = 23 + Z
  <2>1. c7 \in Seq(Instruction) /\ Len(c7) = Len(c6) + Len(w7)
    BY <1>7, <1>16, Concatenated
  <2>. QED  BY <1>5, <1>7, <1>16, <2>1
<1>. HIDE DEF c7
<1>18. c8 \in Seq(Instruction) /\ Len(c8) = 29 + Z
  <2>1. c8 \in Seq(Instruction) /\ Len(c8) = Len(c7) + Len(w8)
    BY <1>6, <1>17, Concatenated
  <2>. QED  BY <1>5, <1>6, <1>17, <2>1
<1>. HIDE DEF c8
<1>19. c9 \in Seq(Instruction) /\ Len(c9) = 30 + Z
  <2>1. c9 \in Seq(Instruction) /\ Len(c9) = Len(c8) + Len(w9)
    BY <1>11, <1>18, Concatenated
  <2>. QED  BY <1>5, <1>11, <1>18, <2>1
<1>20. At(code, 0, c9)
  BY <1>1, <1>19 DEF At
<1>21. At(code, 0, c8) /\ At(code, 0 + Len(c8), w9)
  BY <1>11, <1>18, <1>20, AtJoined
<1>22. At(code, 0, c7) /\ At(code, 0 + Len(c7), w8)
  BY <1>6, <1>17, <1>21, AtJoined DEF c8
<1>23. At(code, 0, c6) /\ At(code, 0 + Len(c6), w7)
  BY <1>7, <1>16, <1>22, AtJoined DEF c7
<1>24. At(code, 0, c5) /\ At(code, 0 + Len(c5), w6)
  BY <1>8, <1>15, <1>23, AtJoined DEF c6
<1>25. At(code, 0, c4) /\ At(code, 0 + Len(c4), w5)
  BY <1>10, <1>14, <1>24, AtJoined DEF c5
<1>26. At(code, 0, c3) /\ At(code, 0 + Len(c3), w4)
  BY <1>9, <1>13, <1>25, AtJoined DEF c4
<1>27. At(code, 0, c2) /\ At(code, 0 + Len(c2), w3)
  BY <1>8, <1>12, <1>26, AtJoined DEF c3
<1>28. At(code, 0, w1) /\ At(code, 0 + Len(w1), w2)
  BY <1>6, <1>7, <1>27, AtJoined DEF c2
<1>29. \A n \in Nat : \A i : At(code, n, <<i>>) => code[n + 1] = i
  BY DEF At
<1>30. UndoAt = 23 + Z /\ Last = 30 + Z
  BY <1>5 DEF UndoAt, Last
<1>31. \A j \in 1 .. 7 : code[j] = Push(PreservedOrder[j])
  <2>1. \A j \in 1 .. 7 : code[0 + j] = Push(PreservedOrder[j])
    BY <1>28, PartsAt DEF w1
  <2>. QED  BY <2>1
<1>32. code[8] = Add(-17)
  <2>1. code[Len(w1) + 1] = Add(-17)
    BY <1>6, <1>28, <1>29 DEF w2
  <2>. QED  BY <1>6, <2>1
<1>33. \A i \in 1 .. 6 : code[8 + i] = Store(Xmm[i], 2 * i + 2)
  <2>1. \A i \in 1 .. 6 : code[8 + i] = w3[i]
    BY <1>8, <1>12, <1>27 DEF At
  <2>. QED  BY <2>1, Slots DEF w3
<1>34. code[15] = ArgumentSetup /\ code[16] = Call /\ code[17] = ResultHandling
  <2>1. code[14 + 1] = w4[1] /\ code[14 + 2] = w4[2] /\ code[14 + 3] = w4[3]
    BY <1>9, <1>13, <1>26 DEF At
  <2>. QED  BY <2>1 DEF w4
<1>35. Z = 1 => code[18] = Load("XMM0", 4)
  <2>1. Z = 1 => code[Len(c4) + 1] = Load("XMM0", 4)
    BY <1>10, <1>14, <1>25, <1>29
  <2>. QED  BY <1>14, <2>1
<1>36. \A i \in 1 .. 5 : code[17 + Z + i] = Load(Xmm[i + 1], 2 * i + 4)
  <2>1. \A i \in 1 .. 5 : code[17 + Z + i] = w6[i]
    BY <1>5, <1>8, <1>15, <1>24 DEF At
  <2>. QED  BY <2>1, Slots DEF w6
<1>37. code[UndoAt] = Lea(17)
  <2>1. code[Len(c6) + 1] = Lea(17)
    BY <1>5, <1>16, <1>23, <1>29 DEF w7
  <2>. QED  BY <1>5, <1>16, <1>30, <2>1
<1>38. \A j \in 1 .. 6 : code[UndoAt + j] = Pop(Integers6[7 - j])
  <2>1. At(code, UndoAt, Pops(Integers6)) /\ UndoAt \in Nat
    BY <1>5, <1>17, <1>22, <1>30 DEF w8
  <2>. QED  BY <2>1, PartsAt
<1>39. code[Last] = IF allow_return = "Rax" THEN Lea(1) ELSE Pop("RAX")
  <2>1. code[Len(c8) + 1] = end
    BY <1>5, <1>18, <1>21, <1>29 DEF w9
  <2>. QED  BY <1>5, <1>18, <1>30, <2>1
<1>. QED
  BY <1>1, <1>19, <1>30, <1>31, <1>32, <1>33, <1>34, <1>35, <1>36, <1>37,
     <1>38, <1>39

LEMMA Orders ==
    /\ PreservedOrder[1] = "RAX" /\ Xmm[1] = "XMM0"
    /\ \A j \in 1 .. 6 : PreservedOrder[j + 1] = Integers6[j]
BY DEF PreservedOrder, Xmm, Integers6

LEMMA BuildCallInstruction ==
    ASSUME allow_return \in ReturnType, IsBuildCall, ip \in 1 .. Last
    PROVE  AnyInstruction
<1>1. /\ A \in 0 .. 1 /\ Z \in 0 .. 1
      /\ A = 1 <=> allow_return # "Rax"
  BY Choices
<1>2. /\ CallAt = 2 * A + 13 + Z /\ UndoAt = 3 * A + 2 * Z + 19
      /\ Last = 4 * A + 2 * Z + 25
  BY <1>1 DEF CallAt, UndoAt, Last
<1>3. /\ \A j \in 1 .. 6 : code[A + j] = Push(PreservedOrder[j + 1])
      /\ code[A + 7] = Add(-12)
      /\ \A i \in 1 .. 5 : code[A + 7 + i] = Store(Xmm[i + 1], 2 * i)
  <2>1. A \in Nat
    BY <1>1
  <2>2. At(code, A, SaveRegisters)
    BY BuildCallParts
  <2>3. /\ \A j \in 1 .. 6 : code[A + j] = Push(Integers6[j])
        /\ code[A + 7] = Add(-12)
        /\ \A i \in 1 .. 5 : code[A + 7 + i] = Store(Xmm[i + 1], 2 * i)
    BY <2>1, <2>2, SaveParts
  <2>. QED  BY <2>3, Orders
<1>4. /\ \A i \in 1 .. 5 : code[CallAt + Z + A + i] = Load(Xmm[i + 1], 2 * i)
      /\ code[UndoAt] = Add(12)
      /\ \A j \in 1 .. 6 : code[UndoAt + j] = Pop(PreservedOrder[(7 - j) + 1])
  <2>1. /\ CallAt + Z + A \in Nat
        /\ CallAt + Z + A + 6 = UndoAt
    BY <1>1, <1>2
  <2>2. At(code, CallAt + Z + A, LoadRegisters)
    BY BuildCallParts
  <2>3. /\ \A i \in 1 .. 5 : code[CallAt + Z + A + i] = Load(Xmm[i + 1], 2 * i)
        /\ code[UndoAt] = Add(12)
        /\ \A j \in 1 .. 6 : code[UndoAt + j] = Pop(Integers6[7 - j])
    BY <2>1, <2>2, LoadParts
  <2>4. \A j \in 1 .. 6 : 7 - j \in 1 .. 6
    OBVIOUS
  <2>. QED  BY <2>3, <2>4, Orders
<1>5. CASE ip \in 1 .. A + 6
  <2>1. CASE A = 1 /\ ip = 1
    <3>1. code[ip] = Push(PreservedOrder[0 + 1]) /\ ip = A + 0
      BY <2>1, BuildCallParts, Orders
    <3>. QED  BY <2>1, <3>1 DEF IsPush, AnyInstruction
  <2>2. CASE ip > A
    <3>1. ip - A \in 1 .. 6 /\ ip = A + (ip - A)
      BY <1>1, <1>5, <2>2
    <3>2. code[ip] = Push(PreservedOrder[(ip - A) + 1])
      BY <1>3, <3>1
    <3>. QED  BY <3>1, <3>2 DEF IsPush, AnyInstruction
  <2>. QED  BY <1>1, <1>5, <2>1, <2>2
<1>6. CASE ip = A + 7
  BY <1>3, <1>6 DEF IsReserve, Frame, AnyInstruction
<1>7. CASE ip \in A + 8 .. A + 12
  <2>1. ip - A - 7 \in 1 .. 5 /\ ip = A + 7 + (ip - A - 7)
    BY <1>1, <1>7
  <2>2. code[ip] = Store(Xmm[(ip - A - 7) + 1], 2 * (ip - A - 7))
    BY <1>3, <2>1
  <2>3. \E i \in 1 .. 5 : ip = A + 7 + i /\ code[ip] = Store(Xmm[i + 1], 2 * i)
    BY <2>1, <2>2
  <2>. QED  BY <2>3 DEF IsStore, Saved, SaveAt, Offset, AnyInstruction
<1>8. CASE ip \in A + 13 .. CallAt - 1
  <2>1. CASE A = 1 /\ ip = 14
    BY <2>1, BuildCallParts DEF IsPad, AnyInstruction
  <2>2. CASE Z = 1 /\ ip = 2 * A + 13
    <3>1. code[ip] = Store(Xmm[0 + 1], Offset(0))
      BY <2>2, BuildCallParts, Orders DEF Offset
    <3>. QED  BY <2>2, <3>1 DEF IsStore, Saved, SaveAt, AnyInstruction
  <2>. QED  BY <1>1, <1>2, <1>8, <2>1, <2>2
<1>9. CASE ip = CallAt
  BY <1>9, BuildCallParts DEF IsCall, AnyInstruction
<1>10. CASE ip \in CallAt + 1 .. CallAt + Z + A
  <2>1. CASE Z = 1 /\ ip = CallAt + 1
    <3>1. code[ip] = Load(Xmm[0 + 1], Offset(0))
      BY <2>1, BuildCallParts, Orders DEF Offset
    <3>. QED  BY <2>1, <3>1 DEF IsLoad, Loaded, LoadAt, AnyInstruction
  <2>2. CASE A = 1 /\ ip = CallAt + Z + 1
    BY <2>2, BuildCallParts DEF IsUnpad, AnyInstruction
  <2>. QED  BY <1>1, <1>2, <1>10, <2>1, <2>2
<1>11. CASE ip \in CallAt + Z + A + 1 .. CallAt + Z + A + 5
  <2>. DEFINE k == ip - (CallAt + Z + A)
  <2>1. k \in 1 .. 5 /\ ip = CallAt + Z + A + k
    BY <1>1, <1>2, <1>11
  <2>2. code[ip] = Load(Xmm[k + 1], 2 * k)
    BY <1>4, <2>1
  <2>. HIDE DEF k
  <2>3. \E i \in 1 .. 5 : ip = CallAt + Z + A + i /\ code[ip] = Load(Xmm[i + 1], 2 * i)
    BY <2>1, <2>2
  <2>. QED  BY <2>3 DEF IsLoad, Loaded, LoadAt, Offset, AnyInstruction
<1>12. CASE ip = UndoAt
  BY <1>4, <1>12 DEF IsUndo, AnyInstruction
<1>13. CASE ip \in UndoAt + 1 .. UndoAt + 6
  <2>. DEFINE k == ip - UndoAt
  <2>1. k \in 1 .. 6 /\ ip = UndoAt + k
    BY <1>1, <1>2, <1>13
  <2>2. code[ip] = Pop(PreservedOrder[(7 - k) + 1])
    BY <1>4, <2>1
  <2>3. 7 - k \in 1 .. 6 /\ ip = UndoAt + 7 - (7 - k)
    BY <1>1, <1>2, <2>1
  <2>. HIDE DEF k
  <2>. QED  BY <2>2, <2>3 DEF IsPop, AnyInstruction
<1>14. CASE ip = UndoAt + 7 /\ A = 1
  <2>1. code[ip] = Pop(PreservedOrder[0 + 1])
    BY <1>1, <1>2, <1>14, BuildCallParts, Orders
  <2>. QED  BY <1>1, <1>2, <1>14, <2>1 DEF IsPop, AnyInstruction
<1>. QED
  BY <1>1, <1>2, <1>5, <1>6, <1>7, <1>8, <1>9, <1>10, <1>11, <1>12, <1>13,
     <1>14

LEMMA PreservedInstruction ==
    ASSUME allow_return \in ReturnType, ~IsBuildCall, ip \in 1 .. Last
    PROVE  AnyInstruction
<1>1. A = 1 /\ Z \in 0 .. 1
  BY Choices
<1>2. CallAt = 16 /\ UndoAt = 23 + Z /\ Last = 30 + Z
  BY <1>1 DEF CallAt, UndoAt, Last
<1>3. CASE ip \in 1 .. 7
  <2>1. ip - 1 \in 0 .. 6 /\ ip = A + (ip - 1)
    BY <1>1, <1>3
  <2>2. code[ip] = Push(PreservedOrder[(ip - 1) + 1])
    <3>1. \A j \in 1 .. 7 : code[j] = Push(PreservedOrder[j])
      BY PreservedParts
    <3>2. (ip - 1) + 1 = ip
      BY <1>3
    <3>. QED  BY <1>3, <3>1, <3>2
  <2>. QED  BY <1>1, <2>1, <2>2 DEF IsPush, AnyInstruction
<1>4. CASE ip = 8
  BY <1>1, <1>4, PreservedParts DEF IsReserve, Frame, AnyInstruction
<1>5. CASE ip \in 9 .. 14
  <2>. DEFINE k == ip - 9
  <2>1. k \in 0 .. 5 /\ ip = 9 + k /\ ip = 8 + (k + 1) /\ k + 1 \in 1 .. 6
    BY <1>5
  <2>2. code[ip] = Store(Xmm[k + 1], 2 * (k + 1) + 2)
    <3>1. \A i \in 1 .. 6 : code[8 + i] = Store(Xmm[i], 2 * i + 2)
      BY PreservedParts
    <3>. QED  BY <2>1, <3>1, Zenon
  <2>3. 2 * (k + 1) + 2 = 4 + 2 * k
    BY <2>1
  <2>. HIDE DEF k
  <2>4. \E i \in 0 .. 5 : ip = 9 + i /\ code[ip] = Store(Xmm[i + 1], 4 + 2 * i)
    BY <2>1, <2>2, <2>3
  <2>. QED  BY <2>4 DEF IsStore, Saved, SaveAt, Offset, AnyInstruction
<1>6. CASE ip = 15
  BY <1>6, PreservedParts DEF IsArgumentSetup, AnyInstruction
<1>7. CASE ip = 16
  BY <1>2, <1>7, PreservedParts DEF IsCall, AnyInstruction
<1>8. CASE ip = 17
  BY <1>8, PreservedParts DEF IsResultHandling, AnyInstruction
<1>9. CASE Z = 1 /\ ip = 18
  <2>1. code[18] = Load("XMM0", 4)
    BY <1>9, PreservedParts
  <2>2. Offset(0) = 4 /\ Xmm[0 + 1] = "XMM0"
    BY Orders DEF Offset
  <2>3. code[ip] = Load(Xmm[0 + 1], Offset(0)) /\ ip = 17 + Z + 0
    BY <1>9, <2>1, <2>2
  <2>. QED  BY <1>9, <2>3 DEF IsLoad, Loaded, LoadAt, AnyInstruction
<1>10. CASE ip \in 18 + Z .. 22 + Z
  <2>. DEFINE k == ip - (17 + Z)
  <2>1. k \in 1 .. 5 /\ ip = 17 + Z + k
    BY <1>1, <1>10
  <2>2. code[ip] = Load(Xmm[k + 1], 2 * k + 4) /\ 2 * k + 4 = 4 + 2 * k
    <3>1. \A i \in 1 .. 5 : code[17 + Z + i] = Load(Xmm[i + 1], 2 * i + 4)
      BY PreservedParts
    <3>2. 2 * k + 4 = 4 + 2 * k
      BY <2>1
    <3>. QED  BY <2>1, <3>1, <3>2, Zenon
  <2>. HIDE DEF k
  <2>3. \E i \in 1 .. 5 : ip = 17 + Z + i /\ code[ip] = Load(Xmm[i + 1], 4 + 2 * i)
    BY <2>1, <2>2
  <2>. QED  BY <2>3 DEF IsLoad, Loaded, LoadAt, Offset, AnyInstruction
<1>11. CASE ip = UndoAt
  BY <1>11, PreservedParts DEF IsUndo, AnyInstruction
<1>12. CASE ip \in UndoAt + 1 .. UndoAt + 6
  <2>. DEFINE k == ip - UndoAt
  <2>1. k \in 1 .. 6 /\ ip = UndoAt + k /\ 7 - k \in 1 .. 6
    BY <1>1, <1>2, <1>12
  <2>2. code[ip] = Pop(PreservedOrder[(7 - k) + 1])
    <3>1. code[ip] = Pop(Integers6[7 - k])
      <4>1. \A j \in 1 .. 6 : code[UndoAt + j] = Pop(Integers6[7 - j])
        BY PreservedParts
      <4>. QED  BY <2>1, <4>1, Zenon
    <3>. QED  BY <2>1, <3>1, Orders
  <2>3. ip = UndoAt + 7 - (7 - k)
    BY <1>1, <1>2, <2>1
  <2>. HIDE DEF k
  <2>. QED  BY <2>1, <2>2, <2>3 DEF IsPop, AnyInstruction
<1>13. CASE ip = UndoAt + 7
  <2>1. code[ip] = IF allow_return = "Rax" THEN Lea(1) ELSE Pop("RAX")
    BY <1>1, <1>2, <1>13, PreservedParts
  <2>2. CASE allow_return = "Rax"
    BY <1>13, <2>1, <2>2 DEF IsDiscard, AnyInstruction
  <2>3. CASE allow_return # "Rax"
    <3>1. code[ip] = Pop(PreservedOrder[0 + 1])
      BY <2>1, <2>3, Orders
    <3>. QED  BY <1>1, <1>2, <1>13, <2>3, <3>1 DEF IsPop, AnyInstruction
  <2>. QED  BY <2>2, <2>3
<1>. QED
  BY <1>1, <1>2, <1>3, <1>4, <1>5, <1>6, <1>7, <1>8, <1>9, <1>10, <1>11,
     <1>12, <1>13

(* The instruction that ip points to. *)
LEMMA InstructionAt ==
    ASSUME allow_return \in ReturnType
    PROVE  /\ DOMAIN code = 1 .. Last /\ Len(code) = Last
           /\ ip \in 1 .. Last => AnyInstruction
<1>1. code \in Seq(Instruction) /\ Len(code) = Last
  BY BuildCallParts, PreservedParts
<1>. QED  BY <1>1, BuildCallInstruction, PreservedInstruction
-----------------------------------------------------------------------------
(* The invariant.                                                          *)

(* The word that aligns build_call's call is on the stack. *)
PadAt(p) == IF IsBuildCall /\ A = 1 /\ p \in 15 .. CallAt + Z + 1 THEN 1 ELSE 0
(* RSP when the instruction at position p is next. *)
Depth(p) == IF p <= A + 7 THEN 1 - p
            ELSE IF p <= UndoAt THEN -(A + 6 + Frame) - PadAt(p)
            ELSE p - UndoAt - 7 - A

(***************************************************************************)
(* How deep the stack is at each instruction, and whose flags they are.    *)
(***************************************************************************)
Position ==
    /\ ip \in 1 .. Last + 1
    /\ rsp = Depth(ip)
    /\ ~IsBuildCall /\ ip > 17 => flags = "result_handling"

ControlInv == TypeOK /\ Position

(* The first of the two words of an XMM register. *)
Slot(i) == IF IsBuildCall
           THEN IF i = 0 THEN -(2 * A + 18) ELSE -(A + 18) + 2 * i
           ELSE 2 * i - 20
(* The last position at which no register has changed. *)
Untouched == IF IsBuildCall THEN CallAt ELSE 15

IntegersSaved ==
    \A j \in 0 .. 6 : (j > 0 \/ A = 1) /\ A + j < ip =>
        stack[-(A + j)] = Word(PreservedOrder[j + 1], 0)
XmmSaved ==
    \A i \in 0 .. 5 : Saved(i) /\ SaveAt(i) < ip =>
        /\ stack[Slot(i)] = Word(Xmm[i + 1], 1)
        /\ stack[Slot(i) + 1] = Word(Xmm[i + 1], 2)
RegistersUntouched ==
    ip <= Untouched => \A r \in Volatile : regs[r] = r
XmmRestored ==
    \A i \in 0 .. 5 : Loaded(i) /\ LoadAt(i) < ip =>
        regs[Xmm[i + 1]] = Xmm[i + 1]
IntegersRestored ==
    \A j \in 0 .. 6 : (j > 0 \/ allow_return # "Rax") /\ UndoAt + 7 - j < ip =>
        regs[PreservedOrder[j + 1]] = PreservedOrder[j + 1]
ResultKept ==
    CallAt < ip /\ allow_return # "None" => regs[ReturnRegister] = "callback"

(***************************************************************************)
(* What is on the stack and in the registers at each instruction: what was *)
(* saved is still where it was saved, and what was restored stays.         *)
(***************************************************************************)
DataInv ==
    /\ IntegersSaved /\ XmmSaved /\ RegistersUntouched
    /\ XmmRestored /\ IntegersRestored /\ ResultKept

LEMMA Steady ==
    ASSUME form' = form, allow_return' = allow_return
    PROVE  /\ IsBuildCall' <=> IsBuildCall
           /\ A' = A /\ Z' = Z /\ Frame' = Frame /\ CallAt' = CallAt
           /\ UndoAt' = UndoAt /\ Last' = Last /\ Untouched' = Untouched
           /\ ReturnRegister' = ReturnRegister
           /\ \A i \in 0 .. 5 :
                /\ Saved(i)' <=> Saved(i)
                /\ Loaded(i)' <=> Loaded(i)
                /\ SaveAt(i)' = SaveAt(i) /\ LoadAt(i)' = LoadAt(i)
                /\ Slot(i)' = Slot(i)
<1>1. IsBuildCall' <=> IsBuildCall
  BY DEF IsBuildCall
<1>2. A' = A /\ Z' = Z
  BY <1>1 DEF A, Z
<1>3. Frame' = Frame /\ CallAt' = CallAt /\ UndoAt' = UndoAt
  BY <1>1, <1>2 DEF Frame, CallAt, UndoAt
<1>4. Last' = Last /\ Untouched' = Untouched /\ ReturnRegister' = ReturnRegister
  BY <1>1, <1>2, <1>3 DEF Last, Untouched, ReturnRegister
<1>. QED
  BY <1>1, <1>2, <1>3, <1>4 DEF Saved, Loaded, SaveAt, LoadAt, Slot

(* What a step does, for each kind of instruction at ip. *)
LEMMA Effects ==
    ASSUME ip \in DOMAIN code, Len(code) = Last, ip \in 1 .. Last, Next
    PROVE  /\ ip' = ip + 1 /\ form' = form /\ allow_return' = allow_return
           /\ \A r : code[ip] = Push(r) =>
                /\ rsp' = rsp - 1
                /\ stack' = [stack EXCEPT ![rsp - 1] = Word(regs[r], 0)]
                /\ regs' = regs /\ flags' = flags
           /\ \A r : code[ip] = Pop(r) =>
                /\ rsp' = rsp + 1
                /\ regs' = [regs EXCEPT ![r] =
                      IF stack[rsp].part = 0 THEN stack[rsp].value ELSE "torn"]
                /\ stack' = stack /\ flags' = flags
           /\ \A k : code[ip] = Add(k) =>
                /\ rsp' = rsp + k /\ flags' = "arithmetic"
                /\ regs' = regs /\ stack' = stack
           /\ \A k : code[ip] = Lea(k) =>
                rsp' = rsp + k /\ flags' = flags /\ regs' = regs /\ stack' = stack
           /\ \A r, k : code[ip] = Store(r, k) =>
                /\ stack' = [stack EXCEPT ![rsp + k] = Word(regs[r], 1),
                                         ![rsp + k + 1] = Word(regs[r], 2)]
                /\ regs' = regs /\ rsp' = rsp /\ flags' = flags
           /\ \A r, k : code[ip] = Load(r, k) =>
                /\ regs' = [regs EXCEPT ![r] =
                      IF /\ stack[rsp + k] = Word(stack[rsp + k].value, 1)
                         /\ stack[rsp + k + 1] = Word(stack[rsp + k].value, 2)
                      THEN stack[rsp + k].value
                      ELSE "torn"]
                /\ rsp' = rsp /\ stack' = stack /\ flags' = flags
           /\ code[ip] = Call => ExecCall
           /\ code[ip] = ArgumentSetup => ExecArgumentSetup
           /\ code[ip] = ResultHandling => ExecResultHandling
<1>1. ~Finished
  BY DEF Finished
<1>2. ASSUME NEW op, Fetch(op)
      PROVE  /\ code[ip].op = op
             /\ ip' = ip + 1 /\ form' = form /\ allow_return' = allow_return
  BY <1>2 DEF Fetch
<1>3. ip' = ip + 1 /\ form' = form /\ allow_return' = allow_return
  BY <1>1, <1>2 DEF Next, ExecPush, ExecPop, ExecAdd, ExecLea, ExecStore,
     ExecLoad, ExecCall, ExecArgumentSetup, ExecResultHandling
<1>4. /\ code[ip].op = "push" => ExecPush
      /\ code[ip].op = "pop" => ExecPop
      /\ code[ip].op = "add" => ExecAdd
      /\ code[ip].op = "lea" => ExecLea
      /\ code[ip].op = "store" => ExecStore
      /\ code[ip].op = "load" => ExecLoad
      /\ code[ip].op = "call" => ExecCall
      /\ code[ip].op = "argument_setup" => ExecArgumentSetup
      /\ code[ip].op = "result_handling" => ExecResultHandling
  <2>1. /\ ExecPush => code[ip].op = "push"
        /\ ExecPop => code[ip].op = "pop"
        /\ ExecAdd => code[ip].op = "add"
        /\ ExecLea => code[ip].op = "lea"
        /\ ExecStore => code[ip].op = "store"
        /\ ExecLoad => code[ip].op = "load"
        /\ ExecCall => code[ip].op = "call"
        /\ ExecArgumentSetup => code[ip].op = "argument_setup"
        /\ ExecResultHandling => code[ip].op = "result_handling"
    BY <1>2 DEF ExecPush, ExecPop, ExecAdd, ExecLea, ExecStore, ExecLoad,
       ExecCall, ExecArgumentSetup, ExecResultHandling
  <2>. QED  BY <1>1, <2>1 DEF Next
<1>5. ASSUME NEW r, code[ip] = Push(r)
      PROVE  /\ rsp' = rsp - 1
             /\ stack' = [stack EXCEPT ![rsp - 1] = Word(regs[r], 0)]
             /\ regs' = regs /\ flags' = flags
  <2>1. code[ip].op = "push" /\ code[ip].reg = r
    BY <1>5 DEF Push
  <2>. QED  BY <1>4, <2>1 DEF ExecPush
<1>6. ASSUME NEW r, code[ip] = Pop(r)
      PROVE  /\ rsp' = rsp + 1
             /\ regs' = [regs EXCEPT ![r] =
                   IF stack[rsp].part = 0 THEN stack[rsp].value ELSE "torn"]
             /\ stack' = stack /\ flags' = flags
  <2>1. code[ip].op = "pop" /\ code[ip].reg = r
    BY <1>6 DEF Pop
  <2>. QED  BY <1>4, <2>1 DEF ExecPop
<1>7. ASSUME NEW k, code[ip] = Add(k)
      PROVE  /\ rsp' = rsp + k /\ flags' = "arithmetic"
             /\ regs' = regs /\ stack' = stack
  <2>1. code[ip].op = "add" /\ code[ip].words = k
    BY <1>7 DEF Add
  <2>. QED  BY <1>4, <2>1 DEF ExecAdd
<1>8. ASSUME NEW k, code[ip] = Lea(k)
      PROVE  rsp' = rsp + k /\ flags' = flags /\ regs' = regs /\ stack' = stack
  <2>1. code[ip].op = "lea" /\ code[ip].words = k
    BY <1>8 DEF Lea
  <2>. QED  BY <1>4, <2>1 DEF ExecLea
<1>9. ASSUME NEW r, NEW k, code[ip] = Store(r, k)
      PROVE  /\ stack' = [stack EXCEPT ![rsp + k] = Word(regs[r], 1),
                                      ![rsp + k + 1] = Word(regs[r], 2)]
             /\ regs' = regs /\ rsp' = rsp /\ flags' = flags
  <2>1. code[ip].op = "store" /\ code[ip].reg = r /\ code[ip].at = k
    BY <1>9 DEF Store
  <2>. QED  BY <1>4, <2>1 DEF ExecStore
<1>10. ASSUME NEW r, NEW k, code[ip] = Load(r, k)
       PROVE  /\ regs' = [regs EXCEPT ![r] =
                    IF /\ stack[rsp + k] = Word(stack[rsp + k].value, 1)
                       /\ stack[rsp + k + 1] = Word(stack[rsp + k].value, 2)
                    THEN stack[rsp + k].value
                    ELSE "torn"]
              /\ rsp' = rsp /\ stack' = stack /\ flags' = flags
  <2>1. code[ip].op = "load" /\ code[ip].reg = r /\ code[ip].at = k
    BY <1>10 DEF Load
  <2>. QED  BY <1>4, <2>1 DEF ExecLoad
<1>11. /\ code[ip] = Call => ExecCall
       /\ code[ip] = ArgumentSetup => ExecArgumentSetup
       /\ code[ip] = ResultHandling => ExecResultHandling
  BY <1>4 DEF Call, ArgumentSetup, ResultHandling
<1>. QED
  BY <1>3, <1>5, <1>6, <1>7, <1>8, <1>9, <1>10, <1>11

LEMMA Numbers ==
    ASSUME allow_return \in ReturnType
    PROVE  /\ A \in 0 .. 1 /\ Z \in 0 .. 1
           /\ IsBuildCall => /\ CallAt = 2 * A + 13 + Z /\ Frame = 12
                             /\ UndoAt = 3 * A + 2 * Z + 19
           /\ ~IsBuildCall => /\ CallAt = 16 /\ Frame = 17
                              /\ UndoAt = 23 + Z /\ A = 1
           /\ Last = UndoAt + 6 + A
BY Choices DEF CallAt, Frame, UndoAt, Last

LEMMA DepthRange ==
    ASSUME allow_return \in ReturnType, NEW p \in 1 .. Last + 1
    PROVE  Depth(p) \in -24 .. 0
<1>1. PadAt(p) \in 0 .. 1 /\ (~IsBuildCall => PadAt(p) = 0)
  BY DEF PadAt
<1>. QED  BY <1>1, Numbers DEF Depth

(* How each kind of instruction fits between the depths around it. *)
LEMMA PushDepth ==
    ASSUME allow_return \in ReturnType, NEW j \in 0 .. 6, ip = A + j,
           ip \in 1 .. Last
    PROVE  Depth(ip) = 1 - ip /\ Depth(ip + 1) = -ip /\ ip \in 1 .. 7
BY Numbers DEF Depth

LEMMA ReserveDepth ==
    ASSUME allow_return \in ReturnType, ip = A + 7
    PROVE  Depth(ip + 1) = Depth(ip) - Frame
<1>1. PadAt(ip + 1) = 0
  BY Numbers DEF PadAt
<1>. QED  BY <1>1, Numbers DEF Depth

LEMMA StoreDepth ==
    ASSUME allow_return \in ReturnType, NEW i \in 0 .. 5, Saved(i),
           ip = SaveAt(i)
    PROVE  /\ Depth(ip + 1) = Depth(ip)
           /\ Depth(ip) + Offset(i) = Slot(i)
           /\ ip < CallAt /\ ip > A + 7 /\ (~IsBuildCall => ip < 15)
<1>1. CASE IsBuildCall
  <2>1. CASE i = 0
    <3>1. ip = 2 * A + 13 /\ Z = 1
      BY <1>1, <2>1 DEF SaveAt, Saved
    <3>2. PadAt(ip) = A /\ PadAt(ip + 1) = A
      BY <1>1, <3>1, Numbers DEF PadAt
    <3>. QED  BY <1>1, <2>1, <3>1, <3>2, Numbers DEF Depth, Slot, Offset
  <2>2. CASE i # 0
    <3>1. ip = A + 7 + i
      BY <1>1, <2>2 DEF SaveAt
    <3>2. PadAt(ip) = 0 /\ PadAt(ip + 1) = 0
      BY <1>1, <2>2, <3>1, Numbers DEF PadAt
    <3>. QED  BY <1>1, <2>2, <3>1, <3>2, Numbers DEF Depth, Slot, Offset
  <2>. QED  BY <2>1, <2>2
<1>2. CASE ~IsBuildCall
  <2>1. PadAt(ip) = 0 /\ PadAt(ip + 1) = 0 /\ ip = 9 + i
    BY <1>2 DEF PadAt, SaveAt
  <2>. QED  BY <1>2, <2>1, Numbers DEF Depth, Slot, Offset
<1>. QED  BY <1>1, <1>2

LEMMA LoadDepth ==
    ASSUME allow_return \in ReturnType, NEW i \in 0 .. 5, Loaded(i),
           ip = LoadAt(i)
    PROVE  /\ Depth(ip + 1) = Depth(ip)
           /\ Depth(ip) + Offset(i) = Slot(i)
           /\ CallAt < ip /\ ip < UndoAt /\ (~IsBuildCall => ip > 17)
           /\ Saved(i) /\ SaveAt(i) < ip
<1>1. CASE IsBuildCall
  <2>1. CASE i = 0
    <3>1. ip = CallAt + 1 /\ Z = 1
      BY <1>1, <2>1 DEF LoadAt, Loaded
    <3>2. PadAt(ip) = A /\ PadAt(ip + 1) = A
      BY <1>1, <3>1, Numbers DEF PadAt
    <3>. QED
      BY <1>1, <2>1, <3>1, <3>2, Numbers DEF Depth, Slot, Offset, Saved, SaveAt
  <2>2. CASE i # 0
    <3>1. ip = CallAt + Z + A + i
      BY <1>1, <2>2 DEF LoadAt
    <3>2. PadAt(ip) = 0 /\ PadAt(ip + 1) = 0
      BY <1>1, <2>2, <3>1, Numbers DEF PadAt
    <3>. QED
      BY <1>1, <2>2, <3>1, <3>2, Numbers DEF Depth, Slot, Offset, Saved, SaveAt
  <2>. QED  BY <2>1, <2>2
<1>2. CASE ~IsBuildCall
  <2>1. PadAt(ip) = 0 /\ PadAt(ip + 1) = 0 /\ ip = 17 + Z + i
    BY <1>2 DEF PadAt, LoadAt
  <2>2. i = 0 => Z = 1
    BY DEF Loaded
  <2>. QED
    BY <1>2, <2>1, <2>2, Numbers DEF Depth, Slot, Offset, Saved, SaveAt
<1>. QED  BY <1>1, <1>2

LEMMA CallDepth ==
    ASSUME allow_return \in ReturnType, ip = CallAt
    PROVE  /\ Depth(ip + 1) = Depth(ip)
           /\ Depth(ip) = IF IsBuildCall THEN -(2 * A + 18) ELSE -24
<1>1. PadAt(ip) = (IF IsBuildCall THEN A ELSE 0) /\ PadAt(ip + 1) = PadAt(ip)
  BY Numbers DEF PadAt
<1>. QED  BY <1>1, Numbers DEF Depth

LEMMA PadDepth ==
    ASSUME allow_return \in ReturnType, IsBuildCall, A = 1
    PROVE  /\ Depth(15) = Depth(14) - 1
           /\ ip = CallAt + Z + 1 => Depth(ip + 1) = Depth(ip) + 1
<1>1. /\ PadAt(14) = 0 /\ PadAt(15) = 1
      /\ ip = CallAt + Z + 1 => PadAt(ip) = 1 /\ PadAt(ip + 1) = 0
  BY Numbers DEF PadAt
<1>. QED  BY <1>1, Numbers DEF Depth

LEMMA CallerDepth ==
    ASSUME allow_return \in ReturnType, ~IsBuildCall
    PROVE  Depth(16) = Depth(15) /\ Depth(18) = Depth(17)
<1>1. \A p \in {15, 16, 17, 18} : PadAt(p) = 0
  BY DEF PadAt
<1>. QED  BY <1>1, Numbers DEF Depth

LEMMA UndoDepth ==
    ASSUME allow_return \in ReturnType, ip = UndoAt
    PROVE  Depth(ip + 1) = Depth(ip) + Frame
<1>1. PadAt(ip) = 0
  BY Numbers DEF PadAt
<1>. QED  BY <1>1, Numbers DEF Depth

LEMMA PopDepth ==
    ASSUME allow_return \in ReturnType, NEW j \in 0 .. 6, ip = UndoAt + 7 - j,
           ip \in 1 .. Last
    PROVE  /\ Depth(ip) = -(A + j) /\ Depth(ip + 1) = Depth(ip) + 1
           /\ A + j \in 1 .. 7 /\ UndoAt < ip
           /\ j > 0 \/ A = 1
BY Numbers DEF Depth

LEMMA Names ==
    /\ \A j \in 0 .. 6 : PreservedOrder[j + 1] \in Volatile
    /\ \A i \in 0 .. 5 : Xmm[i + 1] \in Volatile
    /\ Volatile \subseteq Values /\ {"callback", "caller", "torn"} \subseteq Values
<1>1. \A j \in 1 .. 7 : PreservedOrder[j] \in Volatile
  BY DEF PreservedOrder, Volatile, Integer
<1>2. \A i \in 0 .. 5 : i + 1 \in 1 .. 6
  OBVIOUS
<1>. QED  BY <1>1, <1>2 DEF Volatile, Values

LEMMA ControlInit == Init => ControlInv
<1>. SUFFICES ASSUME Init PROVE ControlInv
  OBVIOUS
<1>1. TypeOK
  <2>1. \A r \in Volatile : r \in Values
    BY Names
  <2>2. regs \in [Volatile -> Values]
    BY <2>1 DEF Init
  <2>3. Word("caller", 0) \in [value : Values, part : 0 .. 2]
    BY Names DEF Word
  <2>4. stack \in [Words -> [value : Values, part : 0 .. 2]]
    BY <2>3 DEF Init
  <2>. QED  BY <2>2, <2>4 DEF Init, TypeOK
<1>2. Position
  BY Numbers DEF Init, Position, Depth
<1>. QED  BY <1>1, <1>2 DEF ControlInv

LEMMA ControlStep == ControlInv /\ [Next]_vars => ControlInv'
<1>. SUFFICES ASSUME ControlInv, [Next]_vars PROVE ControlInv'
  OBVIOUS
<1>. USE DEF ControlInv
<1>1. CASE UNCHANGED vars
  <2>1. form' = form /\ allow_return' = allow_return /\ ip' = ip
    BY <1>1 DEF vars
  <2>2. TypeOK'
    BY <1>1 DEF vars, TypeOK
  <2>3. Depth(ip)' = Depth(ip)
    BY <2>1, Steady DEF Depth, PadAt
  <2>. QED  BY <1>1, <2>1, <2>2, <2>3, Steady DEF vars, Position
<1>2. CASE Next /\ ip = Last + 1
  <2>1. ip \notin DOMAIN code
    BY <1>2, InstructionAt DEF TypeOK, Position
  <2>2. UNCHANGED vars
    BY <1>2, <2>1 DEF Next, Fetch, ExecPush, ExecPop, ExecAdd, ExecLea,
       ExecStore, ExecLoad, ExecCall, ExecArgumentSetup, ExecResultHandling,
       Finished
  <2>. QED  BY <1>1, <2>2
<1>3. CASE Next /\ ip \in 1 .. Last
  <2>. DEFINE Data == /\ regs' \in [Volatile -> Values]
                     /\ stack' \in [Words -> [value : Values, part : 0 .. 2]]
              FlagsOK == /\ flags' \in {"entry", "arithmetic", "callback",
                                        "result_handling"}
                         /\ ~IsBuildCall /\ ip + 1 > 17 =>
                              flags' = "result_handling"
              Goal == Data /\ rsp' = Depth(ip + 1) /\ FlagsOK
  <2>1. allow_return \in ReturnType /\ rsp = Depth(ip)
    BY DEF TypeOK, Position
  <2>2. /\ ip \in DOMAIN code /\ Len(code) = Last /\ AnyInstruction
        /\ ip' = ip + 1 /\ form' = form /\ allow_return' = allow_return
    BY <1>3, <2>1, InstructionAt, Effects
  <2>3. ASSUME Goal PROVE ControlInv'
    <3>1. Depth(ip)' = Depth(ip + 1)
      BY <2>2, Steady DEF Depth, PadAt
    <3>2. Depth(ip + 1) \in -24 .. 0
      BY <1>3, <2>1, DepthRange, Numbers
    <3>3. TypeOK'
      <4>1. form' \in Forms /\ allow_return' \in ReturnType
        BY <2>2 DEF TypeOK
      <4>2. ip' \in Nat
        BY <1>3, <2>2
      <4>3. rsp' \in Words \cup {0}
        BY <2>3, <3>2 DEF Words
      <4>. QED  BY <2>3, <4>1, <4>2, <4>3 DEF TypeOK
    <3>4. Last' = Last /\ (IsBuildCall' <=> IsBuildCall) /\ Last \in Nat
      BY <2>1, <2>2, Steady, Numbers
    <3>5. Position'
      BY <1>3, <2>2, <2>3, <3>1, <3>4 DEF Position
    <3>. QED  BY <3>3, <3>5
  <2>4. /\ regs \in [Volatile -> Values]
        /\ stack \in [Words -> [value : Values, part : 0 .. 2]]
        /\ rsp \in Int
        /\ flags \in {"entry", "arithmetic", "callback", "result_handling"}
        /\ ~IsBuildCall /\ ip > 17 => flags = "result_handling"
    BY DEF TypeOK, Position, Words
  <2>5. \A v \in Values, k \in 0 .. 2 :
          Word(v, k) \in [value : Values, part : 0 .. 2]
    BY DEF Word
  <2>6. CASE IsPush
    <3>1. PICK j \in 0 .. 6 : /\ j > 0 \/ A = 1
                             /\ ip = A + j
                             /\ code[ip] = Push(PreservedOrder[j + 1])
      BY <2>6 DEF IsPush
    <3>2. /\ rsp' = rsp - 1 /\ regs' = regs /\ flags' = flags
          /\ stack' = [stack EXCEPT ![rsp - 1] =
                         Word(regs[PreservedOrder[j + 1]], 0)]
      BY <1>3, <2>2, <3>1, Effects
    <3>3. Word(regs[PreservedOrder[j + 1]], 0) \in [value : Values, part : 0 .. 2]
      BY <2>4, <2>5, Names
    <3>4. Data
      BY <2>4, <3>2, <3>3
    <3>5. rsp' = Depth(ip + 1) /\ ip \in 1 .. 7
      BY <1>3, <2>1, <3>1, <3>2, PushDepth
    <3>6. FlagsOK
      BY <2>4, <3>2, <3>5
    <3>. QED  BY <2>3, <3>4, <3>5, <3>6
  <2>7. CASE IsReserve
    <3>1. ip = A + 7 /\ code[ip] = Add(-Frame)
      BY <2>7 DEF IsReserve
    <3>2. /\ rsp' = rsp + (-Frame) /\ flags' = "arithmetic"
          /\ regs' = regs /\ stack' = stack
      BY <1>3, <2>2, <3>1, Effects
    <3>3. rsp' = Depth(ip + 1)
      BY <2>1, <2>4, <3>1, <3>2, ReserveDepth, Numbers
    <3>4. FlagsOK
      BY <2>1, <3>1, <3>2, Numbers
    <3>. QED  BY <2>3, <2>4, <3>2, <3>3, <3>4
  <2>8. CASE IsStore
    <3>1. PICK i \in 0 .. 5 : /\ Saved(i)
                             /\ ip = SaveAt(i)
                             /\ code[ip] = Store(Xmm[i + 1], Offset(i))
      BY <2>8 DEF IsStore
    <3>2. /\ stack' = [stack EXCEPT ![rsp + Offset(i)] = Word(regs[Xmm[i + 1]], 1),
                                   ![rsp + Offset(i) + 1] = Word(regs[Xmm[i + 1]], 2)]
          /\ regs' = regs /\ rsp' = rsp /\ flags' = flags
      BY <1>3, <2>2, <3>1, Effects
    <3>3. /\ Word(regs[Xmm[i + 1]], 1) \in [value : Values, part : 0 .. 2]
          /\ Word(regs[Xmm[i + 1]], 2) \in [value : Values, part : 0 .. 2]
      BY <2>4, <2>5, Names
    <3>4. Data
      BY <2>4, <3>2, <3>3
    <3>5. rsp' = Depth(ip + 1) /\ (~IsBuildCall => ip < 15)
      BY <2>1, <3>1, <3>2, StoreDepth
    <3>6. FlagsOK
      BY <1>3, <2>4, <3>2, <3>5
    <3>. QED  BY <2>3, <3>4, <3>5, <3>6
  <2>9. CASE IsPad
    <3>1. /\ rsp' = rsp + (-1) /\ flags' = "arithmetic"
          /\ regs' = regs /\ stack' = stack
      BY <1>3, <2>2, <2>9, Effects DEF IsPad
    <3>2. rsp' = Depth(ip + 1)
      BY <2>1, <2>4, <2>9, <3>1, PadDepth DEF IsPad
    <3>. QED  BY <2>3, <2>4, <2>9, <3>1, <3>2 DEF IsPad
  <2>10. CASE IsArgumentSetup
    <3>1. ExecArgumentSetup /\ ip = 15 /\ ~IsBuildCall
      BY <1>3, <2>2, <2>10, Effects DEF IsArgumentSetup
    <3>2. Data
      BY <2>4, <3>1, Names DEF ExecArgumentSetup
    <3>3. rsp' = Depth(ip + 1)
      BY <2>1, <3>1, CallerDepth DEF ExecArgumentSetup
    <3>. QED  BY <2>3, <3>1, <3>2, <3>3 DEF ExecArgumentSetup
  <2>11. CASE IsCall
    <3>1. ExecCall /\ ip = CallAt
      BY <1>3, <2>2, <2>11, Effects DEF IsCall
    <3>2. PICK home \in HomeUses[form] :
            stack' = [w \in Words |->
                       IF w < rsp \/ w - rsp \in home THEN Word("callback", 0)
                       ELSE stack[w]]
      BY <3>1 DEF ExecCall
    <3>3. Word("callback", 0) \in [value : Values, part : 0 .. 2]
      BY <2>5, Names
    <3>4. Data
      BY <2>4, <3>1, <3>2, <3>3, Names DEF ExecCall
    <3>5. rsp' = Depth(ip + 1)
      BY <2>1, <3>1, CallDepth DEF ExecCall
    <3>6. FlagsOK
      BY <2>1, <3>1, Numbers DEF ExecCall
    <3>. QED  BY <2>3, <3>4, <3>5, <3>6
  <2>12. CASE IsResultHandling
    <3>1. ExecResultHandling /\ ip = 17 /\ ~IsBuildCall
      BY <1>3, <2>2, <2>12, Effects DEF IsResultHandling
    <3>2. Data
      BY <2>4, <3>1, Names DEF ExecResultHandling
    <3>3. rsp' = Depth(ip + 1)
      BY <2>1, <3>1, CallerDepth DEF ExecResultHandling
    <3>. QED  BY <2>3, <3>1, <3>2, <3>3 DEF ExecResultHandling
  <2>13. CASE IsLoad
    <3>1. PICK i \in 0 .. 5 : /\ Loaded(i)
                             /\ ip = LoadAt(i)
                             /\ code[ip] = Load(Xmm[i + 1], Offset(i))
      BY <2>13 DEF IsLoad
    <3>. DEFINE w == rsp + Offset(i)
                v == IF /\ stack[w] = Word(stack[w].value, 1)
                        /\ stack[w + 1] = Word(stack[w].value, 2)
                     THEN stack[w].value
                     ELSE "torn"
    <3>2. /\ regs' = [regs EXCEPT ![Xmm[i + 1]] = v]
          /\ rsp' = rsp /\ stack' = stack /\ flags' = flags
      BY <1>3, <2>2, <3>1, Effects
    <3>3. /\ rsp' = Depth(ip + 1) /\ w = Slot(i)
          /\ ~IsBuildCall => ip > 17
      BY <2>1, <3>1, <3>2, LoadDepth
    <3>4. Slot(i) \in Words
      BY <2>1, Numbers DEF Slot, Words
    <3>5. v \in Values
      BY <2>4, <3>3, <3>4, Names
    <3>6. Data
      <4>. HIDE DEF v
      <4>. QED  BY <2>4, <3>2, <3>5
    <3>7. FlagsOK
      BY <1>3, <2>4, <3>2, <3>3
    <3>. QED  BY <2>3, <3>3, <3>6, <3>7
  <2>14. CASE IsUnpad
    <3>1. /\ rsp' = rsp + 1 /\ flags' = "arithmetic"
          /\ regs' = regs /\ stack' = stack
      BY <1>3, <2>2, <2>14, Effects DEF IsUnpad
    <3>2. rsp' = Depth(ip + 1)
      BY <2>1, <2>4, <2>14, <3>1, PadDepth DEF IsUnpad
    <3>. QED  BY <2>3, <2>4, <2>14, <3>1, <3>2 DEF IsUnpad
  <2>15. CASE IsUndo
    <3>1. /\ rsp' = rsp + Frame /\ regs' = regs /\ stack' = stack
          /\ flags' = IF IsBuildCall THEN "arithmetic" ELSE flags
      BY <1>3, <2>2, <2>15, Effects DEF IsUndo, Frame
    <3>2. rsp' = Depth(ip + 1)
      BY <2>1, <2>15, <3>1, UndoDepth DEF IsUndo
    <3>3. FlagsOK
      BY <2>1, <2>4, <2>15, <3>1, Numbers DEF IsUndo
    <3>. QED  BY <2>3, <2>4, <3>1, <3>2, <3>3
  <2>16. CASE IsPop
    <3>1. PICK j \in 0 .. 6 : /\ j > 0 \/ allow_return # "Rax"
                             /\ ip = UndoAt + 7 - j
                             /\ code[ip] = Pop(PreservedOrder[j + 1])
      BY <2>16 DEF IsPop
    <3>. DEFINE v == IF stack[rsp].part = 0 THEN stack[rsp].value ELSE "torn"
    <3>2. /\ rsp' = rsp + 1 /\ stack' = stack /\ flags' = flags
          /\ regs' = [regs EXCEPT ![PreservedOrder[j + 1]] = v]
      BY <1>3, <2>2, <3>1, Effects
    <3>3. rsp' = Depth(ip + 1) /\ rsp \in Words /\ UndoAt < ip
      BY <1>3, <2>1, <3>1, <3>2, PopDepth, Numbers DEF Words
    <3>4. v \in Values
      BY <2>4, <3>3, Names
    <3>5. Data
      <4>. HIDE DEF v
      <4>. QED  BY <2>4, <3>2, <3>4
    <3>6. FlagsOK
      BY <1>3, <2>1, <2>4, <3>2, <3>3, Numbers
    <3>. QED  BY <2>3, <3>3, <3>5, <3>6
  <2>17. CASE IsDiscard
    <3>1. /\ rsp' = rsp + 1 /\ flags' = flags
          /\ regs' = regs /\ stack' = stack
      BY <1>3, <2>2, <2>17, Effects DEF IsDiscard
    <3>2. rsp' = Depth(ip + 1)
      <4>1. ip = UndoAt + 7 - 0 /\ 0 \in 0 .. 6
        BY <2>1, <2>17, Numbers DEF IsDiscard
      <4>. QED  BY <1>3, <2>1, <3>1, <4>1, PopDepth
    <3>3. FlagsOK
      BY <2>1, <2>4, <2>17, <3>1, Numbers DEF IsDiscard
    <3>. QED  BY <2>3, <2>4, <3>1, <3>2, <3>3
  <2>. QED
    BY <2>2, <2>6, <2>7, <2>8, <2>9, <2>10, <2>11, <2>12, <2>13, <2>14, <2>15,
       <2>16, <2>17 DEF AnyInstruction
<1>. QED
  <2>1. allow_return \in ReturnType /\ ip \in 1 .. Last + 1
    BY DEF TypeOK, Position
  <2>2. Last \in Nat
    BY <2>1, Numbers
  <2>. QED  BY <1>1, <1>2, <1>3, <2>1, <2>2

LEMMA ControlAlways == Spec => []ControlInv
<1>1. Init => ControlInv
  BY ControlInit
<1>2. ControlInv /\ [Next]_vars => ControlInv'
  BY ControlStep
<1>. QED  BY <1>1, <1>2, PTL DEF Spec

(***************************************************************************)
(* In every state of the execution of either generator's code, for every   *)
(* return type and every home use, RSP is within the words the model has   *)
(* and every register and word holds a value (arch.rs 50-148).             *)
(***************************************************************************)
THEOREM TypeCorrect == Spec => []TypeOK
<1>1. ControlInv => TypeOK
  BY DEF ControlInv
<1>. QED  BY <1>1, ControlAlways, PTL

(***************************************************************************)
(* RSP is aligned to 16 bytes at the call of each of the six variants,     *)
(* whatever its callback does (arch.rs 5-8 and 101-104): there is one call *)
(* in the code and the words pushed and reserved before it are even.       *)
(***************************************************************************)
THEOREM CallsAreAligned == Spec => []CallIsAligned
<1>1. ControlInv => CallIsAligned
  <2>. SUFFICES ASSUME ControlInv, ip \in DOMAIN code, code[ip].op = "call"
                PROVE  rsp % 2 = 0
    BY DEF CallIsAligned
  <2>1. allow_return \in ReturnType /\ rsp = Depth(ip)
    BY DEF ControlInv, TypeOK, Position
  <2>2. AnyInstruction /\ ip \in 1 .. Last
    BY <2>1, InstructionAt
  <2>3. code[ip].op = "call" => IsCall
    BY <2>2 DEF AnyInstruction, IsPush, IsReserve, IsStore, IsPad,
       IsArgumentSetup, IsResultHandling, IsLoad, IsUnpad, IsUndo, IsPop,
       IsDiscard, Push, Pop, Add, Lea, Store, Load, ArgumentSetup,
       ResultHandling
  <2>4. rsp = IF IsBuildCall THEN -(2 * A + 18) ELSE -24
    BY <2>1, <2>3, CallDepth DEF IsCall
  <2>. QED  BY <2>1, <2>4, Numbers
<1>. QED  BY <1>1, ControlAlways, PTL

(***************************************************************************)
(* What result_handling left in the flags is still there when the          *)
(* preserved call has ended, for every return type: the room on the stack  *)
(* is given back with LEA (arch.rs 118-144).                               *)
(***************************************************************************)
THEOREM DecisionsSurvive == Spec => []DecisionSurvives
<1>1. ControlInv => DecisionSurvives
  <2>. SUFFICES ASSUME ControlInv, ip > Len(code),
                       form = "push_preserved_call"
                PROVE  flags = "result_handling"
    BY DEF DecisionSurvives
  <2>1. /\ allow_return \in ReturnType /\ ip \in 1 .. Last + 1
        /\ ~IsBuildCall /\ ip > 17 => flags = "result_handling"
    BY DEF ControlInv, TypeOK, Position
  <2>2. ~IsBuildCall
    BY DEF IsBuildCall
  <2>3. ip = Last + 1
    BY <2>1, InstructionAt, Numbers
  <2>. QED  BY <2>1, <2>2, <2>3, Numbers
<1>. QED  BY <1>1, ControlAlways, PTL
-----------------------------------------------------------------------------
(* Saving and restoring.                                                   *)

(***************************************************************************)
(* The callbacks that patch_call supports.  build_call gives its callback  *)
(* no home area of its own, so that one that writes to it writes to what   *)
(* was saved (run generated_call_home); preserved calls need no such       *)
(* condition.                                                              *)
(***************************************************************************)
LeafCallbacks ==
    "build_call" \in Forms => HomeUses["build_call"] \subseteq {{}}

(* What a step changes, by kind. *)
PushStep(j) ==
    /\ j > 0 \/ A = 1
    /\ ip = A + j
    /\ regs' = regs
    /\ stack' = [stack EXCEPT ![-(A + j)] = Word(regs[PreservedOrder[j + 1]], 0)]
StoreStep(i) ==
    /\ Saved(i) /\ ip = SaveAt(i)
    /\ regs' = regs
    /\ stack' = [stack EXCEPT ![Slot(i)] = Word(regs[Xmm[i + 1]], 1),
                              ![Slot(i) + 1] = Word(regs[Xmm[i + 1]], 2)]
LoadStep(i) ==
    /\ Loaded(i) /\ ip = LoadAt(i)
    /\ stack' = stack
    /\ regs' = [regs EXCEPT ![Xmm[i + 1]] =
                  IF /\ stack[Slot(i)] = Word(stack[Slot(i)].value, 1)
                     /\ stack[Slot(i) + 1] = Word(stack[Slot(i)].value, 2)
                  THEN stack[Slot(i)].value
                  ELSE "torn"]
PopStep(j) ==
    /\ j > 0 \/ allow_return # "Rax"
    /\ j > 0 \/ A = 1
    /\ ip = UndoAt + 7 - j
    /\ stack' = stack
    /\ regs' = [regs EXCEPT ![PreservedOrder[j + 1]] =
                  IF stack[-(A + j)].part = 0 THEN stack[-(A + j)].value
                  ELSE "torn"]
CallStep ==
    /\ ip = CallAt
    /\ regs' = [r \in Volatile |-> "callback"]
    /\ \A w \in Words :
         w >= (IF IsBuildCall THEN -(2 * A + 18) ELSE -20) => stack'[w] = stack[w]
CallerStep ==
    /\ ~IsBuildCall /\ ip \in {15, 17}
    /\ stack' = stack
    /\ ip = 17 /\ allow_return # "None" =>
         regs'[ReturnRegister] = regs[ReturnRegister]
QuietStep ==
    /\ \/ ip = A + 7 \/ ip = UndoAt
       \/ IsBuildCall /\ A = 1 /\ (ip = 14 \/ ip = CallAt + Z + 1)
       \/ ~IsBuildCall /\ allow_return = "Rax" /\ ip = UndoAt + 7
    /\ regs' = regs /\ stack' = stack

LEMMA Steps ==
    ASSUME ControlInv, LeafCallbacks, Next, ip \in 1 .. Last
    PROVE  /\ ip' = ip + 1 /\ form' = form /\ allow_return' = allow_return
           /\ \/ \E j \in 0 .. 6 : PushStep(j)
              \/ \E i \in 0 .. 5 : StoreStep(i)
              \/ \E i \in 0 .. 5 : LoadStep(i)
              \/ \E j \in 0 .. 6 : PopStep(j)
              \/ CallStep \/ CallerStep \/ QuietStep
<1>1. /\ allow_return \in ReturnType /\ rsp = Depth(ip)
      /\ regs \in [Volatile -> Values] /\ form \in Forms
      /\ stack \in [Words -> [value : Values, part : 0 .. 2]]
  BY DEF ControlInv, TypeOK, Position
<1>2. /\ ip \in DOMAIN code /\ Len(code) = Last /\ AnyInstruction
      /\ ip' = ip + 1 /\ form' = form /\ allow_return' = allow_return
  BY <1>1, InstructionAt, Effects
<1>3. CASE IsPush
  <2>1. PICK j \in 0 .. 6 : /\ j > 0 \/ A = 1
                           /\ ip = A + j
                           /\ code[ip] = Push(PreservedOrder[j + 1])
    BY <1>3 DEF IsPush
  <2>2. /\ regs' = regs
        /\ stack' = [stack EXCEPT ![rsp - 1] =
                       Word(regs[PreservedOrder[j + 1]], 0)]
    BY <1>2, <2>1, Effects
  <2>3. rsp - 1 = -(A + j)
    BY <1>1, <2>1, PushDepth
  <2>4. PushStep(j)
    BY <2>1, <2>2, <2>3 DEF PushStep
  <2>. QED  BY <1>2, <2>4
<1>4. CASE IsStore
  <2>1. PICK i \in 0 .. 5 : /\ Saved(i)
                           /\ ip = SaveAt(i)
                           /\ code[ip] = Store(Xmm[i + 1], Offset(i))
    BY <1>4 DEF IsStore
  <2>2. /\ stack' = [stack EXCEPT ![rsp + Offset(i)] = Word(regs[Xmm[i + 1]], 1),
                                 ![rsp + Offset(i) + 1] = Word(regs[Xmm[i + 1]], 2)]
        /\ regs' = regs
    BY <1>2, <2>1, Effects
  <2>3. rsp + Offset(i) = Slot(i)
    BY <1>1, <2>1, StoreDepth
  <2>4. StoreStep(i)
    BY <2>1, <2>2, <2>3 DEF StoreStep
  <2>. QED  BY <1>2, <2>4
<1>5. CASE IsLoad
  <2>1. PICK i \in 0 .. 5 : /\ Loaded(i)
                           /\ ip = LoadAt(i)
                           /\ code[ip] = Load(Xmm[i + 1], Offset(i))
    BY <1>5 DEF IsLoad
  <2>. DEFINE w == rsp + Offset(i)
  <2>2. /\ regs' = [regs EXCEPT ![Xmm[i + 1]] =
              IF /\ stack[w] = Word(stack[w].value, 1)
                 /\ stack[w + 1] = Word(stack[w].value, 2)
              THEN stack[w].value
              ELSE "torn"]
        /\ stack' = stack
    BY <1>2, <2>1, Effects
  <2>3. w = Slot(i)
    BY <1>1, <2>1, LoadDepth
  <2>. HIDE DEF w
  <2>4. LoadStep(i)
    BY <2>1, <2>2, <2>3 DEF LoadStep
  <2>. QED  BY <1>2, <2>4
<1>6. CASE IsPop
  <2>1. PICK j \in 0 .. 6 : /\ j > 0 \/ allow_return # "Rax"
                           /\ ip = UndoAt + 7 - j
                           /\ code[ip] = Pop(PreservedOrder[j + 1])
    BY <1>6 DEF IsPop
  <2>2. /\ regs' = [regs EXCEPT ![PreservedOrder[j + 1]] =
              IF stack[rsp].part = 0 THEN stack[rsp].value ELSE "torn"]
        /\ stack' = stack
    BY <1>2, <2>1, Effects
  <2>3. rsp = -(A + j) /\ (j > 0 \/ A = 1)
    BY <1>1, <2>1, PopDepth
  <2>4. PopStep(j)
    BY <2>1, <2>2, <2>3 DEF PopStep
  <2>. QED  BY <1>2, <2>4
<1>7. CASE IsCall
  <2>1. ExecCall /\ ip = CallAt
    BY <1>2, <1>7, Effects DEF IsCall
  <2>2. PICK home \in HomeUses[form] :
          stack' = [w \in Words |->
                     IF w < rsp \/ w - rsp \in home THEN Word("callback", 0)
                     ELSE stack[w]]
    BY <2>1 DEF ExecCall
  <2>3. rsp = IF IsBuildCall THEN -(2 * A + 18) ELSE -24
    BY <1>1, <2>1, CallDepth
  <2>4. home \subseteq 0 .. 3 /\ (IsBuildCall => home = {})
    <3>1. form \in Generators
      BY <1>1, CallAssumption
    <3>2. home \subseteq 0 .. 3
      BY <3>1, CallAssumption DEF HomeArea
    <3>3. IsBuildCall => home = {}
      BY <1>1 DEF IsBuildCall, LeafCallbacks
    <3>. QED  BY <3>2, <3>3
  <2>5. ASSUME NEW w \in Words,
               w >= (IF IsBuildCall THEN -(2 * A + 18) ELSE -20)
        PROVE  stack'[w] = stack[w]
    <3>1. ~(w < rsp) /\ w - rsp \notin home
      BY <1>1, <2>3, <2>4, <2>5, Numbers DEF Words
    <3>. QED  BY <2>2, <3>1
  <2>6. CallStep
    BY <2>1, <2>5 DEF CallStep, ExecCall
  <2>. QED  BY <1>2, <2>6
<1>8. CASE IsArgumentSetup
  BY <1>2, <1>8, Effects DEF IsArgumentSetup, ExecArgumentSetup, CallerStep
<1>9. CASE IsResultHandling
  <2>1. ExecResultHandling /\ ip = 17 /\ ~IsBuildCall
    BY <1>2, <1>9, Effects DEF IsResultHandling
  <2>2. ReturnRegister \in Volatile
    BY Names, Orders DEF ReturnRegister, Volatile, Integer
  <2>. QED  BY <1>2, <2>1, <2>2 DEF ExecResultHandling, CallerStep
<1>10. CASE IsReserve \/ IsPad \/ IsUnpad \/ IsUndo \/ IsDiscard
  <2>1. \E k : code[ip] = Add(k) \/ code[ip] = Lea(k)
    BY <1>10 DEF IsReserve, IsPad, IsUnpad, IsUndo, IsDiscard
  <2>2. regs' = regs /\ stack' = stack
    BY <1>2, <2>1, Effects
  <2>3. QuietStep
    BY <1>10, <2>2
       DEF IsReserve, IsPad, IsUnpad, IsUndo, IsDiscard, QuietStep
  <2>. QED  BY <1>2, <2>3
<1>. QED
  BY <1>2, <1>3, <1>4, <1>5, <1>6, <1>7, <1>8, <1>9, <1>10 DEF AnyInstruction

(* The registers are different ones, and there are no others. *)
LEMMA Distinct ==
    /\ \A i, k \in 0 .. 6 : PreservedOrder[i + 1] = PreservedOrder[k + 1] => i = k
    /\ \A i, k \in 0 .. 5 : Xmm[i + 1] = Xmm[k + 1] => i = k
    /\ \A i \in 0 .. 5, j \in 0 .. 6 : Xmm[i + 1] # PreservedOrder[j + 1]
    /\ \A r \in Volatile : \/ \E j \in 0 .. 6 : r = PreservedOrder[j + 1]
                          \/ \E i \in 0 .. 5 : r = Xmm[i + 1]
<1>1. /\ PreservedOrder[1] = "RAX" /\ PreservedOrder[2] = "RCX"
      /\ PreservedOrder[3] = "RDX" /\ PreservedOrder[4] = "R8"
      /\ PreservedOrder[5] = "R9" /\ PreservedOrder[6] = "R10"
      /\ PreservedOrder[7] = "R11"
  BY DEF PreservedOrder
<1>2. /\ Xmm[1] = "XMM0" /\ Xmm[2] = "XMM1" /\ Xmm[3] = "XMM2"
      /\ Xmm[4] = "XMM3" /\ Xmm[5] = "XMM4" /\ Xmm[6] = "XMM5"
  BY DEF Xmm
<1>3. \A j \in 0 .. 6 : j = 0 \/ j = 1 \/ j = 2 \/ j = 3 \/ j = 4 \/ j = 5 \/ j = 6
  OBVIOUS
<1>4. \A i \in 0 .. 5 : i = 0 \/ i = 1 \/ i = 2 \/ i = 3 \/ i = 4 \/ i = 5
  OBVIOUS
<1>5. \A i, k \in 0 .. 6 : PreservedOrder[i + 1] = PreservedOrder[k + 1] => i = k
  BY <1>1, <1>3
<1>6. \A i, k \in 0 .. 5 : Xmm[i + 1] = Xmm[k + 1] => i = k
  BY <1>2, <1>4
<1>7. \A i \in 0 .. 5, j \in 0 .. 6 : Xmm[i + 1] # PreservedOrder[j + 1]
  BY <1>1, <1>2, <1>3, <1>4
<1>8. ASSUME NEW r \in Volatile
      PROVE  \/ \E j \in 0 .. 6 : r = PreservedOrder[j + 1]
             \/ \E i \in 0 .. 5 : r = Xmm[i + 1]
  <2>1. CASE r \in Integer
    <3>1. \E j \in 1 .. 7 : r = PreservedOrder[j]
      BY <1>1, <2>1 DEF Integer
    <3>. QED
      <4>1. PICK j \in 1 .. 7 : r = PreservedOrder[j]
        BY <3>1
      <4>2. j - 1 \in 0 .. 6 /\ (j - 1) + 1 = j
        OBVIOUS
      <4>. QED  BY <4>1, <4>2
  <2>2. CASE r \notin Integer
    <3>1. PICK i \in 1 .. 6 : r = Xmm[i]
      BY <2>2 DEF Volatile
    <3>2. i - 1 \in 0 .. 5 /\ (i - 1) + 1 = i
      OBVIOUS
    <3>. QED  BY <3>1, <3>2
  <2>. QED  BY <2>1, <2>2
<1>. QED  BY <1>5, <1>6, <1>7, <1>8

(* The slots do not overlap each other or the pushed words. *)
LEMMA SlotsApart ==
    ASSUME allow_return \in ReturnType
    PROVE  /\ \A i \in 0 .. 5 :
                /\ Slot(i) \in Words /\ Slot(i) + 1 \in Words
                /\ Slot(i) + 1 < -(A + 6)
                /\ Slot(i) >= IF IsBuildCall THEN -(2 * A + 18) ELSE -20
           /\ \A i, k \in 0 .. 5 : i # k =>
                Slot(i) + 1 < Slot(k) \/ Slot(k) + 1 < Slot(i)
           /\ \A j \in 0 .. 6 : (j > 0 \/ A = 1) =>
                -(A + j) \in Words /\ -(A + j) >= -(A + 6) /\ -(A + j) >= -7
<1>1. \A i \in 0 .. 5 :
        /\ Slot(i) \in Words /\ Slot(i) + 1 \in Words
        /\ Slot(i) + 1 < -(A + 6)
        /\ Slot(i) >= IF IsBuildCall THEN -(2 * A + 18) ELSE -20
  BY Numbers DEF Slot, Words
<1>2. \A i, k \in 0 .. 5 : i # k =>
        Slot(i) + 1 < Slot(k) \/ Slot(k) + 1 < Slot(i)
  BY Numbers DEF Slot
<1>3. \A j \in 0 .. 6 : (j > 0 \/ A = 1) =>
        -(A + j) \in Words /\ -(A + j) >= -(A + 6) /\ -(A + j) >= -7
  BY Numbers DEF Words
<1>. QED  BY <1>1, <1>2, <1>3

(* In which order the instructions come. *)
LEMMA Places ==
    ASSUME allow_return \in ReturnType
    PROVE  /\ A + 7 < Untouched /\ Untouched <= CallAt /\ CallAt < UndoAt
           /\ ~IsBuildCall => CallAt = 16 /\ Untouched = 15
           /\ IsBuildCall /\ A = 1 => 14 < CallAt /\ CallAt + Z + 1 < UndoAt
           /\ A + 7 < 14 /\ A + 7 < 15
           /\ {A, CallAt, UndoAt, Untouched, Z} \subseteq Nat
           /\ \A i \in 0 .. 5 :
                /\ Saved(i) => /\ A + 7 < SaveAt(i) /\ SaveAt(i) < Untouched
                               /\ SaveAt(i) \in Nat
                               /\ IsBuildCall /\ A = 1 => SaveAt(i) # 14
                /\ Loaded(i) => /\ CallAt < LoadAt(i) /\ LoadAt(i) < UndoAt
                                /\ LoadAt(i) \in Nat
                                /\ ~IsBuildCall => LoadAt(i) > 17
                                /\ IsBuildCall /\ A = 1 =>
                                     LoadAt(i) # CallAt + Z + 1
                                /\ Saved(i)
           /\ \A i, k \in 0 .. 5 :
                /\ Saved(i) /\ Saved(k) /\ SaveAt(i) = SaveAt(k) => i = k
                /\ Loaded(i) /\ Loaded(k) /\ LoadAt(i) = LoadAt(k) => i = k
<1>1. /\ A + 7 < Untouched /\ Untouched <= CallAt /\ CallAt < UndoAt
      /\ ~IsBuildCall => CallAt = 16 /\ Untouched = 15
      /\ IsBuildCall /\ A = 1 => 14 < CallAt /\ CallAt + Z + 1 < UndoAt
      /\ A + 7 < 14 /\ A + 7 < 15
      /\ {A, CallAt, UndoAt, Untouched, Z} \subseteq Nat
  BY Numbers DEF Untouched
<1>2. ASSUME NEW i \in 0 .. 5, Saved(i)
      PROVE  /\ A + 7 < SaveAt(i) /\ SaveAt(i) < Untouched
             /\ SaveAt(i) \in Nat
             /\ IsBuildCall /\ A = 1 => SaveAt(i) # 14
  BY <1>2, Numbers DEF Saved, SaveAt, Untouched
<1>3. ASSUME NEW i \in 0 .. 5, Loaded(i)
      PROVE  /\ CallAt < LoadAt(i) /\ LoadAt(i) < UndoAt
             /\ LoadAt(i) \in Nat
             /\ ~IsBuildCall => LoadAt(i) > 17
             /\ IsBuildCall /\ A = 1 => LoadAt(i) # CallAt + Z + 1
             /\ Saved(i)
  BY <1>3, Numbers DEF Saved, Loaded, LoadAt
<1>4. ASSUME NEW i \in 0 .. 5, NEW k \in 0 .. 5
      PROVE  /\ Saved(i) /\ Saved(k) /\ SaveAt(i) = SaveAt(k) => i = k
             /\ Loaded(i) /\ Loaded(k) /\ LoadAt(i) = LoadAt(k) => i = k
  BY Numbers DEF Saved, Loaded, SaveAt, LoadAt
<1>. QED  BY <1>1, <1>2, <1>3, <1>4

(* The invariant after a step, in the terms of the state before it. *)
LEMMA NextData ==
    ASSUME ip' = ip + 1, form' = form, allow_return' = allow_return,
           ip \in Nat,
           \A j \in 0 .. 6 : (j > 0 \/ A = 1) /\ A + j < ip + 1 =>
              stack'[-(A + j)] = Word(PreservedOrder[j + 1], 0),
           \A i \in 0 .. 5 : Saved(i) /\ SaveAt(i) < ip + 1 =>
              /\ stack'[Slot(i)] = Word(Xmm[i + 1], 1)
              /\ stack'[Slot(i) + 1] = Word(Xmm[i + 1], 2),
           ip + 1 <= Untouched => \A r \in Volatile : regs'[r] = r,
           \A i \in 0 .. 5 : Loaded(i) /\ LoadAt(i) < ip + 1 =>
              regs'[Xmm[i + 1]] = Xmm[i + 1],
           \A j \in 0 .. 6 :
              (j > 0 \/ allow_return # "Rax") /\ UndoAt + 7 - j < ip + 1 =>
                regs'[PreservedOrder[j + 1]] = PreservedOrder[j + 1],
           CallAt < ip + 1 /\ allow_return # "None" =>
              regs'[ReturnRegister] = "callback"
    PROVE  DataInv'
<1>1. IntegersSaved'
  BY Steady DEF IntegersSaved
<1>2. XmmSaved'
  BY Steady DEF XmmSaved
<1>3. RegistersUntouched'
  BY Steady DEF RegistersUntouched
<1>4. XmmRestored'
  BY Steady DEF XmmRestored
<1>5. IntegersRestored'
  BY Steady DEF IntegersRestored
<1>6. ResultKept'
  BY Steady DEF ResultKept
<1>. QED  BY <1>1, <1>2, <1>3, <1>4, <1>5, <1>6 DEF DataInv

LEMMA DataInit == Init => DataInv
<1>. SUFFICES ASSUME Init PROVE DataInv
  OBVIOUS
<1>1. allow_return \in ReturnType /\ ip = 1
  BY DEF Init
<1>2. IntegersSaved
  BY <1>1, Numbers DEF IntegersSaved
<1>3. XmmSaved
  BY <1>1, Places DEF XmmSaved
<1>4. RegistersUntouched
  BY DEF Init, RegistersUntouched
<1>5. XmmRestored
  BY <1>1, Places DEF XmmRestored
<1>6. IntegersRestored
  BY <1>1, Places DEF IntegersRestored
<1>7. ResultKept
  BY <1>1, Places DEF ResultKept
<1>. QED  BY <1>2, <1>3, <1>4, <1>5, <1>6, <1>7 DEF DataInv

LEMMA DataStep ==
    ASSUME ControlInv, LeafCallbacks, DataInv, Next, ip \in 1 .. Last
    PROVE  DataInv'
<1>1. /\ allow_return \in ReturnType /\ ip \in Nat
      /\ regs \in [Volatile -> Values]
      /\ stack \in [Words -> [value : Values, part : 0 .. 2]]
  BY DEF ControlInv, TypeOK
<1>2. ip' = ip + 1 /\ form' = form /\ allow_return' = allow_return
  BY Steps
<1>. DEFINE
       P(j) == PreservedOrder[j + 1]
       X(i) == Xmm[i + 1]
       Ints == \A j \in 0 .. 6 : (j > 0 \/ A = 1) /\ A + j < ip + 1 =>
                 stack'[-(A + j)] = Word(P(j), 0)
       Xmms == \A i \in 0 .. 5 : Saved(i) /\ SaveAt(i) < ip + 1 =>
                 /\ stack'[Slot(i)] = Word(X(i), 1)
                 /\ stack'[Slot(i) + 1] = Word(X(i), 2)
       Untouch == ip + 1 <= Untouched => \A r \in Volatile : regs'[r] = r
       XBack == \A i \in 0 .. 5 : Loaded(i) /\ LoadAt(i) < ip + 1 =>
                  regs'[X(i)] = X(i)
       IBack == \A j \in 0 .. 6 :
                  (j > 0 \/ allow_return # "Rax") /\ UndoAt + 7 - j < ip + 1 =>
                    regs'[P(j)] = P(j)
       Kept == CallAt < ip + 1 /\ allow_return # "None" =>
                 regs'[ReturnRegister] = "callback"
<1>3. ASSUME Ints, Xmms, Untouch, XBack, IBack, Kept PROVE DataInv'
  BY <1>1, <1>2, <1>3, NextData
<1>4. /\ \A j \in 0 .. 6 : (j > 0 \/ A = 1) /\ A + j < ip =>
           stack[-(A + j)] = Word(P(j), 0)
      /\ \A i \in 0 .. 5 : Saved(i) /\ SaveAt(i) < ip =>
           /\ stack[Slot(i)] = Word(X(i), 1)
           /\ stack[Slot(i) + 1] = Word(X(i), 2)
      /\ ip <= Untouched => \A r \in Volatile : regs[r] = r
      /\ \A i \in 0 .. 5 : Loaded(i) /\ LoadAt(i) < ip => regs[X(i)] = X(i)
      /\ \A j \in 0 .. 6 :
           (j > 0 \/ allow_return # "Rax") /\ UndoAt + 7 - j < ip =>
             regs[P(j)] = P(j)
      /\ CallAt < ip /\ allow_return # "None" =>
           regs[ReturnRegister] = "callback"
  BY DEF DataInv, IntegersSaved, XmmSaved, RegistersUntouched, XmmRestored,
     IntegersRestored, ResultKept
<1>5. /\ \A j \in 0 .. 6 : P(j) \in Volatile
      /\ \A i \in 0 .. 5 : X(i) \in Volatile
      /\ \A i, k \in 0 .. 6 : P(i) = P(k) => i = k
      /\ \A i, k \in 0 .. 5 : X(i) = X(k) => i = k
      /\ \A i \in 0 .. 5, j \in 0 .. 6 : X(i) # P(j)
      /\ ReturnRegister = IF allow_return = "Rax" THEN P(0) ELSE X(0)
  BY Names, Distinct, Orders DEF ReturnRegister
<1>. HIDE DEF P, X
<1>6. CASE \E j \in 0 .. 6 : PushStep(j)
  <2>1. PICK j \in 0 .. 6 : PushStep(j)
    BY <1>6
  <2>2. /\ j > 0 \/ A = 1
        /\ ip = A + j /\ ip <= A + 6
        /\ regs' = regs
        /\ stack' = [stack EXCEPT ![-(A + j)] = Word(regs[P(j)], 0)]
    BY <1>1, <2>1, Places DEF PushStep, P
  <2>3. ip <= Untouched /\ -(A + j) \in Words
    BY <1>1, <2>2, Places, SlotsApart
  <2>4. regs[P(j)] = P(j)
    BY <1>4, <1>5, <2>3
  <2>5. Ints
    <3>. SUFFICES ASSUME NEW k \in 0 .. 6, k > 0 \/ A = 1, A + k < ip + 1
                  PROVE  stack'[-(A + k)] = Word(P(k), 0)
      OBVIOUS
    <3>1. CASE k = j
      BY <1>1, <2>2, <2>3, <2>4, <3>1
    <3>2. CASE k # j
      <4>1. A + k < ip /\ -(A + k) # -(A + j)
        BY <1>1, <2>2, <3>2, Places
      <4>. QED  BY <1>1, <1>4, <2>2, <4>1
    <3>. QED  BY <3>1, <3>2
  <2>6. Xmms /\ XBack /\ IBack /\ Kept
    BY <1>1, <2>2, Places
  <2>7. Untouch
    BY <1>4, <2>2, <2>3
  <2>. QED  BY <1>3, <2>5, <2>6, <2>7
<1>7. CASE \E i \in 0 .. 5 : StoreStep(i)
  <2>1. PICK i \in 0 .. 5 : StoreStep(i)
    BY <1>7
  <2>2. /\ Saved(i) /\ ip = SaveAt(i)
        /\ regs' = regs
        /\ stack' = [stack EXCEPT ![Slot(i)] = Word(regs[X(i)], 1),
                                  ![Slot(i) + 1] = Word(regs[X(i)], 2)]
    BY <2>1 DEF StoreStep, X
  <2>3. ip < Untouched /\ ip > A + 7 /\ ip < CallAt /\ ip < UndoAt
    BY <1>1, <2>2, Places
  <2>4. regs[X(i)] = X(i)
    BY <1>1, <1>4, <1>5, <2>3, Places
  <2>5. Ints
    <3>. SUFFICES ASSUME NEW k \in 0 .. 6, k > 0 \/ A = 1
                  PROVE  stack'[-(A + k)] = Word(P(k), 0)
      OBVIOUS
    <3>1. A + k < ip
      BY <1>1, <2>3, Places
    <3>2. -(A + k) # Slot(i) /\ -(A + k) # Slot(i) + 1
      <4>1. /\ Slot(i) \in Words /\ Slot(i) + 1 < -(A + 6)
            /\ -(A + k) >= -(A + 6) /\ -(A + k) \in Words
        BY <1>1, SlotsApart
      <4>2. A \in 0 .. 1 /\ Slot(i) \in Int
        BY <1>1, <4>1, Numbers DEF Words
      <4>. QED  BY <4>1, <4>2
    <3>3. -(A + k) \in Words
      BY <1>1, SlotsApart
    <3>. QED  BY <1>1, <1>4, <2>2, <3>1, <3>2, <3>3, Zenon
  <2>6. Xmms
    <3>. SUFFICES ASSUME NEW k \in 0 .. 5, Saved(k), SaveAt(k) < ip + 1
                  PROVE  /\ stack'[Slot(k)] = Word(X(k), 1)
                         /\ stack'[Slot(k) + 1] = Word(X(k), 2)
      OBVIOUS
    <3>0. /\ Slot(k) \in Words /\ Slot(k) + 1 \in Words
          /\ Slot(i) \in Int /\ Slot(k) \in Int
      BY <1>1, SlotsApart DEF Words
    <3>1. CASE k = i
      BY <1>1, <2>2, <2>4, <3>0, <3>1
    <3>2. CASE k # i
      <4>1. SaveAt(k) # ip /\ SaveAt(k) \in Nat
        BY <1>1, <2>2, <3>2, Places
      <4>2. SaveAt(k) < ip
        BY <1>1, <4>1
      <4>3. Slot(i) + 1 < Slot(k) \/ Slot(k) + 1 < Slot(i)
        BY <1>1, <3>2, SlotsApart
      <4>4. /\ stack'[Slot(k)] = stack[Slot(k)]
            /\ stack'[Slot(k) + 1] = stack[Slot(k) + 1]
        BY <1>1, <2>2, <3>0, <4>3
      <4>. QED  BY <1>4, <4>2, <4>4
    <3>. QED  BY <3>1, <3>2
  <2>7. Untouch
    BY <1>1, <1>4, <2>2, <2>3, Places
  <2>8. XBack /\ IBack /\ Kept
    BY <1>1, <2>3, Places
  <2>. QED  BY <1>3, <2>5, <2>6, <2>7, <2>8
<1>8. CASE \E i \in 0 .. 5 : LoadStep(i)
  <2>1. PICK i \in 0 .. 5 : LoadStep(i)
    BY <1>8
  <2>. DEFINE v == IF /\ stack[Slot(i)] = Word(stack[Slot(i)].value, 1)
                      /\ stack[Slot(i) + 1] = Word(stack[Slot(i)].value, 2)
                   THEN stack[Slot(i)].value
                   ELSE "torn"
  <2>2. /\ Loaded(i) /\ ip = LoadAt(i)
        /\ stack' = stack
        /\ regs' = [regs EXCEPT ![X(i)] = v]
    BY <2>1 DEF LoadStep, X
  <2>3. CallAt < ip /\ ip < UndoAt /\ ip > Untouched /\ ip > A + 7
    BY <1>1, <2>2, Places
  <2>4. Saved(i) /\ SaveAt(i) < ip
    BY <1>1, <2>2, <2>3, Places
  <2>5. v = X(i)
    <3>1. /\ stack[Slot(i)] = Word(X(i), 1)
          /\ stack[Slot(i) + 1] = Word(X(i), 2)
      BY <1>4, <2>4
    <3>2. stack[Slot(i)].value = X(i)
      BY <3>1 DEF Word
    <3>. QED  BY <3>1, <3>2
  <2>. HIDE DEF v
  <2>6. Ints
    BY <1>1, <1>4, <2>2, <2>3, Places
  <2>7. Xmms
    <3>. SUFFICES ASSUME NEW k \in 0 .. 5, Saved(k), SaveAt(k) < ip + 1
                  PROVE  /\ stack'[Slot(k)] = Word(X(k), 1)
                         /\ stack'[Slot(k) + 1] = Word(X(k), 2)
      OBVIOUS
    <3>1. SaveAt(k) < ip
      BY <1>1, <2>3, Places
    <3>. QED  BY <1>4, <2>2, <3>1
  <2>8. Untouch
    BY <1>1, <2>3, Places
  <2>9. XBack
    <3>. SUFFICES ASSUME NEW k \in 0 .. 5, Loaded(k), LoadAt(k) < ip + 1
                  PROVE  regs'[X(k)] = X(k)
      OBVIOUS
    <3>1. CASE k = i
      BY <1>1, <1>5, <2>2, <2>5, <3>1
    <3>2. CASE k # i
      <4>1. LoadAt(k) < ip
        BY <1>1, <2>2, <3>2, Places
      <4>2. X(k) # X(i)
        BY <1>5, <3>2
      <4>. QED  BY <1>1, <1>4, <1>5, <2>2, <4>1, <4>2
    <3>. QED  BY <3>1, <3>2
  <2>10. IBack
    BY <1>1, <2>3, Places
  <2>11. Kept
    <3>. SUFFICES ASSUME allow_return # "None"
                  PROVE  regs'[ReturnRegister] = "callback"
      OBVIOUS
    <3>1. regs[ReturnRegister] = "callback"
      BY <1>4, <2>3
    <3>2. ReturnRegister # X(i)
      <4>1. allow_return = "Xmm0" => i # 0
        BY <2>2, Choices, <1>1 DEF Loaded
      <4>. QED  BY <1>5, <4>1, <1>1 DEF ReturnType
    <3>. QED  BY <1>1, <1>5, <2>2, <3>1, <3>2
  <2>. QED  BY <1>3, <2>6, <2>7, <2>8, <2>9, <2>10, <2>11
<1>9. CASE \E j \in 0 .. 6 : PopStep(j)
  <2>1. PICK j \in 0 .. 6 : PopStep(j)
    BY <1>9
  <2>. DEFINE v == IF stack[-(A + j)].part = 0 THEN stack[-(A + j)].value
                   ELSE "torn"
  <2>2. /\ j > 0 \/ allow_return # "Rax"
        /\ j > 0 \/ A = 1
        /\ ip = UndoAt + 7 - j
        /\ stack' = stack
        /\ regs' = [regs EXCEPT ![P(j)] = v]
    BY <2>1 DEF PopStep, P
  <2>3. UndoAt < ip /\ CallAt < ip /\ ip > Untouched /\ ip > A + 7
    BY <1>1, <2>2, Places
  <2>4. v = P(j)
    <3>1. A + j < ip
      BY <1>1, <2>3, Places
    <3>2. stack[-(A + j)] = Word(P(j), 0)
      BY <1>4, <2>2, <3>1
    <3>. QED  BY <3>2 DEF Word
  <2>. HIDE DEF v
  <2>5. Ints
    BY <1>1, <1>4, <2>2, <2>3, Places
  <2>6. Xmms
    <3>. SUFFICES ASSUME NEW k \in 0 .. 5, Saved(k), SaveAt(k) < ip + 1
                  PROVE  /\ stack'[Slot(k)] = Word(X(k), 1)
                         /\ stack'[Slot(k) + 1] = Word(X(k), 2)
      OBVIOUS
    <3>1. SaveAt(k) < ip
      BY <1>1, <2>3, Places
    <3>. QED  BY <1>4, <2>2, <3>1
  <2>7. Untouch
    BY <1>1, <2>3, Places
  <2>8. XBack
    <3>. SUFFICES ASSUME NEW k \in 0 .. 5, Loaded(k)
                  PROVE  regs'[X(k)] = X(k)
      OBVIOUS
    <3>1. LoadAt(k) < ip
      BY <1>1, <2>3, Places
    <3>. QED  BY <1>1, <1>4, <1>5, <2>2, <3>1
  <2>9. IBack
    <3>. SUFFICES ASSUME NEW k \in 0 .. 6, k > 0 \/ allow_return # "Rax",
                         UndoAt + 7 - k < ip + 1
                  PROVE  regs'[P(k)] = P(k)
      OBVIOUS
    <3>1. CASE k = j
      BY <1>1, <1>5, <2>2, <2>4, <3>1
    <3>2. CASE k # j
      <4>1. UndoAt + 7 - k < ip
        BY <1>1, <2>2, <3>2, Places
      <4>2. P(k) # P(j)
        BY <1>5, <3>2
      <4>. QED  BY <1>1, <1>4, <1>5, <2>2, <4>1, <4>2
    <3>. QED  BY <3>1, <3>2
  <2>10. Kept
    <3>. SUFFICES ASSUME allow_return # "None"
                  PROVE  regs'[ReturnRegister] = "callback"
      OBVIOUS
    <3>1. regs[ReturnRegister] = "callback"
      BY <1>4, <2>3
    <3>2. ReturnRegister # P(j)
      BY <1>5, <2>2
    <3>3. ReturnRegister \in Volatile
      BY <1>5
    <3>. QED  BY <1>1, <1>5, <2>2, <3>1, <3>2, <3>3
  <2>. QED  BY <1>3, <2>5, <2>6, <2>7, <2>8, <2>9, <2>10
<1>10. CASE CallStep
  <2>1. /\ ip = CallAt
        /\ regs' = [r \in Volatile |-> "callback"]
        /\ \A w \in Words :
             w >= (IF IsBuildCall THEN -(2 * A + 18) ELSE -20) =>
               stack'[w] = stack[w]
    BY <1>10 DEF CallStep
  <2>2. Ints
    <3>. SUFFICES ASSUME NEW k \in 0 .. 6, k > 0 \/ A = 1
                  PROVE  stack'[-(A + k)] = Word(P(k), 0)
      OBVIOUS
    <3>1. A + k < ip
      BY <1>1, <2>1, Places
    <3>2. -(A + k) \in Words /\ -(A + k) >= -7
      BY <1>1, SlotsApart
    <3>3. -(A + k) >= (IF IsBuildCall THEN -(2 * A + 18) ELSE -20)
      BY <1>1, <3>2, Numbers DEF Words
    <3>. QED  BY <1>4, <2>1, <3>1, <3>2, <3>3
  <2>3. Xmms
    <3>. SUFFICES ASSUME NEW k \in 0 .. 5, Saved(k)
                  PROVE  /\ stack'[Slot(k)] = Word(X(k), 1)
                         /\ stack'[Slot(k) + 1] = Word(X(k), 2)
      OBVIOUS
    <3>1. SaveAt(k) < ip
      BY <1>1, <2>1, Places
    <3>2. /\ Slot(k) \in Words /\ Slot(k) + 1 \in Words
          /\ Slot(k) >= IF IsBuildCall THEN -(2 * A + 18) ELSE -20
      BY <1>1, SlotsApart
    <3>3. Slot(k) + 1 >= IF IsBuildCall THEN -(2 * A + 18) ELSE -20
      BY <1>1, <3>2, Numbers DEF Words
    <3>. QED  BY <1>4, <2>1, <3>1, <3>2, <3>3
  <2>4. Untouch /\ XBack /\ IBack
    BY <1>1, <2>1, Places
  <2>5. Kept
    BY <1>5, <2>1
  <2>. QED  BY <1>3, <2>2, <2>3, <2>4, <2>5
<1>11. CASE CallerStep
  <2>1. /\ ~IsBuildCall /\ ip \in {15, 17}
        /\ stack' = stack
        /\ ip = 17 /\ allow_return # "None" =>
             regs'[ReturnRegister] = regs[ReturnRegister]
    BY <1>11 DEF CallerStep
  <2>2. CallAt = 16 /\ Untouched = 15 /\ ip > A + 7 /\ 17 < UndoAt
    BY <1>1, <2>1, Places, Numbers
  <2>3. Ints
    BY <1>1, <1>4, <2>1, <2>2, Places
  <2>4. Xmms
    <3>. SUFFICES ASSUME NEW k \in 0 .. 5, Saved(k)
                  PROVE  /\ stack'[Slot(k)] = Word(X(k), 1)
                         /\ stack'[Slot(k) + 1] = Word(X(k), 2)
      OBVIOUS
    <3>1. SaveAt(k) < ip
      BY <1>1, <2>1, <2>2, Places
    <3>. QED  BY <1>4, <2>1, <3>1
  <2>5. Untouch /\ IBack
    BY <1>1, <2>1, <2>2, Places
  <2>6. XBack
    BY <1>1, <2>1, <2>2, Places
  <2>7. Kept
    BY <1>4, <2>1, <2>2
  <2>. QED  BY <1>3, <2>3, <2>4, <2>5, <2>6, <2>7
<1>12. CASE QuietStep
  <2>1. /\ \/ ip = A + 7 \/ ip = UndoAt
           \/ IsBuildCall /\ A = 1 /\ (ip = 14 \/ ip = CallAt + Z + 1)
           \/ ~IsBuildCall /\ allow_return = "Rax" /\ ip = UndoAt + 7
        /\ regs' = regs /\ stack' = stack
    BY <1>12 DEF QuietStep
  <2>2. Ints
    <3>. SUFFICES ASSUME NEW k \in 0 .. 6, k > 0 \/ A = 1
                  PROVE  stack'[-(A + k)] = Word(P(k), 0)
      OBVIOUS
    <3>1. A + k < ip
      BY <1>1, <2>1, Places
    <3>. QED  BY <1>4, <2>1, <3>1
  <2>3. Xmms
    <3>. SUFFICES ASSUME NEW k \in 0 .. 5, Saved(k), SaveAt(k) < ip + 1
                  PROVE  /\ stack'[Slot(k)] = Word(X(k), 1)
                         /\ stack'[Slot(k) + 1] = Word(X(k), 2)
      OBVIOUS
    <3>1. SaveAt(k) # ip /\ SaveAt(k) \in Nat
      BY <1>1, <2>1, Places
    <3>2. SaveAt(k) < ip
      BY <1>1, <3>1
    <3>. QED  BY <1>4, <2>1, <3>2
  <2>4. Untouch
    BY <1>1, <1>4, <2>1, Places
  <2>5. XBack
    <3>. SUFFICES ASSUME NEW k \in 0 .. 5, Loaded(k), LoadAt(k) < ip + 1
                  PROVE  regs'[X(k)] = X(k)
      OBVIOUS
    <3>1. LoadAt(k) # ip /\ LoadAt(k) \in Nat
      BY <1>1, <2>1, Places
    <3>2. LoadAt(k) < ip
      BY <1>1, <3>1
    <3>. QED  BY <1>4, <2>1, <3>2
  <2>6. IBack
    <3>. SUFFICES ASSUME NEW k \in 0 .. 6, k > 0 \/ allow_return # "Rax",
                         UndoAt + 7 - k < ip + 1
                  PROVE  regs'[P(k)] = P(k)
      OBVIOUS
    <3>1. UndoAt + 7 - k < ip
      BY <1>1, <2>1, Places
    <3>. QED  BY <1>4, <2>1, <3>1
  <2>7. Kept
    BY <1>1, <1>4, <2>1, Places
  <2>. QED  BY <1>3, <2>2, <2>3, <2>4, <2>5, <2>6, <2>7
<1>. QED
  BY <1>6, <1>7, <1>8, <1>9, <1>10, <1>11, <1>12, Steps

LEMMA Always == LeafCallbacks => (Spec => [](ControlInv /\ DataInv))
<1>. SUFFICES ASSUME LeafCallbacks PROVE Spec => [](ControlInv /\ DataInv)
  OBVIOUS
<1>1. Init => ControlInv /\ DataInv
  BY ControlInit, DataInit
<1>2. ControlInv /\ DataInv /\ [Next]_vars => (ControlInv /\ DataInv)'
  <2>. SUFFICES ASSUME ControlInv, DataInv, [Next]_vars
                PROVE  (ControlInv /\ DataInv)'
    OBVIOUS
  <2>1. ControlInv'
    BY ControlStep
  <2>2. DataInv'
    <3>1. CASE UNCHANGED vars
      <4>1. /\ form' = form /\ allow_return' = allow_return /\ ip' = ip
            /\ regs' = regs /\ stack' = stack
        BY <3>1 DEF vars
      <4>2. IntegersSaved' /\ XmmSaved' /\ RegistersUntouched'
        BY <4>1, Steady
           DEF DataInv, IntegersSaved, XmmSaved, RegistersUntouched
      <4>3. XmmRestored' /\ IntegersRestored' /\ ResultKept'
        BY <4>1, Steady
           DEF DataInv, XmmRestored, IntegersRestored, ResultKept
      <4>. QED  BY <4>2, <4>3 DEF DataInv
    <3>2. CASE Next /\ ip \in 1 .. Last
      BY <3>2, DataStep
    <3>3. CASE Next /\ ip \notin 1 .. Last
      <4>1. ip \notin DOMAIN code
        BY <3>3, InstructionAt DEF ControlInv, TypeOK
      <4>2. UNCHANGED vars
        BY <3>3, <4>1 DEF Next, Fetch, ExecPush, ExecPop, ExecAdd, ExecLea,
           ExecStore, ExecLoad, ExecCall, ExecArgumentSetup,
           ExecResultHandling, Finished
      <4>. QED  BY <3>1, <4>2
    <3>. QED  BY <3>1, <3>2, <3>3
  <2>. QED  BY <2>1, <2>2
<1>. QED  BY <1>1, <1>2, PTL DEF Spec

(***************************************************************************)
(* After the code of either generator RSP is back and every volatile       *)
(* register has the value it was entered with, except the return register  *)
(* the caller chose, which has the callback's result (arch.rs 50-148): for *)
(* every use a preserved call's callback makes of its home area, and for   *)
(* callbacks of build_call that leave theirs alone.                        *)
(***************************************************************************)
THEOREM RegistersRestored == LeafCallbacks => (Spec => []StateRestored)
<1>1. ControlInv /\ DataInv => StateRestored
  <2>. SUFFICES ASSUME ControlInv, DataInv, ip > Len(code)
                PROVE  /\ rsp = 0
                       /\ \A r \in Volatile :
                            regs[r] = IF /\ allow_return # "None"
                                         /\ r = ReturnRegister
                                      THEN "callback"
                                      ELSE r
    BY DEF StateRestored
  <2>1. /\ allow_return \in ReturnType /\ ip \in 1 .. Last + 1
        /\ rsp = Depth(ip)
    BY DEF ControlInv, TypeOK, Position
  <2>2. ip = Last + 1
    BY <2>1, InstructionAt, Numbers
  <2>3. /\ ip = UndoAt + 7 + A /\ A \in 0 .. 1 /\ UndoAt \in Nat
        /\ CallAt \in Nat /\ CallAt < UndoAt /\ A + 7 < UndoAt
    <3>1. Last = UndoAt + 6 + A /\ A \in 0 .. 1
      BY <2>1, Numbers
    <3>2. /\ UndoAt \in Nat /\ CallAt \in Nat /\ Untouched \in Nat
          /\ CallAt < UndoAt /\ A + 7 < Untouched /\ Untouched <= CallAt
      BY <2>1, Places
    <3>. QED  BY <2>2, <3>1, <3>2
  <2>4. rsp = 0
    BY <2>1, <2>3 DEF Depth
  <2>5. /\ \A i \in 0 .. 5 : Loaded(i) => regs[Xmm[i + 1]] = Xmm[i + 1]
        /\ \A j \in 0 .. 6 : (j > 0 \/ allow_return # "Rax") =>
             regs[PreservedOrder[j + 1]] = PreservedOrder[j + 1]
        /\ allow_return # "None" => regs[ReturnRegister] = "callback"
    <3>1. \A i \in 0 .. 5 : Loaded(i) => LoadAt(i) < ip
      <4>1. \A i \in 0 .. 5 : Loaded(i) => LoadAt(i) < UndoAt /\ LoadAt(i) \in Nat
        BY <2>1, Places
      <4>. QED  BY <2>3, <4>1
    <3>2. \A j \in 0 .. 6 : (j > 0 \/ allow_return # "Rax") =>
            UndoAt + 7 - j < ip
      <4>1. allow_return # "Rax" => A = 1
        BY <2>1, Choices
      <4>. QED  BY <2>3, <4>1
    <3>3. CallAt < ip
      BY <2>3
    <3>. QED
      BY <3>1, <3>2, <3>3
         DEF DataInv, XmmRestored, IntegersRestored, ResultKept
  <2>6. ASSUME NEW r \in Volatile
        PROVE  regs[r] = IF allow_return # "None" /\ r = ReturnRegister
                         THEN "callback"
                         ELSE r
    <3>1. CASE allow_return # "None" /\ r = ReturnRegister
      BY <2>5, <3>1
    <3>2. CASE ~(allow_return # "None" /\ r = ReturnRegister)
      <4>1. CASE \E j \in 0 .. 6 : r = PreservedOrder[j + 1]
        <5>1. PICK j \in 0 .. 6 : r = PreservedOrder[j + 1]
          BY <4>1
        <5>2. j > 0 \/ allow_return # "Rax"
          BY <3>2, <5>1, Orders DEF ReturnRegister
        <5>. QED  BY <2>5, <3>2, <5>1, <5>2
      <4>2. CASE \E i \in 0 .. 5 : r = Xmm[i + 1]
        <5>1. PICK i \in 0 .. 5 : r = Xmm[i + 1]
          BY <4>2
        <5>2. i > 0 \/ allow_return # "Xmm0"
          BY <3>2, <5>1, Orders DEF ReturnRegister
        <5>3. Loaded(i)
          BY <2>1, <5>2, Choices DEF Loaded
        <5>. QED  BY <2>5, <3>2, <5>1, <5>3
      <4>. QED  BY <4>1, <4>2, Distinct
    <3>. QED  BY <3>1, <3>2
  <2>. QED  BY <2>4, <2>6
<1>. QED  BY <1>1, Always, PTL
=============================================================================
