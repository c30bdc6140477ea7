-------------------------- MODULE TrampolineProofs --------------------------
(***************************************************************************)
(* Theorems about the trampoline builder, for every size of displacements, *)
(* every address width and reach, and any number of trampolines, labels    *)
(* and branches.                                                           *)
(***************************************************************************)
EXTENDS Trampoline, AddressSpaceProofs, SequenceTheorems, FiniteSetTheorems

Meaning == Label \cup {ToAddress(a) : a \in Destinations}
Branch == [start : Nat, end : Nat, meant : Meaning]

(* What push_relative_fixup writes down of a branch. *)
Describes(f, branch) ==
    /\ f.displacement_offset + DISPLACEMENT_SIZE = branch.end
    /\ f.next_instruction_offset = branch.end
    /\ branch.start <= f.displacement_offset
    /\ \/ branch.meant \in Label /\ f.target = ToLabel(branch.meant)
       \/ branch.meant \notin Label /\ f.target = branch.meant

(* The branches and the fixups correspond, and the branches come one after *)
(* the other in the code.                                                  *)
FixupInv ==
    \A t \in Trampolines :
        /\ Len(asked[t]) = Len(relative_fixups[t])
        /\ \A i \in DOMAIN asked[t] :
             /\ Describes(relative_fixups[t][i], asked[t][i])
             /\ asked[t][i].end <= Len(code[t])
             /\ \A j \in DOMAIN asked[t] :
                  i < j => asked[t][i].end <= asked[t][j].start

IInv ==
    /\ TypeOK
    /\ asked \in [Trampolines -> Seq(Branch)]
    /\ FixupInv

LEMMA InitIInv == Init => IInv
BY DEF Init, IInv, TypeOK, FixupInv

-----------------------------------------------------------------------------
(* Steps that append code leave what was there.                            *)

LEMMA Shapes ==
    ASSUME IInv, NEW t \in Trampolines
    PROVE  /\ code[t] \in Seq(Byte) /\ Len(code[t]) \in Nat
           /\ labels[t] \in Seq(Nat \cup {None})
           /\ relative_fixups[t] \in Seq(RelativeFixup)
           /\ asked[t] \in Seq(Branch)
BY DEF IInv, TypeOK

LEMMA Elements ==
    ASSUME IInv, NEW t \in Trampolines
    PROVE  /\ \A i \in DOMAIN labels[t] :
                /\ labels[t][i] = None \/ labels[t][i] \in Nat
                /\ labels[t][i] \in Int /\ labels[t][i] <= Len(code[t])
           /\ \A i \in DOMAIN relative_fixups[t] :
                /\ relative_fixups[t][i].displacement_offset \in Nat
                /\ relative_fixups[t][i].displacement_offset + DISPLACEMENT_SIZE
                     <= Len(code[t])
           /\ DOMAIN relative_fixups[t] = DOMAIN asked[t]
           /\ \A i \in DOMAIN asked[t] :
                /\ asked[t][i] \in Branch
                /\ asked[t][i].start \in Nat /\ asked[t][i].end \in Nat
                /\ asked[t][i].end <= Len(code[t])
                /\ Describes(relative_fixups[t][i], asked[t][i])
                /\ \A j \in DOMAIN asked[t] :
                     i < j => asked[t][i].end <= asked[t][j].start
<1>1. \A i \in DOMAIN labels[t] :
        /\ labels[t][i] = None \/ labels[t][i] \in Nat
        /\ labels[t][i] \in Int /\ labels[t][i] <= Len(code[t])
  <2>1. \A i \in DOMAIN labels[t] : labels[t][i] \in Nat \cup {None}
    BY Shapes
  <2>. QED  BY <2>1 DEF IInv, TypeOK, None
<1>2. \A i \in DOMAIN relative_fixups[t] :
        /\ relative_fixups[t][i].displacement_offset \in Nat
        /\ relative_fixups[t][i].displacement_offset + DISPLACEMENT_SIZE
             <= Len(code[t])
  <2>1. \A i \in DOMAIN relative_fixups[t] : relative_fixups[t][i] \in RelativeFixup
    BY Shapes
  <2>2. \A f \in RelativeFixup : f.displacement_offset \in Nat
    BY DEF RelativeFixup
  <2>. QED  BY <2>1, <2>2 DEF IInv, TypeOK
<1>3. DOMAIN relative_fixups[t] = DOMAIN asked[t]
  <2>1. Len(relative_fixups[t]) = Len(asked[t])
    BY DEF IInv, FixupInv
  <2>. QED  BY <2>1, Shapes
<1>4. \A i \in DOMAIN asked[t] :
        /\ asked[t][i] \in Branch
        /\ asked[t][i].start \in Nat /\ asked[t][i].end \in Nat
  <2>1. \A i \in DOMAIN asked[t] : asked[t][i] \in Branch
    BY Shapes
  <2>. QED  BY <2>1 DEF Branch
<1>5. \A i \in DOMAIN asked[t] :
        /\ asked[t][i].end <= Len(code[t])
        /\ Describes(relative_fixups[t][i], asked[t][i])
        /\ \A j \in DOMAIN asked[t] :
             i < j => asked[t][i].end <= asked[t][j].start
  BY DEF IInv, FixupInv
<1>. QED  BY <1>1, <1>2, <1>3, <1>4, <1>5

LEMMA CodeGrows ==
    ASSUME IInv, NEW t \in Trampolines, NEW more \in Seq(Byte),
           code' = [code EXCEPT ![t] = @ \o more]
    PROVE  /\ code' \in [Trampolines -> Seq(Byte)]
           /\ Len(code'[t]) = Len(code[t]) + Len(more)
           /\ \A u \in Trampolines :
                Len(code'[u]) \in Nat /\ Len(code[u]) <= Len(code'[u])
<1>1. code \in [Trampolines -> Seq(Byte)]
  BY DEF IInv, TypeOK
<1>2. code[t] \in Seq(Byte) /\ Len(code[t]) \in Nat /\ Len(more) \in Nat
  BY <1>1
<1>3. code[t] \o more \in Seq(Byte) /\ Len(code[t] \o more) = Len(code[t]) + Len(more)
  BY <1>2
<1>4. code' = [code EXCEPT ![t] = code[t] \o more]
  OBVIOUS
<1>. QED  BY <1>1, <1>2, <1>3, <1>4

(* Longer code keeps labels and displacements in it. *)
LEMMA MoreCode ==
    ASSUME IInv, code' \in [Trampolines -> Seq(Byte)],
           \A u \in Trampolines :
               Len(code'[u]) \in Nat /\ Len(code[u]) <= Len(code'[u]),
           labels' = labels, NEW t \in Trampolines
    PROVE  /\ \A i \in DOMAIN labels'[t] : labels'[t][i] <= Len(code'[t])
           /\ \A i \in DOMAIN relative_fixups[t] :
                relative_fixups[t][i].displacement_offset + DISPLACEMENT_SIZE
                  <= Len(code'[t])
<1>1. DISPLACEMENT_SIZE \in Nat /\ Len(code[t]) \in Nat
  BY TrampolineAssumption, Shapes
<1>. QED  BY <1>1, Elements

LEMMA ExtendIInv ==
    ASSUME IInv, NEW t \in Trampolines, NEW n \in Nat, Extend(t, n)
    PROVE  IInv'
<1>. DEFINE more == [i \in 1 .. n |-> Data]
<1>1. more \in Seq(Byte)
  BY DEF Byte
<1>2. code' = [code EXCEPT ![t] = @ \o more]
  BY DEF Extend
<1>. HIDE DEF more
<1>3. /\ code' \in [Trampolines -> Seq(Byte)]
      /\ \A u \in Trampolines :
           Len(code'[u]) \in Nat /\ Len(code[u]) <= Len(code'[u])
  BY <1>1, <1>2, CodeGrows
<1>4. labels' = labels /\ relative_fixups' = relative_fixups /\ asked' = asked
  BY DEF Extend
<1>5. TypeOK'
  BY <1>3, <1>4, MoreCode DEF IInv, TypeOK
<1>6. FixupInv'
  <2>. SUFFICES ASSUME NEW u \in Trampolines, NEW i \in DOMAIN asked[u]
       PROVE  asked[u][i].end <= Len(code'[u])
    BY <1>4 DEF IInv, FixupInv, Describes
  <2>. QED  BY <1>3, Shapes, Elements, SMTT(30)
<1>. QED  BY <1>4, <1>5, <1>6 DEF IInv

LEMMA NewLabelIInv ==
    ASSUME IInv, NEW t \in Trampolines, new_label(t)
    PROVE  IInv'
<1>0. None \in Nat \cup {None}
  OBVIOUS
<1>1. labels' \in [Trampolines -> Seq(Nat \cup {None})]
  BY <1>0, Shapes DEF new_label, IInv, TypeOK
<1>2. \A u \in Trampolines : \A i \in DOMAIN labels'[u] :
        \/ labels'[u][i] = None
        \/ i \in DOMAIN labels[u] /\ labels'[u][i] = labels[u][i]
  BY <1>0, Shapes DEF new_label, IInv, TypeOK
<1>3. \A u \in Trampolines : \A i \in DOMAIN labels'[u] :
        labels'[u][i] <= Len(code[u])
  <2>. SUFFICES ASSUME NEW u \in Trampolines, NEW i \in DOMAIN labels'[u]
       PROVE  labels'[u][i] <= Len(code[u])
    OBVIOUS
  <2>1. Len(code[u]) \in Nat
    BY Shapes
  <2>2. CASE labels'[u][i] = None
    BY <2>1, <2>2 DEF None
  <2>3. CASE i \in DOMAIN labels[u] /\ labels'[u][i] = labels[u][i]
    BY <2>3, Elements
  <2>. QED  BY <1>2, <2>2, <2>3
<1>4. TypeOK'
  BY <1>1, <1>3 DEF new_label, IInv, TypeOK
<1>5. FixupInv'
  BY DEF new_label, IInv, FixupInv, Describes
<1>. QED  BY <1>4, <1>5 DEF IInv, new_label

LEMMA BindIInv ==
    ASSUME IInv, NEW t \in Trampolines, NEW label \in Label, bind(t, label)
    PROVE  IInv'
<1>1. labels[t] \in Seq(Nat \cup {None}) /\ Len(code[t]) \in Nat
  BY Shapes
<1>2. /\ labels' \in [Trampolines -> Seq(Nat \cup {None})]
      /\ \A u \in Trampolines : \A i \in DOMAIN labels'[u] :
           \/ i \in DOMAIN labels[u] /\ labels'[u][i] = labels[u][i]
           \/ u = t /\ labels'[u][i] = Len(code[u])
  <2>. DEFINE k == label.index
  <2>1. k \in DOMAIN labels[t]
        /\ labels' = [labels EXCEPT ![t][k] = Len(code[t])]
    BY DEF bind
  <2>. HIDE DEF k
  <2>2. labels \in [Trampolines -> Seq(Nat \cup {None})]
    BY DEF IInv, TypeOK
  <2>. DEFINE bound == [labels[t] EXCEPT ![k] = Len(code[t])]
  <2>3. /\ bound \in Seq(Nat \cup {None})
        /\ DOMAIN bound = DOMAIN labels[t]
        /\ \A i \in DOMAIN bound : bound[i] = labels[t][i] \/ bound[i] = Len(code[t])
    BY <1>1, <2>1
  <2>4. labels' = [labels EXCEPT ![t] = bound]
    BY <2>1
  <2>. HIDE DEF bound
  <2>. QED  BY <2>2, <2>3, <2>4
<1>3. \A u \in Trampolines : \A i \in DOMAIN labels'[u] :
        labels'[u][i] <= Len(code[u])
  BY <1>1, <1>2, Elements, SMTT(30)
<1>4. TypeOK'
  BY <1>2, <1>3 DEF bind, IInv, TypeOK
<1>5. FixupInv'
  BY DEF bind, IInv, FixupInv, Describes
<1>. QED  BY <1>4, <1>5 DEF IInv, bind

LEMMA Joined ==
    ASSUME NEW a \in Seq(Byte), NEW b \in Seq(Byte), NEW c \in Seq(Byte)
    PROVE  (a \o b) \o c = a \o (b \o c)
BY ConcatAssociative

LEMMA BranchCode ==
    ASSUME IInv, NEW t \in Trampolines, NEW n \in Nat,
           code' = [code EXCEPT ![t] =
                      @ \o [i \in 1 .. n |-> Opcode] \o Encoding(0)]
    PROVE  /\ code' \in [Trampolines -> Seq(Byte)]
           /\ Len(code'[t]) = Len(code[t]) + n + DISPLACEMENT_SIZE
           /\ \A u \in Trampolines :
                Len(code'[u]) \in Nat /\ Len(code[u]) <= Len(code'[u])
<1>. DEFINE opcode == [i \in 1 .. n |-> Opcode]
            zeros == Encoding(0)
            more == opcode \o zeros
<1>1. DISPLACEMENT_SIZE \in Nat /\ Len(code[t]) \in Nat
  BY TrampolineAssumption, Shapes
<1>2. opcode \in Seq(Byte) /\ Len(opcode) = n
  BY DEF Byte
<1>3. zeros \in Seq(Byte) /\ Len(zeros) = DISPLACEMENT_SIZE
  <2>1. \A k \in 1 .. DISPLACEMENT_SIZE : zeros[k] \in Byte
    BY DEF Byte
  <2>2. zeros \in [1 .. DISPLACEMENT_SIZE -> Byte]
    BY <2>1 DEF Encoding
  <2>. QED  BY <1>1, <2>2
<1>4. code' = [code EXCEPT ![t] = @ \o opcode \o zeros]
  OBVIOUS
<1>. HIDE DEF opcode, zeros
<1>5. more \in Seq(Byte) /\ Len(more) = n + DISPLACEMENT_SIZE
  BY <1>1, <1>2, <1>3
<1>6. code[t] \o opcode \o zeros = code[t] \o more
  BY <1>2, <1>3, Shapes, Joined
<1>. HIDE DEF more
<1>7. code' = [code EXCEPT ![t] = @ \o more]
  BY <1>4, <1>6
<1>8. Len(code'[t]) = Len(code[t]) + Len(more)
  BY <1>5, <1>7, CodeGrows
<1>9. Len(code'[t]) = Len(code[t]) + n + DISPLACEMENT_SIZE
  <2>1. \A l, d \in Nat : l + (n + d) = l + n + d
    OBVIOUS
  <2>. QED  BY <1>1, <1>5, <1>8, <2>1
<1>. QED  BY <1>5, <1>7, <1>9, CodeGrows

(* A branch starts where the code ended. *)
LEMMA PushBranchIInv ==
    ASSUME IInv, NEW t \in Trampolines, NEW opcode_size \in Nat,
           NEW meant \in Meaning, NEW target,
           \/ meant \in Label /\ target = ToLabel(meant)
           \/ meant \notin Label /\ target = meant,
           push_branch(t, opcode_size, target, meant)
    PROVE  IInv'
<1>. DEFINE start == Len(code[t])
            end == start + opcode_size + DISPLACEMENT_SIZE
            f == fixup(start + opcode_size, target)
            branch == [start |-> start, end |-> end, meant |-> meant]
<1>1. DISPLACEMENT_SIZE \in Nat \ {0} /\ start \in Nat
  BY TrampolineAssumption DEF IInv, TypeOK
<1>4. /\ code' \in [Trampolines -> Seq(Byte)]
      /\ Len(code'[t]) = end
      /\ \A u \in Trampolines :
           Len(code'[u]) \in Nat /\ Len(code[u]) <= Len(code'[u])
  BY BranchCode DEF push_branch
<1>5. target \in Target
  <2>1. Meaning \subseteq Label \cup Target
    BY TrampolineAssumption DEF Meaning, ToAddress, Target, Address
  <2>2. \A l \in Label : ToLabel(l) \in Target
    BY TrampolineAssumption DEF Label, ToLabel, Target
  <2>. QED  BY <2>1, <2>2
<1>6. f \in RelativeFixup /\ f.displacement_offset + DISPLACEMENT_SIZE = end
  BY <1>1, <1>5 DEF fixup, RelativeFixup
<1>7. branch \in Branch
  BY <1>1 DEF Branch
<1>8. Describes(f, branch)
  BY <1>1 DEF Describes, fixup
<1>9. relative_fixups' = [relative_fixups EXCEPT ![t] = Append(@, f)]
      /\ asked' = [asked EXCEPT ![t] = Append(@, branch)]
      /\ labels' = labels
  BY DEF push_branch
<1>. HIDE DEF f, branch
<1>10. TypeOK'
  <2>1. relative_fixups' \in [Trampolines -> Seq(RelativeFixup)]
    BY <1>6, <1>9 DEF IInv, TypeOK
  <2>2. \A u \in Trampolines : \A i \in DOMAIN relative_fixups'[u] :
          \/ i \in DOMAIN relative_fixups[u] /\ relative_fixups'[u][i] = relative_fixups[u][i]
          \/ u = t /\ relative_fixups'[u][i] = f
    BY <1>6, <1>9 DEF IInv, TypeOK
  <2>3. \A u \in Trampolines : Len(code[u]) \in Nat /\ Len(code'[u]) \in Nat
    BY <1>4 DEF IInv, TypeOK
  <2>4. \A u \in Trampolines : \A i \in DOMAIN relative_fixups'[u] :
          relative_fixups'[u][i].displacement_offset + DISPLACEMENT_SIZE
            <= Len(code'[u])
    BY <1>1, <1>4, <1>6, <2>2, <2>3, MoreCode, <1>9, SMTT(30)
  <2>5. \A u \in Trampolines : \A i \in DOMAIN labels'[u] :
          labels'[u][i] <= Len(code'[u])
    BY <1>4, <1>9, <2>3, MoreCode
  <2>. QED  BY <1>4, <1>9, <2>1, <2>4, <2>5 DEF IInv, TypeOK
<1>11. asked' \in [Trampolines -> Seq(Branch)]
  BY <1>7, <1>9 DEF IInv
<1>12. FixupInv'
  <2>. SUFFICES ASSUME NEW u \in Trampolines
       PROVE  /\ Len(asked'[u]) = Len(relative_fixups'[u])
              /\ \A i \in DOMAIN asked'[u] :
                   /\ Describes(relative_fixups'[u][i], asked'[u][i])
                   /\ asked'[u][i].end <= Len(code'[u])
                   /\ \A j \in DOMAIN asked'[u] :
                        i < j => asked'[u][i].end <= asked'[u][j].start
    BY DEF FixupInv, Describes
  <2>1. /\ asked[u] \in Seq(Branch) /\ relative_fixups[u] \in Seq(RelativeFixup)
        /\ Len(asked[u]) = Len(relative_fixups[u])
        /\ Len(code[u]) \in Nat /\ Len(code'[u]) \in Nat
    BY <1>4 DEF IInv, TypeOK, FixupInv
  <2>2. \A i \in DOMAIN asked[u] :
          /\ Describes(relative_fixups[u][i], asked[u][i])
          /\ asked[u][i].end \in Nat /\ asked[u][i].end <= Len(code[u])
          /\ \A j \in DOMAIN asked[u] :
               i < j => asked[u][i].end <= asked[u][j].start
    BY Elements
  <2>3. CASE u # t
    <3>1. asked'[u] = asked[u] /\ relative_fixups'[u] = relative_fixups[u]
      BY <1>9, <2>3 DEF IInv, TypeOK
    <3>. QED  BY <1>4, <2>1, <2>2, <3>1
  <2>4. CASE u = t
    <3>. DEFINE n == Len(asked[t]) + 1
    <3>1. asked'[t] = Append(asked[t], branch)
          /\ relative_fixups'[t] = Append(relative_fixups[t], f)
      BY <1>9 DEF IInv, TypeOK
    <3>2. /\ Len(asked'[t]) = n /\ Len(relative_fixups'[t]) = n
          /\ DOMAIN asked'[t] = DOMAIN asked[t] \cup {n}
          /\ asked'[t][n] = branch /\ relative_fixups'[t][n] = f
          /\ \A i \in DOMAIN asked[t] :
               /\ i \in 1 .. n - 1
               /\ asked'[t][i] = asked[t][i]
               /\ relative_fixups'[t][i] = relative_fixups[t][i]
      BY <1>6, <1>7, <2>1, <2>4, <3>1, SMTT(30)
    <3>3. branch.start = start /\ branch.end = end
      BY DEF branch
    <3>4. \A i \in DOMAIN asked[t] :
            asked[t][i].end <= start /\ asked[t][i].end <= end
      BY <1>1, <2>1, <2>2, <2>4
    <3>5. n \in Nat
      BY <2>1, <2>4
    <3>6. n \notin DOMAIN asked[t]
      BY <2>1, <2>4
    <3>. HIDE DEF n, start, end
    <3>7. ASSUME NEW i \in DOMAIN asked'[t]
          PROVE  /\ Describes(relative_fixups'[t][i], asked'[t][i])
                 /\ asked'[t][i].end <= Len(code'[t])
      <4>1. CASE i = n
        BY <1>4, <1>8, <3>2, <3>3, <4>1 DEF end
      <4>2. CASE i \in DOMAIN asked[t]
        BY <1>4, <2>2, <2>4, <3>2, <3>4, <4>2
      <4>. QED  BY <3>2, <4>1, <4>2
    <3>8. ASSUME NEW i \in DOMAIN asked'[t], NEW j \in DOMAIN asked'[t], i < j
          PROVE  asked'[t][i].end <= asked'[t][j].start
      <4>1. i \in DOMAIN asked[t]
        BY <3>2, <3>5, <3>8
      <4>2. CASE j = n
        BY <3>2, <3>3, <3>4, <4>1, <4>2
      <4>3. CASE j \in DOMAIN asked[t]
        BY <2>2, <2>4, <3>2, <3>8, <4>1, <4>3
      <4>. QED  BY <3>2, <4>2, <4>3
    <3>. QED  BY <2>4, <3>2, <3>7, <3>8
  <2>. QED  BY <2>3, <2>4
<1>. QED  BY <1>10, <1>11, <1>12 DEF IInv

LEMMA NextIInv ==
    ASSUME IInv, [Next]_vars
    PROVE  IInv'
<1>1. CASE UNCHANGED vars
  BY <1>1 DEF vars, IInv, TypeOK, FixupInv, Describes
<1>2. ASSUME NEW t \in Trampolines,
             bytes(t) \/ preserved_call(t) \/ absolute_call(t) \/ absolute_jump(t)
      PROVE  IInv'
  <2>1. PICK n \in Nat : Extend(t, n)
    BY <1>2, TrampolineAssumption
       DEF bytes, preserved_call, absolute_call, absolute_jump
  <2>. QED  BY <2>1, ExtendIInv
<1>3. ASSUME NEW t \in Trampolines, new_label(t)
      PROVE  IInv'
  BY <1>3, NewLabelIInv
<1>4. ASSUME NEW t \in Trampolines, NEW label \in Label,
             bind(t, label) \/ jump_to(t, label) \/ jump_if(t, label)
      PROVE  IInv'
  <2>1. label \in Meaning
    BY DEF Meaning
  <2>2. CASE bind(t, label)
    BY <2>2, BindIInv
  <2>3. CASE jump_to(t, label) \/ jump_if(t, label)
    <3>1. PICK n \in Nat : push_branch(t, n, ToLabel(label), label)
      BY <2>3 DEF jump_to, jump_if
    <3>. QED  BY <2>1, <3>1, PushBranchIInv
  <2>. QED  BY <1>4, <2>2, <2>3
<1>5. ASSUME NEW t \in Trampolines, NEW destination \in Destinations,
             relative_jump(t, destination)
      PROVE  IInv'
  <2>. DEFINE meant == ToAddress(destination)
  <2>1. meant \in Meaning /\ meant \notin Label
    <3>1. meant \in Meaning
      BY DEF Meaning
    <3>2. "home" \notin DOMAIN meant
      BY DEF ToAddress
    <3>3. \A label \in Label : "home" \in DOMAIN label
      BY DEF Label
    <3>. QED  BY <3>1, <3>2, <3>3
  <2>2. push_branch(t, 1, meant, meant)
    BY <1>5 DEF relative_jump
  <2>. QED  BY <2>1, <2>2, PushBranchIInv
<1>. QED  BY <1>1, <1>2, <1>3, <1>4, <1>5 DEF Next, Build

LEMMA Inductive == Spec => []IInv
<1>1. Init => IInv
  BY InitIInv
<1>2. IInv /\ [Next]_vars => IInv'
  BY NextIInv
<1>. QED  BY <1>1, <1>2, PTL DEF Spec

(***************************************************************************)
(* Labels and fixups are what the builder's types say, and every           *)
(* displacement lies in the code, so that build never slices out of bounds *)
(* (trampoline.rs 189-222).                                                *)
(***************************************************************************)
THEOREM TypeCorrect == Spec => []TypeOK
<1>1. IInv => TypeOK
  BY DEF IInv
<1>. QED  BY <1>1, Inductive, PTL

-----------------------------------------------------------------------------
(* build.                                                                  *)

(* A displacement that is resolved reaches what the branch means. *)
LEMMA Displaced ==
    ASSUME IInv, NEW t \in Trampolines, NEW address \in Address,
           NEW i \in DOMAIN asked[t],
           displacement(t, relative_fixups[t][i], address).error = "Ok"
    PROVE  LET v == displacement(t, relative_fixups[t][i], address).value
           IN /\ v \in I32Min .. I32Max
              /\ address + asked[t][i].end + v
                   = MeantAddress(t, asked[t][i].meant, address)
<1>. DEFINE f == relative_fixups[t][i]
            branch == asked[t][i]
            target == resolve(t, f.target, address)
            next == checked_add(address, f.next_instruction_offset)
            v == displacement(t, f, address).value
<1>1. /\ branch \in Branch /\ branch.end \in Nat
      /\ Describes(f, branch) /\ branch.meant \in Meaning
  BY Elements DEF Branch
<1>2. f.next_instruction_offset = branch.end
  BY <1>1 DEF Describes
<1>3. address \in Nat
  BY UsizeMaxAssumption DEF Address
<1>. HIDE DEF f, branch
<1>4. /\ target.error = "Ok" /\ next # None
      /\ relative_offset_fits(next, target.value)
      /\ v = target.value - next
  BY DEF displacement, Error, Value, f
<1>5. next = address + branch.end
  BY <1>2, <1>4 DEF checked_add
<1>6. target.value \in Int
      /\ target.value = MeantAddress(t, branch.meant, address)
  <2>1. CASE branch.meant \in Label
    <3>. DEFINE k == branch.meant.index
    <3>1. f.target.kind = "label" /\ f.target.value = k
      BY <1>1, <2>1 DEF Describes, ToLabel
    <3>2. "home" \in DOMAIN branch.meant
      BY <2>1 DEF Label
    <3>3. k \in DOMAIN labels[t] /\ labels[t][k] # None
      BY <1>4, <3>1 DEF resolve, Error
    <3>4. target.value = address + labels[t][k]
      BY <1>4, <3>1 DEF resolve, Error, Value
    <3>5. labels[t][k] \in Nat
      BY <3>3, Elements
    <3>. QED  BY <1>3, <3>2, <3>4, <3>5 DEF MeantAddress
  <2>2. CASE branch.meant \notin Label
    <3>1. PICK a \in Destinations : branch.meant = ToAddress(a)
      BY <1>1, <2>2 DEF Meaning
    <3>2. f.target = ToAddress(a)
      BY <1>1, <2>2, <3>1 DEF Describes
    <3>3. "home" \notin DOMAIN branch.meant
      BY <3>1 DEF ToAddress
    <3>4. target.value = a
      BY <3>2 DEF resolve, Value, ToAddress
    <3>5. MeantAddress(t, branch.meant, address) = a
      BY <3>1, <3>3 DEF MeantAddress, ToAddress
    <3>6. a \in Int
      BY TrampolineAssumption, UsizeMaxAssumption DEF Address
    <3>. QED  BY <3>4, <3>5, <3>6
  <2>. QED  BY <2>1, <2>2
<1>7. v \in I32Min .. I32Max
  BY <1>4 DEF relative_offset_fits
<1>8. address + branch.end + v = target.value
  BY <1>1, <1>3, <1>4, <1>5, <1>6
<1>. QED  BY <1>6, <1>7, <1>8 DEF f, branch

(* The bytes of one displacement belong to no other. *)
LEMMA Apart ==
    ASSUME IInv, NEW t \in Trampolines,
           NEW i \in DOMAIN asked[t], NEW j \in DOMAIN asked[t], NEW k \in Int,
           k - relative_fixups[t][i].displacement_offset
             \in 1 .. DISPLACEMENT_SIZE,
           k - relative_fixups[t][j].displacement_offset
             \in 1 .. DISPLACEMENT_SIZE
    PROVE  i = j
<1>1. /\ DISPLACEMENT_SIZE \in Nat
      /\ i \in Nat /\ j \in Nat
  BY TrampolineAssumption, Shapes, SMTT(30)
<1>2. \A m \in {i, j} :
        /\ asked[t][m].start \in Nat /\ asked[t][m].end \in Nat
        /\ relative_fixups[t][m].displacement_offset \in Nat
        /\ relative_fixups[t][m].displacement_offset + DISPLACEMENT_SIZE
             = asked[t][m].end
        /\ asked[t][m].start <= relative_fixups[t][m].displacement_offset
  BY Elements DEF Describes
<1>3. ASSUME NEW m \in {i, j}, NEW n \in {i, j}, m < n
      PROVE  asked[t][m].end <= asked[t][n].start
  BY <1>3, Elements
<1>4. ~(i < j)
  BY <1>1, <1>2, <1>3
<1>5. ~(j < i)
  BY <1>1, <1>2, <1>3
<1>. QED  BY <1>1, <1>4, <1>5

(* build resolves every displacement and writes nothing else. *)
LEMMA BuildLeads ==
    ASSUME IInv
    PROVE  BranchesLeadToTargets
<1>. SUFFICES ASSUME NEW t \in Trampolines, NEW address \in Address,
                     build(t, address).error = "Ok"
     PROVE  /\ \A i \in DOMAIN asked[t] :
                 LET branch == asked[t][i] IN
                 \E v \in I32Min .. I32Max :
                     /\ Decodes(build(t, address).code, branch.end, v)
                     /\ address + branch.end + v
                          = MeantAddress(t, branch.meant, address)
            /\ \A k \in DOMAIN build(t, address).code :
                 \/ build(t, address).code[k] = code[t][k]
                 \/ \E i \in DOMAIN asked[t] :
                      k \in asked[t][i].end - DISPLACEMENT_SIZE + 1
                              .. asked[t][i].end
  BY DEF BranchesLeadToTargets
<1>. DEFINE fixups == relative_fixups[t]
            found == [i \in DOMAIN fixups |-> displacement(t, fixups[i], address)]
            failing == {i \in DOMAIN found : found[i].error # "Ok"}
            first == CHOOSE i \in failing : \A j \in failing : i <= j
            Covering(k) == {i \in DOMAIN fixups :
                k - fixups[i].displacement_offset \in 1 .. DISPLACEMENT_SIZE}
            Latest(S) == CHOOSE i \in S : \A j \in S : j <= i
            Resolved(k) ==
                IF Covering(k) = {} THEN code[t][k]
                ELSE LET i == Latest(Covering(k))
                     IN Encoding(found[i].value)[k - fixups[i].displacement_offset]
            built == build(t, address).code
<1>1. /\ DISPLACEMENT_SIZE \in Nat \ {0}
      /\ code[t] \in Seq(Byte) /\ Len(code[t]) \in Nat
      /\ DOMAIN fixups = DOMAIN asked[t]
      /\ DOMAIN fixups \subseteq Nat
  BY TrampolineAssumption, Shapes, Elements
<1>2. build(t, address) =
        IF failing # {}
        THEN [error |-> found[first].error, code |-> <<>>]
        ELSE [error |-> "Ok", code |-> [k \in DOMAIN code[t] |-> Resolved(k)]]
  BY DEF build
<1>3. failing = {}
  <2>. SUFFICES ASSUME failing # {}  PROVE FALSE
    OBVIOUS
  <2>1. \E m \in failing : \A n \in failing : m <= n
    <3>1. failing \subseteq Nat
      BY <1>1
    <3>. HIDE DEF failing
    <3>. QED  BY <3>1, LeastElement
  <2>2. first \in failing
    <3>. HIDE DEF failing
    <3>. QED  BY <2>1
  <2>3. build(t, address).error = found[first].error
    <3>. HIDE DEF failing, first, found, Resolved
    <3>. QED  BY <1>2
  <2>. QED  BY <2>2, <2>3
<1>4. built = [k \in DOMAIN code[t] |-> Resolved(k)]
  <2>. HIDE DEF failing, first, found, Resolved
  <2>. QED  BY <1>2, <1>3
<1>5. \A i \in DOMAIN fixups :
        displacement(t, fixups[i], address).error = "Ok"
  BY <1>3
<1>6. ASSUME NEW i \in DOMAIN fixups, NEW k \in DOMAIN code[t],
             k - fixups[i].displacement_offset \in 1 .. DISPLACEMENT_SIZE
      PROVE  built[k] = Encoding(displacement(t, fixups[i], address).value)
                                [k - fixups[i].displacement_offset]
  <2>1. k \in Int
    BY <1>1
  <2>2. Covering(k) = {i}
    BY <1>1, <1>6, <2>1, Apart
  <2>3. Latest({i}) = i
    BY <1>1
  <2>4. built[k] = Resolved(k)
    BY <1>4
  <2>. QED  BY <2>2, <2>3, <2>4
<1>7. ASSUME NEW i \in DOMAIN asked[t]
      PROVE  LET branch == asked[t][i] IN
             \E v \in I32Min .. I32Max :
                 /\ Decodes(built, branch.end, v)
                 /\ address + branch.end + v
                      = MeantAddress(t, branch.meant, address)
  <2>. DEFINE v == displacement(t, fixups[i], address).value
              end == asked[t][i].end
              offset == fixups[i].displacement_offset
  <2>1. /\ v \in I32Min .. I32Max
        /\ address + end + v = MeantAddress(t, asked[t][i].meant, address)
    BY <1>1, <1>5, Displaced
  <2>2. /\ offset \in Nat /\ end \in Nat /\ offset + DISPLACEMENT_SIZE = end
        /\ end <= Len(code[t])
    BY <1>1, Elements DEF Describes
  <2>3. ASSUME NEW k \in 1 .. DISPLACEMENT_SIZE
        PROVE  built[offset + k] = Encoding(v)[k]
    <3>1. offset + k \in DOMAIN code[t] /\ (offset + k) - offset = k
      BY <1>1, <2>2
    <3>2. i \in DOMAIN fixups
      BY <1>1
    <3>. HIDE DEF built
    <3>. QED  BY <1>6, <3>1, <3>2
  <2>4. Decodes(built, end, v)
    <3>. DEFINE read == SubSeq(built, end - DISPLACEMENT_SIZE + 1, end)
                S == {built[k] : k \in DOMAIN code[t]}
    <3>1. end - DISPLACEMENT_SIZE + 1 = offset + 1
      BY <1>1, <2>2
    <3>2. \A k \in offset + 1 .. end : built[k] \in S
      BY <1>1, <2>2, SMTT(30)
    <3>3. read = SubSeq(built, offset + 1, end)
      BY <3>1
    <3>. HIDE DEF built, S, offset, end, read
    <3>4. /\ read \in Seq(S)
          /\ Len(read) = DISPLACEMENT_SIZE
          /\ \A k \in 1 .. DISPLACEMENT_SIZE : read[k] = built[offset + k]
      <4>1. /\ offset + 1 \in Int /\ end \in Int
            /\ end - (offset + 1) + 1 = DISPLACEMENT_SIZE
            /\ offset + 1 <= end
            /\ \A k \in 1 .. DISPLACEMENT_SIZE : (offset + 1) + k - 1 = offset + k
        BY <1>1, <2>2
      <4>2. /\ read \in Seq(S)
            /\ Len(read) = IF offset + 1 <= end
                           THEN end - (offset + 1) + 1 ELSE 0
            /\ \A k \in 1 .. end - (offset + 1) + 1 :
                 read[k] = built[(offset + 1) + k - 1]
        BY <3>2, <3>3, <4>1, SubSeqProperties
      <4>. QED  BY <4>1, <4>2
    <3>5. read = [k \in 1 .. DISPLACEMENT_SIZE |-> read[k]]
      BY <1>1, <3>4
    <3>6. Encoding(v) = [k \in 1 .. DISPLACEMENT_SIZE |-> Encoding(v)[k]]
      BY DEF Encoding
    <3>7. read = Encoding(v)
      BY <2>3, <3>4, <3>5, <3>6
    <3>. QED  BY <3>7 DEF Decodes, read
  <2>. QED  BY <2>1, <2>4
<1>8. ASSUME NEW k \in DOMAIN built
      PROVE  \/ built[k] = code[t][k]
             \/ \E i \in DOMAIN asked[t] :
                  k \in asked[t][i].end - DISPLACEMENT_SIZE + 1
                          .. asked[t][i].end
  <2>1. k \in DOMAIN code[t] /\ built[k] = Resolved(k)
    BY <1>4
  <2>2. CASE Covering(k) = {}
    BY <2>1, <2>2
  <2>3. ASSUME NEW i \in Covering(k)
        PROVE  k \in asked[t][i].end - DISPLACEMENT_SIZE + 1 .. asked[t][i].end
    <3>1. k \in Int /\ i \in DOMAIN asked[t]
      <4>1. k \in DOMAIN code[t]
        BY <2>1
      <4>2. i \in DOMAIN fixups
        OBVIOUS
      <4>. QED  BY <1>1, <4>1, <4>2
    <3>2. k - fixups[i].displacement_offset \in 1 .. DISPLACEMENT_SIZE
      OBVIOUS
    <3>3. /\ fixups[i].displacement_offset \in Nat /\ asked[t][i].end \in Nat
          /\ fixups[i].displacement_offset + DISPLACEMENT_SIZE = asked[t][i].end
      BY <1>1, <3>1, Elements DEF Describes
    <3>. QED  BY <1>1, <3>1, <3>2, <3>3, SMTT(30)
  <2>. QED  BY <1>1, <2>2, <2>3
<1>. HIDE DEF built
<1>. QED  BY <1>7, <1>8 DEF built

(***************************************************************************)
(* Executed at the address it was built for, every branch leads where the  *)
(* caller said, and build writes nothing but displacements (trampoline.rs  *)
(* 189-222): for every number of branches and labels, every address and    *)
(* reach, and labels of other trampolines too.                             *)
(***************************************************************************)
THEOREM BranchesLead == Spec => []BranchesLeadToTargets
BY BuildLeads, Inductive, PTL

-----------------------------------------------------------------------------
(* A trampoline is a Builder.                                              *)

(* Ranks count the members of a finite set of numbers in order. *)
LEMMA RankOrder ==
    ASSUME NEW S, S \subseteq Nat, IsFiniteSet(S)
    PROVE  /\ Cardinality(S) \in Nat
           /\ \A i \in S : Rank(S, i) \in 1 .. Cardinality(S)
           /\ \A i, j \in S : i < j => Rank(S, i) < Rank(S, j)
<1>. DEFINE Upto(i) == {j \in S : j <= i}
<1>1. \A i \in S : /\ IsFiniteSet(Upto(i)) /\ Cardinality(Upto(i)) \in Nat
                   /\ Cardinality(Upto(i)) <= Cardinality(S)
  BY FS_Subset, FS_CardinalityType
<1>2. \A i \in S : Cardinality(Upto(i)) # 0
  <2>1. \A i \in S : i \in Upto(i)
    OBVIOUS
  <2>. HIDE DEF Upto
  <2>. QED  BY <1>1, <2>1, FS_EmptySet
<1>3. ASSUME NEW i \in S, NEW j \in S, i < j
      PROVE  Cardinality(Upto(i)) < Cardinality(Upto(j))
  <2>1. Upto(i) \subseteq Upto(j) /\ j \in Upto(j) /\ j \notin Upto(i)
    <3>1. i \in Nat /\ j \in Nat
      BY <1>3
    <3>2. \A k \in S : k \in Nat
      OBVIOUS
    <3>3. \A k \in S : k <= i => k <= j
      BY <1>3, <3>1, <3>2
    <3>4. Upto(i) \subseteq Upto(j)
      BY <3>3
    <3>5. j <= j /\ ~(j <= i)
      BY <1>3, <3>1
    <3>. QED  BY <3>4, <3>5
  <2>. HIDE DEF Upto
  <2>2. /\ Cardinality(Upto(i)) <= Cardinality(Upto(j))
        /\ Cardinality(Upto(j)) = Cardinality(Upto(i)) => Upto(j) = Upto(i)
    BY <1>1, <2>1, FS_Subset
  <2>. QED  BY <1>1, <2>1, <2>2
<1>4. Cardinality(S) \in Nat
  BY FS_CardinalityType
<1>5. \A i : Rank(S, i) = Cardinality(Upto(i))
  BY DEF Rank
<1>. HIDE DEF Upto
<1>. QED  BY <1>1, <1>2, <1>3, <1>4, <1>5

(* Every rank is taken, so Nth lists the set in ascending order. *)
LEMMA NthInOrder ==
    ASSUME NEW S, S \subseteq Nat, IsFiniteSet(S)
    PROVE  /\ \A k \in 1 .. Cardinality(S) :
                Nth(S, k) \in S /\ Rank(S, Nth(S, k)) = k
           /\ \A i \in S : Nth(S, Rank(S, i)) = i
           /\ \A k, l \in 1 .. Cardinality(S) :
                k <= l => Nth(S, k) <= Nth(S, l)
<1>. DEFINE n == Cardinality(S)
            f == [i \in S |-> Rank(S, i)]
<1>1. /\ n \in Nat /\ \A i \in S : Rank(S, i) \in 1 .. n
      /\ \A i, j \in S : i < j => Rank(S, i) < Rank(S, j)
  BY RankOrder
<1>2. \A i, j \in S : Rank(S, i) = Rank(S, j) => i = j
  <2>. SUFFICES ASSUME NEW i \in S, NEW j \in S, Rank(S, i) = Rank(S, j), i # j
                PROVE  FALSE
    OBVIOUS
  <2>1. i < j \/ j < i
    OBVIOUS
  <2>. QED  BY <1>1, <2>1
<1>3. f \in Injection(S, 1 .. n)
  BY <1>1, <1>2 DEF Injection, IsInjective
<1>4. IsFiniteSet(1 .. n) /\ Cardinality(1 .. n) = n
  BY <1>1, FS_Interval
<1>5. f \in Surjection(S, 1 .. n)
  <2>. HIDE DEF f
  <2>. QED  BY <1>3, <1>4, FS_Injection
<1>6. \A k \in 1 .. n : \E i \in S : Rank(S, i) = k
  BY <1>5 DEF Surjection
<1>7. \A k \in 1 .. n : Nth(S, k) \in S /\ Rank(S, Nth(S, k)) = k
  BY <1>6 DEF Nth
<1>8. \A i \in S : Nth(S, Rank(S, i)) = i
  BY <1>1, <1>2, <1>7
<1>9. ASSUME NEW k \in 1 .. n, NEW l \in 1 .. n, k <= l
      PROVE  Nth(S, k) <= Nth(S, l)
  <2>1. Nth(S, k) \in Nat /\ Nth(S, l) \in Nat
    BY <1>7
  <2>2. Nth(S, l) < Nth(S, k) => l < k
    BY <1>1, <1>7
  <2>. QED  BY <1>9, <2>1, <2>2
<1>. QED  BY <1>7, <1>8, <1>9

(* The errors of build as the allocator's caller sees them. *)
AsSeen(error) ==
    IF error \in {"InvalidLabel", "UnboundLabel"} THEN "BuildFailed" ELSE error

(* A fixup fails as its exit does, and one that is no exit never fails. *)
LEMMA FixupsFailAsExits ==
    ASSUME IInv, NEW t \in Trampolines, NEW address \in Address,
           Len(code[t]) <= I32Max, address + Len(code[t]) <= UsizeMax,
           NEW i \in DOMAIN relative_fixups[t]
    PROVE  LET f == relative_fixups[t][i]
               error == displacement(t, f, address).error
           IN /\ i \in Leaving(t) =>
                   AsSeen(error) = Closure!ExitResult(AsExit(t, f), address)
              /\ i \notin Leaving(t) => error = "Ok"
<1>. DEFINE f == relative_fixups[t][i]
            next == f.next_instruction_offset
            d == displacement(t, f, address)
            target == resolve(t, f.target, address)
<1>1. /\ address \in Nat /\ UsizeMax \in Nat /\ I32Max \in Nat
  BY UsizeMaxAssumption, RelativeJumpAssumption DEF Address
<1>2. Len(code[t]) \in Nat
  BY Shapes
<1>3. next \in Nat /\ next <= Len(code[t])
  BY Elements DEF Describes
<1>4. f.target \in Target
  <2>1. f \in RelativeFixup
    BY Shapes
  <2>. QED  BY <2>1 DEF RelativeFixup
<1>5. /\ address + next \in Nat /\ address + next <= UsizeMax
      /\ checked_add(address, next) = address + next
      /\ Closure!checked_add(address, next) = address + next
      /\ address + next # None /\ None = Closure!None
  BY <1>1, <1>2, <1>3 DEF checked_add, Closure!checked_add, None, Closure!None
<1>6. \A a, b : relative_offset_fits(a, b) <=> Closure!relative_offset_fits(a, b)
  BY DEF relative_offset_fits, Closure!relative_offset_fits, I32Min, Closure!I32Min
<1>7. d = IF target.error # "Ok" THEN target
          ELSE IF ~relative_offset_fits(address + next, target.value)
          THEN Error("RelativeJumpOutOfRange")
          ELSE Value(target.value - (address + next))
  BY <1>5 DEF displacement
<1>8. CASE f.target.kind = "address"
  <2>1. i \in Leaving(t) /\ ~Lost(t, f.target)
    BY <1>8 DEF Leaving, Lost
  <2>2. target.error = "Ok" /\ target.value = f.target.value
    BY <1>8 DEF resolve, Value
  <2>3. f.target.value # None
    BY <1>4 DEF Target, None
  <2>4. AsExit(t, f) = [next |-> next, target |-> f.target.value]
    BY <2>1 DEF AsExit
  <2>. QED  BY <1>5, <1>6, <1>7, <2>1, <2>2, <2>3, <2>4
            DEF AsSeen, Closure!ExitResult, Error, Value
<1>9. CASE Lost(t, f.target)
  <2>1. i \in Leaving(t) /\ AsExit(t, f) = [next |-> next, target |-> None]
    BY <1>9 DEF Leaving, AsExit
  <2>2. target.error \in {"InvalidLabel", "UnboundLabel"}
    BY <1>9 DEF Lost, resolve, Error
  <2>3. d = target
    BY <1>7, <2>2
  <2>. QED  BY <1>5, <2>1, <2>2, <2>3 DEF AsSeen, Closure!ExitResult
<1>10. CASE f.target.kind = "label" /\ ~Lost(t, f.target)
  <2>. DEFINE label == labels[t][f.target.value]
  <2>1. i \notin Leaving(t)
    BY <1>10 DEF Leaving
  <2>2. f.target.value \in DOMAIN labels[t] /\ label # None
    BY <1>10 DEF Lost
  <2>3. label \in Nat /\ label <= Len(code[t])
    BY <2>2, Elements
  <2>4. checked_add(address, label) = address + label /\ address + label # None
    BY <1>1, <1>2, <2>3 DEF checked_add, None
  <2>5. target = Value(address + label)
    BY <1>10, <2>2, <2>4 DEF resolve
  <2>6. relative_offset_fits(address + next, address + label)
    <3>1. \A a, n, l, c \in Nat : n <= c /\ l <= c /\ c <= I32Max =>
            (a + l) - (a + n) \in I32Min .. I32Max
      BY <1>1 DEF I32Min
    <3>2. Len(code[t]) <= I32Max
      BY <1>1, <1>2
    <3>. HIDE DEF next, label
    <3>. QED  BY <1>1, <1>2, <1>3, <2>3, <3>1, <3>2 DEF relative_offset_fits
  <2>. QED  BY <1>7, <2>1, <2>5, <2>6 DEF Value
<1>. QED  BY <1>4, <1>8, <1>9, <1>10 DEF Target

(* Both give up at their first failure, and it is the same one. *)
LEMMA FirstFailures ==
    ASSUME IInv, NEW t \in Trampolines, NEW address \in Address,
           Len(code[t]) <= I32Max, address + Len(code[t]) <= UsizeMax
    PROVE  AsSeen(build(t, address).error)
             = Closure!build(AsBuilder(t), address)
<1>. DEFINE fixups == relative_fixups[t]
            S == Leaving(t)
            n == Cardinality(S)
            found == [i \in DOMAIN fixups |-> displacement(t, fixups[i], address)]
            failing == {i \in DOMAIN found : found[i].error # "Ok"}
            first == CHOOSE i \in failing : \A j \in failing : i <= j
            exits == AsBuilder(t).exits
            Result(k) == Closure!ExitResult(exits[k], address)
            stuck == {k \in DOMAIN exits : Result(k) # "Ok"}
            start == CHOOSE k \in stuck : \A l \in stuck : k <= l
            error == build(t, address).error
<1>1. /\ DOMAIN fixups = 1 .. Len(fixups) /\ Len(fixups) \in Nat
      /\ IsFiniteSet(DOMAIN fixups) /\ DOMAIN fixups \subseteq Nat
  <2>1. fixups \in Seq(RelativeFixup)
    BY Shapes
  <2>. HIDE DEF fixups
  <2>2. DOMAIN fixups = 1 .. Len(fixups) /\ Len(fixups) \in Nat
    BY <2>1
  <2>. QED  BY <2>2, FS_Interval
<1>2. S \subseteq DOMAIN fixups /\ S \subseteq Nat /\ IsFiniteSet(S)
  <2>1. S \subseteq DOMAIN fixups
    BY DEF Leaving
  <2>. HIDE DEF S, fixups
  <2>. QED  BY <1>1, <2>1, FS_Subset
<1>3. /\ n \in Nat
      /\ \A k \in 1 .. n : Nth(S, k) \in S
      /\ \A i \in S : Rank(S, i) \in 1 .. n /\ Nth(S, Rank(S, i)) = i
      /\ \A k, l \in 1 .. n : k <= l => Nth(S, k) <= Nth(S, l)
  <2>. HIDE DEF S
  <2>. QED  BY <1>2, RankOrder, NthInOrder
<1>4. /\ DOMAIN exits = 1 .. n
      /\ \A k \in 1 .. n : exits[k] = AsExit(t, fixups[Nth(S, k)])
  BY DEF AsBuilder
<1>5. \A i \in DOMAIN fixups :
        /\ found[i] = displacement(t, fixups[i], address)
        /\ i \in S => AsSeen(found[i].error)
                        = Closure!ExitResult(AsExit(t, fixups[i]), address)
        /\ i \notin S => found[i].error = "Ok"
  BY FixupsFailAsExits
<1>6. \A e : AsSeen(e) = "Ok" <=> e = "Ok"
  BY DEF AsSeen
<1>7. error = IF failing # {} THEN found[first].error ELSE "Ok"
  BY DEF build
<1>8. Closure!build(AsBuilder(t), address)
        = IF stuck # {} THEN Result(start) ELSE "Ok"
  BY DEF AsBuilder, Closure!build
<1>9. DOMAIN found = DOMAIN fixups
  OBVIOUS
<1>. HIDE DEF S, n, found, exits, fixups
<1>10. failing \subseteq S
  BY <1>5, <1>9
<1>11. \A k \in 1 .. n : /\ Result(k) = AsSeen(found[Nth(S, k)].error)
                         /\ k \in stuck <=> Nth(S, k) \in failing
  BY <1>2, <1>3, <1>4, <1>5, <1>6, <1>9
<1>12. \A i \in failing : Rank(S, i) \in stuck /\ Nth(S, Rank(S, i)) = i
  BY <1>3, <1>10, <1>11
<1>13. stuck \subseteq 1 .. n /\ stuck \subseteq Nat /\ failing \subseteq Nat
  BY <1>2, <1>3, <1>4, <1>10
<1>. HIDE DEF failing, stuck, Result
<1>14. CASE failing = {}
  <2>1. stuck = {}
    BY <1>11, <1>13, <1>14
  <2>. QED  BY <1>6, <1>7, <1>8, <1>14, <2>1
<1>15. CASE failing # {}
  <2>1. stuck # {}
    BY <1>12, <1>15
  <2>2. first \in failing /\ \A j \in failing : first <= j
    <3>1. \E m \in failing : \A j \in failing : m <= j
      BY <1>13, <1>15, LeastElement
    <3>. QED  BY <3>1
  <2>3. start \in stuck /\ \A l \in stuck : start <= l
    <3>1. \E m \in stuck : \A l \in stuck : m <= l
      BY <1>13, <2>1, LeastElement
    <3>. QED  BY <3>1
  <2>. HIDE DEF first, start
  <2>4. Nth(S, start) = first
    <3>1. Nth(S, start) \in failing /\ first <= Nth(S, start)
      BY <1>11, <1>13, <2>2, <2>3
    <3>2. start <= Rank(S, first) /\ Nth(S, Rank(S, first)) = first
      BY <1>12, <2>2, <2>3
    <3>3. start \in 1 .. n /\ Rank(S, first) \in 1 .. n
      BY <1>3, <1>10, <1>13, <2>2, <2>3
    <3>4. Nth(S, start) <= first
      <4>1. Nth(S, start) <= Nth(S, Rank(S, first))
        BY <1>3, <3>2, <3>3
      <4>. QED  BY <3>2, <4>1
    <3>5. Nth(S, start) \in Nat /\ first \in Nat
      BY <1>13, <2>2, <3>1
    <3>. QED  BY <3>1, <3>4, <3>5
  <2>. QED  BY <1>7, <1>8, <1>11, <1>13, <1>15, <2>1, <2>3, <2>4
<1>. QED  BY <1>14, <1>15

(* What stands for a trampoline is a Builder: its exits lead to addresses. *)
LEMMA BuilderType ==
    ASSUME IInv, NEW t \in Trampolines
    PROVE  AsBuilder(t) \in Closure!Builder
<1>. DEFINE fixups == relative_fixups[t]
            S == Leaving(t)
<1>1. DOMAIN fixups = 1 .. Len(fixups) /\ Len(fixups) \in Nat
  BY Shapes
<1>2. S \subseteq DOMAIN fixups
  BY DEF Leaving
<1>3. Cardinality(S) \in Nat /\ \A k \in 1 .. Cardinality(S) : Nth(S, k) \in S
  <2>. HIDE DEF S, fixups
  <2>1. IsFiniteSet(DOMAIN fixups) /\ DOMAIN fixups \subseteq Nat
    BY <1>1, FS_Interval
  <2>2. S \subseteq Nat /\ IsFiniteSet(S)
    BY <1>2, <2>1, FS_Subset
  <2>. QED  BY <2>2, RankOrder, NthInOrder
<1>4. ASSUME NEW i \in S
      PROVE  AsExit(t, fixups[i]) \in Closure!Exit
  <2>1. i \in DOMAIN asked[t] /\ i \in DOMAIN fixups
    BY <1>2, Elements
  <2>2. /\ asked[t][i].end \in Nat /\ asked[t][i] \in Branch
        /\ Describes(fixups[i], asked[t][i])
    BY <2>1, Elements
  <2>3. fixups[i].next_instruction_offset \in Nat
    BY <2>2 DEF Describes
  <2>4. CASE Lost(t, fixups[i].target)
    BY <2>3, <2>4 DEF AsExit, Closure!Exit, None, Closure!None
  <2>5. CASE fixups[i].target.kind = "address"
    <3>1. asked[t][i].meant \in Meaning
      BY <2>2 DEF Branch
    <3>2. PICK a \in Destinations : fixups[i].target = ToAddress(a)
      BY <2>2, <2>5, <3>1 DEF Describes, ToLabel, Meaning
    <3>3. a \in Closure!Address
      BY TrampolineAssumption DEF Address, Closure!Address
    <3>4. ~Lost(t, fixups[i].target) /\ fixups[i].target.value = a
      BY <2>5, <3>2 DEF Lost, ToAddress
    <3>. QED  BY <2>3, <3>3, <3>4 DEF AsExit, Closure!Exit
  <2>. QED  BY <2>4, <2>5 DEF Leaving
<1>5. AsBuilder(t).exits \in Seq(Closure!Exit)
  <2>1. AsBuilder(t).exits
          = [k \in 1 .. Cardinality(S) |-> AsExit(t, fixups[Nth(S, k)])]
    BY DEF AsBuilder
  <2>. HIDE DEF S, fixups
  <2>. QED  BY <1>3, <1>4, <2>1
<1>6. Len(code[t]) \in Nat
  BY Shapes
<1>. QED  BY <1>5, <1>6 DEF AsBuilder, Closure!Builder

(***************************************************************************)
(* Wherever it is tried, a trampoline of at most I32Max bytes succeeds or  *)
(* fails as the Builder that the allocator searches a page for             *)
(* (trampoline.rs 189-213 and session.rs 119-135): what is shown of the    *)
(* search for every Builder holds of the trampolines that callers write.   *)
(***************************************************************************)
THEOREM TrampolineIsABuilder == Spec => []BuildsLikeABuilder
<1>1. IInv => BuildsLikeABuilder
  BY BuilderType, FirstFailures DEF BuildsLikeABuilder, AsSeen
<1>. QED  BY <1>1, Inductive, PTL
=============================================================================
