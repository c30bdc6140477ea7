------------------------ MODULE AddressSpaceProofs -------------------------
(***************************************************************************)
(* The alignment arithmetic of relative_jump.rs, for every address and     *)
(* every alignment.                                                        *)
(***************************************************************************)
EXTENDS AddressSpace, FiniteSetTheorems, TLAPS

LEMMA ModDiv ==
    ASSUME NEW a \in Nat, NEW P \in Nat \ {0}
    PROVE  /\ a % P = a - P * (a \div P)
           /\ a \div P \in Nat /\ P * (a \div P) \in Nat
           /\ a % P \in 0 .. P - 1
<1>1. a % P = a - P * (a \div P)
  BY SMT
<1>2. a \div P \in Nat
  BY Z3
<1>3. a % P \in 0 .. P - 1
  OBVIOUS
<1>. QED  BY <1>1, <1>2, <1>3

(* align_down returns the closest multiple below. *)
LEMMA AlignDown ==
    ASSUME NEW a \in Nat, NEW P \in Nat \ {0}
    PROVE  /\ align_down(a, P) \in Nat
           /\ align_down(a, P) <= a
           /\ a < align_down(a, P) + P
           /\ align_down(a, P) % P = 0
<1>1. align_down(a, P) = P * (a \div P)
  BY ModDiv DEF align_down
<1>2. (P * (a \div P)) % P = 0
  <2>1. \A q \in Nat : (P * q) % P = 0
    OBVIOUS
  <2>. QED  BY <2>1, ModDiv
<1>. QED  BY <1>1, <1>2, ModDiv DEF align_down

(* align_down keeps the order of addresses. *)
LEMMA AlignDownMonotone ==
    ASSUME NEW a \in Nat, NEW b \in Nat, NEW P \in Nat \ {0}, a <= b
    PROVE  align_down(a, P) <= align_down(b, P)
<1>1. a \div P <= b \div P
  OBVIOUS
<1>2. P * (a \div P) <= P * (b \div P)
  <2>1. \A p, q \in Nat : p <= q => P * p <= P * q
    OBVIOUS
  <2>. QED  BY <1>1, <2>1, ModDiv
<1>. QED  BY <1>2, ModDiv DEF align_down

(* align_up returns the closest multiple above, or overflows. *)
LEMMA AlignUp ==
    ASSUME NEW a \in Nat, a <= UsizeMax, NEW P \in Nat \ {0},
           align_up(a, P) # None
    PROVE  /\ align_up(a, P) \in Nat
           /\ a <= align_up(a, P)
           /\ align_up(a, P) < a + P
           /\ align_up(a, P) <= UsizeMax
           /\ align_up(a, P) % P = 0
<1>1. CASE a % P = 0
  BY <1>1 DEF align_up
<1>2. CASE a % P # 0
  <2>1. align_up(a, P) = a + (P - (a % P)) /\ align_up(a, P) <= UsizeMax
    BY <1>2, ModDiv, UsizeMaxAssumption DEF align_up, checked_add
  <2>2. PICK q \in Nat, m \in Nat : a % P = a - m /\ m = P * q
    BY ModDiv
  <2>3. a + (P - (a % P)) = m + P
    <3>1. \A r \in Int : r = a - m => a + (P - r) = m + P
      OBVIOUS
    <3>. QED  BY <2>2, <3>1
  <2>4. m + P = P * (q + 1)
    BY <2>2, Z3
  <2>5. (P * (q + 1)) % P = 0
    <3>1. \A k \in Nat : (P * k) % P = 0
      OBVIOUS
    <3>. QED  BY <3>1
  <2>6. align_up(a, P) = m + P /\ align_up(a, P) % P = 0
    BY <2>1, <2>3, <2>4, <2>5
  <2>7. a % P \in 1 .. P - 1 /\ a % P = a - m
    BY <1>2, <2>2, ModDiv
  <2>8. a <= m + P /\ m + P < a + P
    <3>1. \A r \in 1 .. P - 1 : r = a - m => a <= m + P /\ m + P < a + P
      OBVIOUS
    <3>. QED  BY <2>7, <3>1
  <2>. QED  BY <2>1, <2>6, <2>8
<1>. QED  BY <1>1, <1>2, ModDiv

(* Multiples of P are P apart. *)
LEMMA NextMultiple ==
    ASSUME NEW a \in Nat, NEW b \in Nat, NEW P \in Nat \ {0},
           a % P = 0, b % P = 0, a < b
    PROVE  a + P <= b
<1>1. a = P * (a \div P) /\ b = P * (b \div P)
  BY ModDiv
<1>2. a \div P < b \div P
  <2>1. \A p, q \in Nat : q <= p => P * q <= P * p
    OBVIOUS
  <2>2. a \div P \in Nat /\ b \div P \in Nat
    BY ModDiv
  <2>3. SUFFICES ASSUME b \div P <= a \div P  PROVE b <= a
    BY <2>2
  <2>4. P * (b \div P) <= P * (a \div P)
    BY <2>1, <2>2, <2>3
  <2>. QED  BY <1>1, <2>4
<1>3. P * (a \div P + 1) <= P * (b \div P)
  <2>1. \A p, q \in Nat : p <= q => P * p <= P * q
    OBVIOUS
  <2>2. a \div P + 1 <= b \div P /\ a \div P + 1 \in Nat
    BY <1>2, ModDiv
  <2>. QED  BY <2>1, <2>2, ModDiv
<1>4. P * (a \div P + 1) = P * (a \div P) + P
  BY ModDiv, Z3
<1>. QED  BY <1>1, <1>3, <1>4

(* A multiple of P on either side of another one. *)
LEMMA StepMultiple ==
    ASSUME NEW a \in Nat, NEW P \in Nat \ {0}, a % P = 0
    PROVE  /\ (a + P) % P = 0
           /\ P <= a => (a - P) % P = 0
<1>1. PICK q \in Nat : a = P * q
  <2>1. a = P * (a \div P) /\ a \div P \in Nat
    BY ModDiv
  <2>. QED  BY <2>1
<1>2. \A k \in Nat : (P * k) % P = 0
  OBVIOUS
<1>3. P * (q + 1) = P * q + P
  BY Z3
<1>4. (a + P) % P = 0
  BY <1>1, <1>2, <1>3
<1>5. ASSUME P <= a  PROVE  (a - P) % P = 0
  <2>1. q # 0
    BY <1>1, <1>5
  <2>2. P * (q - 1) = P * q - P
    BY <2>1, Z3
  <2>3. q - 1 \in Nat
    BY <2>1
  <2>. QED  BY <1>1, <1>2, <2>2, <2>3
<1>. QED  BY <1>4, <1>5

(* A multiple is its own rounding, and nothing lies between. *)
LEMMA MultipleBelow ==
    ASSUME NEW a \in Nat, NEW b \in Nat, NEW P \in Nat \ {0},
           b % P = 0, b <= a
    PROVE  b <= align_down(a, P)
<1>1. align_down(b, P) = b
  BY DEF align_down
<1>. QED  BY <1>1, AlignDownMonotone

LEMMA MultipleAbove ==
    ASSUME NEW a \in Address, NEW b \in Address, NEW P \in Nat \ {0},
           b % P = 0, a <= b
    PROVE  align_up(a, P) # None /\ align_up(a, P) <= b
<1>. USE UsizeMaxAssumption
<1>1. CASE a % P = 0
  BY <1>1 DEF align_up, Address, None
<1>2. CASE a % P # 0
  <2>. DEFINE m == align_down(a, P)
  <2>1. m \in Nat /\ m <= a /\ a < m + P /\ m % P = 0
    BY AlignDown DEF Address
  <2>2. m = a - (a % P)
    BY DEF align_down
  <2>3. m # a
    BY <1>2, <2>1
  <2>4. m + P <= b
    <3>. HIDE DEF m
    <3>1. m < b /\ b \in Nat
      BY <2>1, <2>3 DEF Address
    <3>. QED  BY <2>1, <3>1, NextMultiple
  <2>5. a + (P - (a % P)) = m + P
    <3>1. a % P \in Nat
      BY ModDiv DEF Address
    <3>. HIDE DEF m
    <3>. QED  BY <2>1, <2>2, <3>1 DEF Address
  <2>6. align_up(a, P) = m + P
    <3>. HIDE DEF m
    <3>. QED  BY <1>2, <2>1, <2>4, <2>5 DEF align_up, checked_add, Address
  <2>. QED  BY <2>1, <2>4, <2>6 DEF None
<1>. QED  BY <1>1, <1>2

(* Rounding up overflows only above the last multiple. *)
LEMMA AlignUpOverflow ==
    ASSUME NEW a \in Address, NEW P \in Nat \ {0}, align_up(a, P) = None
    PROVE  a > align_down(UsizeMax, P)
<1>1. SUFFICES ASSUME a <= align_down(UsizeMax, P)  PROVE FALSE
  BY AlignDown, UsizeMaxAssumption DEF Address
<1>2. align_down(UsizeMax, P) \in Address /\ align_down(UsizeMax, P) % P = 0
  <2>1. UsizeMax \in Nat
    BY UsizeMaxAssumption
  <2>2. /\ align_down(UsizeMax, P) \in Nat
        /\ align_down(UsizeMax, P) <= UsizeMax
        /\ align_down(UsizeMax, P) % P = 0
    BY <2>1, AlignDown
  <2>. QED  BY <2>1, <2>2 DEF Address
<1>. QED  BY <1>1, <1>2, MultipleAbove

(* A set of naturals has a least element: what CHOOSE picks in build.      *)
LEMMA LeastElement ==
    ASSUME NEW S, S \subseteq Nat, S # {}
    PROVE  \E m \in S : \A n \in S : m <= n
<1>. DEFINE Upto(m) == 0 .. m
            T == {Upto(m) : m \in S}
<1>1. PICK x \in S : TRUE
  OBVIOUS
<1>2. \A m \in Nat : IsFiniteSet(Upto(m))
  BY FS_Interval
<1>3. T \subseteq FiniteSubsetsOf(Nat) /\ T # {}
  BY <1>1, <1>2 DEF FiniteSubsetsOf
<1>4. PICK t \in T : \A u \in T : ~(<<u, t>> \in StrictSubsetOrdering(Nat))
  <2>. HIDE DEF T
  <2>. QED  BY <1>3, FS_StrictSubsetOrderingWellFounded, WFMin
<1>5. PICK m \in S : t = Upto(m)
  OBVIOUS
<1>6. ASSUME NEW n \in S, n < m  PROVE FALSE
  <2>1. Upto(n) \subseteq Upto(m) /\ m \in Upto(m) /\ m \notin Upto(n)
    BY <1>6
  <2>2. Upto(n) \in T /\ Upto(n) \subseteq Nat /\ Upto(m) \subseteq Nat
    OBVIOUS
  <2>3. <<Upto(n), Upto(m)>> \in StrictSubsetOrdering(Nat)
    <3>. HIDE DEF Upto
    <3>. QED  BY <2>1, <2>2 DEF StrictSubsetOrdering
  <2>. QED  BY <1>4, <1>5, <2>2, <2>3
<1>. QED  BY <1>6
=============================================================================
