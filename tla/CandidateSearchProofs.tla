------------------------ MODULE CandidateSearchProofs ------------------------
(***************************************************************************)
(* CandidateSearch implements NearestFirst, for every size of the address  *)
(* space, reach, page size, granularity and hook.                          *)
(***************************************************************************)
EXTENDS CandidateSearch, AddressSpaceProofs

USE UsizeMaxAssumption, RelativeJumpAssumption, SearchAssumption

(* The exact ends of what a jump reaches and a page fits into. *)
Lowest(n) == Greater(n + I32Min, 0)
Highest(n) == Lesser(n + I32Max, UsizeMax - Greater(PageSize - 1, 0))

LEMMA Ends ==
    ASSUME NEW h \in Hooks, NEW n, n = h + NEAR_JUMP_SIZE
    PROVE  /\ h \in Address /\ n \in Address
           /\ Lowest(n) \in Address
           /\ Lowest(n) = 0 \/ Lowest(n) <= h
           /\ Highest(n) \in Nat /\ Highest(n) <= UsizeMax
           /\ Places(n, PageSize, Granularity) =
                {b \in Address : /\ b % Granularity = 0
                                 /\ Lowest(n) <= b
                                 /\ b <= Highest(n)}
<1>1. h \in Address /\ n \in Address /\ h \in Nat /\ n \in Nat
  BY DEF Address
<1>2. /\ Lowest(n) \in Address
      /\ Lowest(n) = 0 \/ Lowest(n) <= h
  BY <1>1 DEF Lowest, Greater, I32Min, Address
<1>3. Highest(n) \in Nat /\ Highest(n) <= UsizeMax
  BY <1>1 DEF Highest, Lesser, Greater, Address
<1>4. \A b \in Address :
        /\ relative_offset_fits(n, b)
        /\ b + PageSize - 1 <= UsizeMax
        <=> Lowest(n) <= b /\ b <= Highest(n)
  BY <1>1 DEF Lowest, Highest, Lesser, Greater, I32Min, Address,
              relative_offset_fits
<1>. QED  BY <1>1, <1>2, <1>3, <1>4 DEF Places

(* The computed bounds are the outermost bases that serve. *)
LEMMA Bounds ==
    ASSUME NEW h \in Hooks, NEW n, n = h + NEAR_JUMP_SIZE,
           NEW lo, lo = lowest_base(n, Granularity),
           NEW hi, hi = highest_base(n, PageSize, Granularity)
    PROVE  /\ lo = None => h > align_down(UsizeMax, Granularity)
           /\ lo # None =>
                /\ lo \in Address /\ lo % Granularity = 0
                /\ Places(n, PageSize, Granularity) =
                     {b \in Address : /\ b % Granularity = 0
                                      /\ lo <= b /\ b <= hi}
           /\ hi \in Address /\ hi % Granularity = 0
           /\ hi <= align_down(UsizeMax, Granularity)
<1>1. /\ lo = align_up(Lowest(n), Granularity)
      /\ hi = align_down(Highest(n), Granularity)
  BY DEF lowest_base, highest_base, Lowest, Highest
<1>2. /\ h \in Address /\ n \in Address
      /\ Lowest(n) \in Address
      /\ Lowest(n) = 0 \/ Lowest(n) <= h
      /\ Highest(n) \in Nat /\ Highest(n) <= UsizeMax
  BY Ends
<1>3. ASSUME lo = None  PROVE h > align_down(UsizeMax, Granularity)
  <2>1. Lowest(n) > align_down(UsizeMax, Granularity)
    BY <1>1, <1>2, <1>3, AlignUpOverflow
  <2>2. align_down(UsizeMax, Granularity) \in Nat
    BY AlignDown
  <2>. QED  BY <1>2, <2>1, <2>2 DEF Address
<1>4. /\ hi \in Address /\ hi % Granularity = 0
      /\ hi <= Highest(n)
      /\ hi <= align_down(UsizeMax, Granularity)
  <2>1. hi \in Nat /\ hi <= Highest(n) /\ hi % Granularity = 0
    BY <1>1, <1>2, AlignDown
  <2>2. hi <= align_down(UsizeMax, Granularity)
    BY <1>1, <1>2, AlignDownMonotone
  <2>. QED  BY <1>2, <2>1, <2>2 DEF Address
<1>5. ASSUME lo # None
      PROVE  /\ lo \in Address /\ lo % Granularity = 0
             /\ Lowest(n) <= lo
  <2>1. Lowest(n) \in Nat /\ Lowest(n) <= UsizeMax
    BY <1>2 DEF Address
  <2>2. /\ lo \in Nat /\ Lowest(n) <= lo /\ lo <= UsizeMax
        /\ lo % Granularity = 0
    BY <1>1, <1>5, <2>1, AlignUp
  <2>. QED  BY <2>2 DEF Address
<1>6. ASSUME lo # None, NEW b \in Address, b % Granularity = 0
      PROVE  Lowest(n) <= b /\ b <= Highest(n) <=> lo <= b /\ b <= hi
  <2>1. Lowest(n) <= b => lo <= b
    BY <1>1, <1>2, <1>6, MultipleAbove
  <2>2. b <= Highest(n) => b <= hi
    BY <1>1, <1>2, <1>6, MultipleBelow DEF Address
  <2>3. lo <= b => Lowest(n) <= b
    BY <1>2, <1>5, <1>6 DEF Address
  <2>4. b <= hi => b <= Highest(n)
    BY <1>2, <1>4 DEF Address
  <2>. QED  BY <2>1, <2>2, <2>3, <2>4
<1>7. ASSUME lo # None
      PROVE  Places(n, PageSize, Granularity) =
               {b \in Address : b % Granularity = 0 /\ lo <= b /\ b <= hi}
  <2>1. Places(n, PageSize, Granularity) =
          {b \in Address : /\ b % Granularity = 0
                           /\ Lowest(n) <= b
                           /\ b <= Highest(n)}
    BY Ends
  <2>. QED  BY <1>6, <1>7, <2>1
<1>. QED  BY <1>3, <1>4, <1>5, <1>7

(* What the iterator keeps: multiples on either side of hook h. *)
IterOK(h, lo, hi, l, u) ==
    /\ l \in Address \cup {None}
    /\ u \in Address \cup {None}
    /\ l # None => l % Granularity = 0 /\ lo <= l /\ l <= hi /\ l <= h
    /\ u # None => u % Granularity = 0 /\ lo <= u /\ u <= hi /\ h <= u
    /\ l # None /\ u # None => l < u

(* The bases an iterator in that state has still to return. *)
Rest(lo, hi, l, u) ==
    {b \in Address :
        /\ b % Granularity = 0
        /\ \/ l # None /\ lo <= b /\ b <= l
           \/ u # None /\ u <= b /\ b <= hi}

(* CandidateAddresses::new leaves out no base between the bounds. *)
LEMMA NewIterator ==
    ASSUME NEW h \in Address, NEW lo \in Address, NEW hi \in Address,
           lo % Granularity = 0, lo <= hi,
           hi <= align_down(UsizeMax, Granularity),
           NEW l, l = new_lower(h, lo, hi, Granularity),
           NEW u, u = new_upper(h, lo, hi, Granularity),
           NEW r, r = round_up_hook(h, lo, Granularity)
    PROVE  /\ r = None => h > align_down(UsizeMax, Granularity)
           /\ r # None =>
                /\ IterOK(h, lo, hi, l, u)
                /\ Rest(lo, hi, l, u) =
                     {b \in Address : /\ b % Granularity = 0
                                      /\ lo <= b /\ b <= hi}
<1>. DEFINE G == Granularity
            x == Lesser(h, hi)
            y == Greater(h, lo)
            d == align_down(x, G)
<1>. lo \in Nat /\ hi \in Nat /\ h \in Nat /\ G \in Nat \ {0}
  BY DEF Address
<1>1. /\ x \in Address /\ x <= h /\ x <= hi
      /\ y \in Address /\ h <= y /\ lo <= y
      /\ y = h \/ y = lo
      /\ \A b \in Address : b <= h /\ b <= hi => b <= x
      /\ \A b \in Address : h <= b /\ lo <= b => y <= b
  BY DEF Lesser, Greater, Address
<1>2. /\ d \in Address /\ d <= x /\ d % G = 0
      /\ \A b \in Address : b % G = 0 /\ b <= x => b <= d
  <2>1. x \in Nat
    BY <1>1 DEF Address
  <2>2. d \in Nat /\ d <= x /\ d % G = 0
    BY <2>1, AlignDown
  <2>3. \A b \in Address : b % G = 0 /\ b <= x => b <= d
    BY <2>1, MultipleBelow DEF Address
  <2>. HIDE DEF d, x
  <2>. QED  BY <1>1, <2>1, <2>2, <2>3 DEF Address
<1>3. l = (IF lo <= d THEN d ELSE None)
  <2>1. l = InBounds(d, lo, hi)
    BY DEF new_lower
  <2>. HIDE DEF d, x
  <2>2. d # None /\ d <= hi
    BY <1>1, <1>2 DEF None, Address
  <2>. QED  BY <2>1, <2>2 DEF InBounds
<1>4. r = align_up(y, G)
  BY DEF round_up_hook
<1>5. ASSUME r = None  PROVE h > align_down(UsizeMax, G)
  <2>1. y > align_down(UsizeMax, G)
    BY <1>1, <1>4, <1>5, AlignUpOverflow
  <2>2. align_down(UsizeMax, G) \in Nat
    BY AlignDown
  <2>. HIDE DEF y
  <2>. QED  BY <1>1, <2>1, <2>2 DEF Address
<1>6. ASSUME r # None
      PROVE  /\ r \in Address /\ y <= r /\ r % G = 0
             /\ \A b \in Address : b % G = 0 /\ y <= b => r <= b
  <2>1. y \in Nat /\ y <= UsizeMax
    BY <1>1 DEF Address
  <2>2. r \in Nat /\ y <= r /\ r <= UsizeMax /\ r % G = 0
    BY <1>4, <1>6, <2>1, AlignUp
  <2>3. \A b \in Address : b % G = 0 /\ y <= b => r <= b
    BY <1>1, <1>4, MultipleAbove
  <2>. QED  BY <2>2, <2>3 DEF Address
<1>. DEFINE v == IF r <= hi THEN r ELSE None
<1>7. ASSUME r # None
      PROVE  u = IF v # None /\ v = l
                 THEN IF v + G <= hi THEN v + G ELSE None
                 ELSE v
  <2>1. InBounds(r, lo, hi) = v
    <3>1. lo <= r
      BY <1>1, <1>6, <1>7 DEF Address
    <3>. QED  BY <1>7, <3>1 DEF InBounds
  <2>2. u = IF v # None /\ v = l
            THEN InBounds(checked_add(v, G), lo, hi)
            ELSE v
    <3>. HIDE DEF v
    <3>. QED  BY <2>1 DEF new_upper
  <2>3. ASSUME v # None
        PROVE  InBounds(checked_add(v, G), lo, hi) =
                 IF v + G <= hi THEN v + G ELSE None
    <3>1. v \in Address /\ lo <= v
      BY <1>1, <1>6, <1>7, <2>3 DEF Address
    <3>. HIDE DEF v
    <3>. QED  BY <3>1 DEF InBounds, checked_add, None, Address
  <2>. HIDE DEF v
  <2>. QED  BY <2>2, <2>3
<1>. HIDE DEF x, y, d
<1>8. ASSUME r # None  PROVE IterOK(h, lo, hi, l, u)
  <2>1. l # None => l = d /\ l \in Address /\ l % G = 0 /\ lo <= l
                    /\ l <= hi /\ l <= h
    BY <1>1, <1>2, <1>3 DEF Address, None
  <2>2. v # None => v = r /\ v \in Address /\ v % G = 0 /\ lo <= v
                    /\ v <= hi /\ h <= v
    BY <1>1, <1>6, <1>8 DEF Address, None
  <2>. HIDE DEF v
  <2>3. CASE v # None /\ v = l
    <3>1. u = IF v + G <= hi THEN v + G ELSE None
      BY <1>7, <1>8, <2>3
    <3>2. (v + G) % G = 0
      BY <2>2, <2>3, StepMultiple DEF Address
    <3>3. v \in Nat /\ v <= hi
      BY <2>2, <2>3 DEF Address
    <3>4. u # None => u = v + G /\ u <= hi
      BY <3>1
    <3>5. u # None => /\ u \in Address /\ u % G = 0 /\ lo <= u
                      /\ h <= u /\ l < u
      <4>1. SUFFICES ASSUME u # None
                     PROVE  u \in Address /\ lo <= u /\ h <= u /\ l < u
        BY <3>2, <3>4
      <4>. QED  BY <2>2, <2>3, <3>3, <3>4, <4>1 DEF Address
    <3>. QED  BY <2>1, <3>4, <3>5 DEF IterOK
  <2>4. CASE ~(v # None /\ v = l)
    <3>1. u = v
      BY <1>7, <1>8, <2>4
    <3>2. l # None /\ v # None => l < v
      BY <2>1, <2>2, <2>4 DEF Address
    <3>3. v \in Address \cup {None} /\ l \in Address \cup {None}
      BY <2>1, <2>2
    <3>. QED  BY <2>1, <2>2, <3>1, <3>2, <3>3 DEF IterOK
  <2>. QED  BY <2>3, <2>4
<1>9. ASSUME r # None, NEW b \in Address, b % G = 0, lo <= b, b <= hi
      PROVE  (l # None /\ b <= l) \/ (u # None /\ u <= b)
  <2>. b \in Nat
    BY DEF Address
  <2>1. CASE b <= h
    <3>1. b <= d
      BY <1>1, <1>2, <1>9, <2>1
    <3>2. l = d /\ d \in Nat
      BY <1>2, <1>3, <1>9, <3>1 DEF Address
    <3>. QED  BY <3>1, <3>2 DEF None
  <2>2. CASE h < b
    <3>1. r <= b /\ r \in Nat /\ r % G = 0
      BY <1>1, <1>6, <1>9, <2>2 DEF Address
    <3>2. v = r /\ v # None
      BY <1>9, <3>1 DEF None
    <3>. HIDE DEF v
    <3>3. CASE v = l
      <4>1. l <= h
        BY <1>1, <1>2, <1>3, <3>2, <3>3 DEF Address
      <4>2. r < b
        BY <2>2, <3>2, <3>3, <3>1, <4>1
      <4>3. r + G <= b
        BY <1>9, <3>1, <4>2, NextMultiple
      <4>4. u = r + G
        BY <1>7, <1>9, <3>1, <3>2, <3>3, <4>3
      <4>. QED  BY <3>1, <4>3, <4>4 DEF None
    <3>4. CASE v # l
      BY <1>7, <1>9, <3>1, <3>2, <3>4
    <3>. QED  BY <3>3, <3>4
  <2>. QED  BY <2>1, <2>2
<1>10. ASSUME r # None
       PROVE  Rest(lo, hi, l, u) =
                {b \in Address : b % G = 0 /\ lo <= b /\ b <= hi}
  <2>1. ASSUME NEW b \in Address, b % G = 0
        PROVE  (\/ l # None /\ lo <= b /\ b <= l
                \/ u # None /\ u <= b /\ b <= hi) <=> lo <= b /\ b <= hi
    <3>1. l # None /\ b <= l => b <= hi
      BY <1>8, <1>10 DEF IterOK, Address
    <3>2. u # None /\ u <= b => lo <= b
      BY <1>8, <1>10 DEF IterOK, Address
    <3>. QED  BY <1>9, <1>10, <2>1, <3>1, <3>2
  <2>. QED  BY <2>1 DEF Rest
<1>. QED  BY <1>5, <1>8, <1>10
(* Taking the nearer end of the iterator takes the nearest base left. *)
LEMMA NearerEnd ==
    ASSUME NEW h \in Address, NEW lo \in Address, NEW hi \in Address,
           NEW l, NEW u, IterOK(h, lo, hi, l, u),
           NEW b \in Rest(lo, hi, l, u)
    PROVE  /\ take_lower(h, l, u) => abs_diff(l, h) <= abs_diff(b, h)
           /\ u # None /\ ~take_lower(h, l, u) =>
                abs_diff(u, h) <= abs_diff(b, h)
<1>1. /\ b \in Nat /\ h \in Nat
      /\ (l # None /\ b <= l) \/ (u # None /\ u <= b)
  BY DEF Rest, Address
<1>2. /\ l # None => l \in Nat /\ l <= h /\ abs_diff(l, h) = h - l
      /\ u # None => u \in Nat /\ h <= u /\ abs_diff(u, h) = u - h
  BY DEF IterOK, Address, abs_diff, Lesser, Greater
<1>3. CASE l # None /\ b <= l
  <2>1. abs_diff(b, h) = h - b /\ h - l <= h - b
    BY <1>1, <1>2, <1>3 DEF abs_diff, Lesser, Greater
  <2>. QED  BY <1>1, <1>2, <1>3, <2>1 DEF take_lower
<1>4. CASE u # None /\ u <= b
  <2>1. abs_diff(b, h) = b - h /\ u - h <= b - h
    BY <1>1, <1>2, <1>4 DEF abs_diff, Lesser, Greater
  <2>. QED  BY <1>1, <1>2, <1>4, <2>1 DEF take_lower
<1>. QED  BY <1>1, <1>3, <1>4

(* One step down takes the lower end and nothing else. *)
LEMMA StepDown ==
    ASSUME NEW h \in Address, NEW lo \in Address, NEW hi \in Address,
           lo % Granularity = 0,
           NEW l, NEW u, IterOK(h, lo, hi, l, u), l # None,
           NEW m, m = below(l, lo, Granularity)
    PROVE  /\ IterOK(h, lo, hi, m, u)
           /\ l \in Rest(lo, hi, l, u)
           /\ Rest(lo, hi, m, u) = Rest(lo, hi, l, u) \ {l}
<1>. DEFINE G == Granularity
<1>1. /\ l \in Address /\ l \in Nat /\ lo \in Nat /\ G \in Nat \ {0}
      /\ l % G = 0 /\ lo <= l /\ l <= hi /\ l <= h
  BY DEF IterOK, Address
<1>2. m = IF l - G >= lo THEN l - G ELSE None
  BY DEF below
<1>3. m # None => m \in Address /\ m % G = 0 /\ lo <= m /\ m < l
  <2>1. G <= l => (l - G) % G = 0
    BY <1>1, StepMultiple
  <2>2. SUFFICES ASSUME m # None
                 PROVE  m \in Address /\ m % G = 0 /\ lo <= m /\ m < l
    OBVIOUS
  <2>3. m = l - G /\ lo <= m
    BY <1>1, <1>2, <2>2
  <2>4. G <= l
    BY <1>1, <2>3
  <2>. QED  BY <1>1, <2>1, <2>3, <2>4 DEF Address
<1>4. IterOK(h, lo, hi, m, u)
  <2>1. m # None => m <= hi /\ m <= h /\ (u # None => m < u)
    BY <1>1, <1>3 DEF IterOK, Address
  <2>. QED  BY <1>3, <2>1 DEF IterOK
<1>5. ASSUME NEW b \in Address, b % G = 0, lo <= b
      PROVE  m # None /\ b <= m <=> b < l
  <2>. b \in Nat
    BY DEF Address
  <2>1. ASSUME b < l  PROVE m # None /\ b <= m
    <3>1. b + G <= l
      BY <1>1, <1>5, <2>1, NextMultiple
    <3>. QED  BY <1>1, <1>2, <1>5, <3>1 DEF None
  <2>2. ASSUME m # None, b <= m  PROVE b < l
    BY <1>1, <1>3, <2>2 DEF Address
  <2>. QED  BY <2>1, <2>2
<1>6. l \in Rest(lo, hi, l, u)
  BY <1>1 DEF Rest
<1>7. ASSUME NEW b \in Address, b % G = 0
      PROVE  (\/ m # None /\ lo <= b /\ b <= m
              \/ u # None /\ u <= b /\ b <= hi)
             <=> /\ \/ l # None /\ lo <= b /\ b <= l
                    \/ u # None /\ u <= b /\ b <= hi
                 /\ b # l
  <2>1. u # None /\ u <= b => b # l
    BY <1>1 DEF IterOK, Address
  <2>2. lo <= b => (b < l <=> b <= l /\ b # l)
    BY <1>1 DEF Address
  <2>. QED  BY <1>5, <1>7, <2>1, <2>2
<1>8. Rest(lo, hi, m, u) = Rest(lo, hi, l, u) \ {l}
  BY <1>7 DEF Rest
<1>. QED  BY <1>4, <1>6, <1>8

(* One step up takes the upper end and nothing else. *)
LEMMA StepUp ==
    ASSUME NEW h \in Address, NEW lo \in Address, NEW hi \in Address,
           NEW l, NEW u, IterOK(h, lo, hi, l, u), u # None,
           NEW m, m = above(u, hi, Granularity)
    PROVE  /\ IterOK(h, lo, hi, l, m)
           /\ u \in Rest(lo, hi, l, u)
           /\ Rest(lo, hi, l, m) = Rest(lo, hi, l, u) \ {u}
<1>. DEFINE G == Granularity
<1>1. /\ u \in Address /\ u \in Nat /\ hi \in Nat /\ hi <= UsizeMax
      /\ G \in Nat \ {0}
      /\ u % G = 0 /\ lo <= u /\ u <= hi /\ h <= u
  BY DEF IterOK, Address
<1>2. m = IF u + G <= hi THEN u + G ELSE None
  BY <1>1 DEF above, checked_add, None
<1>3. m # None => m \in Address /\ m % G = 0 /\ m <= hi /\ u < m
  <2>1. (u + G) % G = 0
    BY <1>1, StepMultiple
  <2>2. SUFFICES ASSUME m # None
                 PROVE  m \in Address /\ m % G = 0 /\ m <= hi /\ u < m
    OBVIOUS
  <2>3. m = u + G /\ m <= hi
    BY <1>1, <1>2, <2>2
  <2>. QED  BY <1>1, <2>1, <2>3 DEF Address
<1>4. IterOK(h, lo, hi, l, m)
  <2>1. m # None => lo <= m /\ h <= m /\ (l # None => l < m)
    BY <1>1, <1>3 DEF IterOK, Address
  <2>. QED  BY <1>3, <2>1 DEF IterOK
<1>5. ASSUME NEW b \in Address, b % G = 0, b <= hi
      PROVE  m # None /\ m <= b <=> u < b
  <2>. b \in Nat
    BY DEF Address
  <2>1. ASSUME u < b  PROVE m # None /\ m <= b
    <3>1. u + G <= b
      BY <1>1, <1>5, <2>1, NextMultiple
    <3>. QED  BY <1>1, <1>2, <1>5, <3>1 DEF None
  <2>2. ASSUME m # None, m <= b  PROVE u < b
    BY <1>1, <1>3, <2>2 DEF Address
  <2>. QED  BY <2>1, <2>2
<1>6. u \in Rest(lo, hi, l, u)
  BY <1>1 DEF Rest
<1>7. ASSUME NEW b \in Address, b % G = 0
      PROVE  (\/ l # None /\ lo <= b /\ b <= l
              \/ m # None /\ m <= b /\ b <= hi)
             <=> /\ \/ l # None /\ lo <= b /\ b <= l
                    \/ u # None /\ u <= b /\ b <= hi
                 /\ b # u
  <2>1. l # None /\ b <= l => b # u
    BY <1>1 DEF IterOK, Address
  <2>2. b <= hi => (u < b <=> u <= b /\ b # u)
    BY <1>1 DEF Address
  <2>. QED  BY <1>5, <1>7, <2>1, <2>2
<1>8. Rest(lo, hi, l, m) = Rest(lo, hi, l, u) \ {u}
  BY <1>7 DEF Rest
<1>. QED  BY <1>4, <1>6, <1>8
-----------------------------------------------------------------------------
(* The inductive invariant. *)
IInv ==
    /\ TypeOK
    /\ phase \in {"new", "next"} => minimum # None /\ minimum <= maximum
    /\ phase \in {"bounds", "new"} => lower = None /\ upper = None
    /\ phase = "next" => IterOK(hook, minimum, maximum, lower, upper)

(* The bounds are the same in every phase of a search. *)
LEMMA BoundsNow ==
    ASSUME TypeOK
    PROVE  /\ hook \in Address
           /\ minimum = None => hook > align_down(UsizeMax, Granularity)
           /\ minimum # None =>
                /\ minimum \in Address /\ minimum % Granularity = 0
                /\ Places(next_instruction, PageSize, Granularity) =
                     {b \in Address : /\ b % Granularity = 0
                                      /\ minimum <= b /\ b <= maximum}
           /\ maximum \in Address
           /\ maximum <= align_down(UsizeMax, Granularity)
<1>1. hook \in Hooks /\ next_instruction = hook + NEAR_JUMP_SIZE
  BY DEF TypeOK, next_instruction
<1>. DEFINE n == next_instruction
            lo == minimum
            hi == maximum
<1>2. lo = lowest_base(n, Granularity) /\ hi = highest_base(n, PageSize, Granularity)
  BY DEF minimum, maximum
<1>. HIDE DEF n, lo, hi
<1>3. n = hook + NEAR_JUMP_SIZE
  BY <1>1 DEF n
<1>4. /\ lo = None => hook > align_down(UsizeMax, Granularity)
      /\ lo # None =>
           /\ lo \in Address /\ lo % Granularity = 0
           /\ Places(n, PageSize, Granularity) =
                {b \in Address : b % Granularity = 0 /\ lo <= b /\ b <= hi}
      /\ hi \in Address /\ hi % Granularity = 0
      /\ hi <= align_down(UsizeMax, Granularity)
  BY <1>1, <1>2, <1>3, Bounds
<1>. QED  BY <1>1, <1>4 DEF n, lo, hi

LEMMA RemainingIsRest == Remaining = Rest(minimum, maximum, lower, upper)
BY DEF Remaining, Rest

(* What NewCandidates leaves behind. *)
LEMMA NewStep ==
    ASSUME IInv, NewCandidates,
           round_up_hook(hook, minimum, Granularity) # None
    PROVE  /\ IterOK(hook, minimum, maximum, lower', upper')
           /\ Rest(minimum, maximum, lower', upper') =
                Places(next_instruction, PageSize, Granularity)
<1>1. /\ phase = "new" /\ TypeOK
      /\ lower' = new_lower(hook, minimum, maximum, Granularity)
      /\ upper' = new_upper(hook, minimum, maximum, Granularity)
  BY DEF NewCandidates, IInv
<1>2. minimum # None /\ minimum <= maximum
  BY <1>1 DEF IInv
<1>3. /\ IterOK(hook, minimum, maximum, lower', upper')
      /\ Rest(minimum, maximum, lower', upper') =
           {b \in Address : /\ b % Granularity = 0
                            /\ minimum <= b /\ b <= maximum}
  <2>. DEFINE lo == minimum
              hi == maximum
              l == lower'
              u == upper'
  <2>1. /\ hook \in Address /\ lo \in Address /\ hi \in Address
        /\ lo % Granularity = 0 /\ lo <= hi
        /\ hi <= align_down(UsizeMax, Granularity)
        /\ l = new_lower(hook, lo, hi, Granularity)
        /\ u = new_upper(hook, lo, hi, Granularity)
        /\ round_up_hook(hook, lo, Granularity) # None
    BY <1>1, <1>2, BoundsNow
  <2>. HIDE DEF lo, hi, l, u
  <2>2. /\ IterOK(hook, lo, hi, l, u)
        /\ Rest(lo, hi, l, u) =
             {b \in Address : b % Granularity = 0 /\ lo <= b /\ b <= hi}
    BY <2>1, NewIterator
  <2>. QED  BY <2>2 DEF lo, hi, l, u
<1>. QED  BY <1>1, <1>2, <1>3, BoundsNow

LEMMA InitIInv == Init => IInv
BY DEF Init, IInv, TypeOK, Outcomes

LEMMA Frame ==
    ASSUME hook' = hook
    PROVE  /\ next_instruction' = next_instruction
           /\ minimum' = minimum
           /\ maximum' = maximum
BY DEF next_instruction, minimum, maximum

LEMMA StepIInv == IInv /\ [Next]_vars => IInv'
<1>. SUFFICES ASSUME IInv, [Next]_vars  PROVE IInv'
  OBVIOUS
<1>. TypeOK
  BY DEF IInv
<1>1. hook' = hook
  BY DEF Next, Search, Finished, CandidateBounds, NewCandidates, TryLower,
         TryUpper, Exhausted, vars
<1>2. /\ next_instruction' = next_instruction
      /\ minimum' = minimum /\ maximum' = maximum
  BY <1>1, Frame
<1>3. CASE CandidateBounds
  BY <1>1, <1>2, <1>3
     DEF CandidateBounds, IInv, TypeOK, Answer, Outcomes
<1>4. CASE NewCandidates
  <2>1. CASE round_up_hook(hook, minimum, Granularity) = None
    BY <1>1, <1>2, <1>4, <2>1
       DEF NewCandidates, IInv, TypeOK, Answer, Outcomes
  <2>2. CASE round_up_hook(hook, minimum, Granularity) # None
    <3>1. IterOK(hook, minimum, maximum, lower', upper')
      BY <1>4, <2>2, NewStep
    <3>2. lower' \in Address \cup {None} /\ upper' \in Address \cup {None}
      BY <3>1 DEF IterOK
    <3>. QED  BY <1>1, <1>2, <1>4, <2>2, <3>1, <3>2
                 DEF NewCandidates, IInv, TypeOK, Outcomes
  <2>. QED  BY <2>1, <2>2
<1>5. CASE TryLower
  <2>1. IterOK(hook, minimum, maximum, lower', upper')
    <3>. DEFINE lo == minimum
                hi == maximum
    <3>1. /\ hook \in Address /\ lo \in Address /\ hi \in Address
          /\ lo % Granularity = 0
          /\ IterOK(hook, lo, hi, lower, upper)
          /\ lower # None
          /\ lower' = below(lower, lo, Granularity)
          /\ upper' = upper
      BY <1>5, BoundsNow DEF TryLower, IInv, take_lower
    <3>. HIDE DEF lo, hi
    <3>2. IterOK(hook, lo, hi, lower', upper)
      BY <3>1, StepDown
    <3>. QED  BY <3>1, <3>2 DEF lo, hi
  <2>2. lower' \in Address \cup {None} /\ upper' \in Address \cup {None}
    BY <2>1 DEF IterOK
  <2>. QED  BY <1>1, <1>2, <1>5, <2>1, <2>2
               DEF TryLower, TryAllocatePage, IInv, TypeOK, Answer, Outcomes
<1>6. CASE TryUpper
  <2>1. IterOK(hook, minimum, maximum, lower', upper')
    <3>. DEFINE lo == minimum
                hi == maximum
    <3>1. /\ hook \in Address /\ lo \in Address /\ hi \in Address
          /\ IterOK(hook, lo, hi, lower, upper)
          /\ upper # None
          /\ upper' = above(upper, hi, Granularity)
          /\ lower' = lower
      BY <1>6, BoundsNow DEF TryUpper, IInv
    <3>. HIDE DEF lo, hi
    <3>2. IterOK(hook, lo, hi, lower, upper')
      BY <3>1, StepUp
    <3>. QED  BY <3>1, <3>2 DEF lo, hi
  <2>2. lower' \in Address \cup {None} /\ upper' \in Address \cup {None}
    BY <2>1 DEF IterOK
  <2>. QED  BY <1>1, <1>2, <1>6, <2>1, <2>2
               DEF TryUpper, TryAllocatePage, IInv, TypeOK, Answer, Outcomes
<1>7. CASE Exhausted
  BY <1>1, <1>2, <1>7 DEF Exhausted, IInv, TypeOK, Answer, Outcomes
<1>8. CASE UNCHANGED vars
  BY <1>1, <1>2, <1>8 DEF vars, IInv, TypeOK
<1>. QED  BY <1>3, <1>4, <1>5, <1>6, <1>7, <1>8 DEF Next, Search, Finished

(* The iterator's ends are addresses or None, on either side of the hook,  *)
(* in every state of every search.                                         *)
THEOREM SearchInvariance == Spec => []IInv
BY InitIInv, StepIInv, PTL DEF Spec

(* The type invariant of the search. *)
THEOREM SearchTypeCorrect == Spec => []TypeOK
<1>1. IInv => TypeOK
  BY DEF IInv
<1>. QED  BY <1>1, SearchInvariance, PTL
-----------------------------------------------------------------------------
(* The refinement.                                                         *)

LEMMA InitAbstract == Init => Abstract!AInit
BY DEF Init, Abstract!AInit, Untried, next_instruction, Places,
       relative_offset_fits, I32Min, Abstract!Places,
       Abstract!relative_offset_fits, Abstract!I32Min, Address,
       Abstract!Address

(* While the bounds are computed nothing is taken. *)
LEMMA BoundsAbstract ==
    ASSUME IInv, CandidateBounds
    PROVE  Abstract!ANext \/ UNCHANGED Abstract!avars
<1>. TypeOK
  BY DEF IInv
<1>. DEFINE P == Places(next_instruction, PageSize, Granularity)
<1>1. /\ phase = "bounds" /\ outcome = "searching"
      /\ lower = None /\ upper = None
      /\ lower' = None /\ upper' = None /\ hook' = hook
      /\ Untried = P
  BY DEF CandidateBounds, IInv, TypeOK, Untried
<1>2. /\ next_instruction' = next_instruction
      /\ minimum' = minimum /\ maximum' = maximum
  BY <1>1, Frame
<1>3. P' = P
  BY <1>2 DEF Places
<1>4. CASE minimum = None /\ Answer("AddressOverflow")
  <2>1. hook > align_down(UsizeMax, Granularity)
    BY <1>4, BoundsNow
  <2>2. Untried' = Untried
    BY <1>1, <1>3, <1>4 DEF Untried, Answer
  <2>3. Abstract!AOverflow
    BY <1>1, <1>4, <2>1, <2>2
       DEF Abstract!AOverflow, Answer, align_down, Abstract!align_down
  <2>. QED  BY <2>3 DEF Abstract!ANext
<1>5. CASE minimum # None /\ minimum > maximum /\ Answer("NoMemoryCave")
  <2>1. P = {}
    <3>1. /\ minimum \in Nat /\ maximum \in Nat /\ minimum > maximum
          /\ P = {b \in Address : /\ b % Granularity = 0
                                  /\ minimum <= b /\ b <= maximum}
      BY <1>5, BoundsNow DEF Address
    <3>. HIDE DEF P
    <3>. QED  BY <3>1 DEF Address
  <2>2. Untried' = {}
    BY <1>1, <1>5 DEF Untried, Remaining, Answer
  <2>3. Abstract!AGiveUp
    BY <1>1, <1>5, <2>1, <2>2 DEF Abstract!AGiveUp, Answer
  <2>. QED  BY <2>3 DEF Abstract!ANext
<1>6. CASE phase' = "new" /\ UNCHANGED outcome
  <2>1. Untried' = Untried
    BY <1>1, <1>3, <1>6 DEF Untried
  <2>. QED  BY <1>1, <1>6, <2>1 DEF Abstract!avars
<1>. QED  BY <1>4, <1>5, <1>6 DEF CandidateBounds

(* The new iterator has every place left, or the hook is at the very end. *)
LEMMA NewAbstract ==
    ASSUME IInv, NewCandidates
    PROVE  Abstract!ANext \/ UNCHANGED Abstract!avars
<1>. TypeOK
  BY DEF IInv
<1>. DEFINE P == Places(next_instruction, PageSize, Granularity)
<1>1. /\ phase = "new" /\ outcome = "searching" /\ hook' = hook
      /\ Untried = P
      /\ minimum # None /\ minimum <= maximum
  BY DEF NewCandidates, IInv, TypeOK, Untried
<1>2. /\ next_instruction' = next_instruction
      /\ minimum' = minimum /\ maximum' = maximum
  BY <1>1, Frame
<1>3. P' = P
  BY <1>2 DEF Places
<1>4. CASE round_up_hook(hook, minimum, Granularity) = None
  <2>1. hook > align_down(UsizeMax, Granularity)
    <3>. DEFINE lo == minimum
                hi == maximum
                l == new_lower(hook, lo, hi, Granularity)
                u == new_upper(hook, lo, hi, Granularity)
    <3>1. /\ hook \in Address /\ lo \in Address /\ hi \in Address
          /\ lo % Granularity = 0 /\ lo <= hi
          /\ hi <= align_down(UsizeMax, Granularity)
          /\ round_up_hook(hook, lo, Granularity) = None
      BY <1>1, <1>4, BoundsNow
    <3>2. l = l /\ u = u
      OBVIOUS
    <3>. HIDE DEF lo, hi
    <3>. QED  BY <3>1, NewIterator
  <2>2. Answer("AddressOverflow")
    BY <1>4 DEF NewCandidates
  <2>3. Untried' = Untried
    BY <1>1, <1>3, <2>2 DEF Untried, Answer
  <2>4. Abstract!AOverflow
    BY <1>1, <2>1, <2>2, <2>3
       DEF Abstract!AOverflow, Answer, align_down, Abstract!align_down
  <2>. QED  BY <2>4 DEF Abstract!ANext
<1>5. CASE round_up_hook(hook, minimum, Granularity) # None
  <2>1. phase' = "next" /\ outcome' = outcome
    BY <1>5 DEF NewCandidates
  <2>2. Rest(minimum, maximum, lower', upper') = P
    BY <1>5, NewStep
  <2>3. Untried' = Rest(minimum, maximum, lower', upper')
    BY <1>1, <1>2, <2>1 DEF Untried, Remaining, Rest
  <2>. QED  BY <1>1, <2>1, <2>2, <2>3 DEF Abstract!avars
<1>. QED  BY <1>4, <1>5

LEMMA SameDistance ==
    ASSUME NEW a, NEW b
    PROVE  Abstract!abs_diff(a, b) = abs_diff(a, b)
BY DEF abs_diff, Lesser, Greater,
       Abstract!abs_diff, Abstract!Lesser, Abstract!Greater

(* Taking either end of the iterator tries the nearest place left. *)
LEMMA TryAbstract ==
    ASSUME IInv, TryLower \/ TryUpper
    PROVE  Abstract!ANext
<1>. DEFINE lo == minimum
            hi == maximum
            taken == IF TryLower THEN lower ELSE upper
<1>1. /\ TypeOK /\ phase = "next" /\ outcome = "searching" /\ hook' = hook
      /\ IterOK(hook, lo, hi, lower, upper)
      /\ hook \in Address /\ hi \in Address
      /\ lo \in Address /\ lo % Granularity = 0
      /\ TryAllocatePage
  BY BoundsNow DEF IInv, TypeOK, TryLower, TryUpper
<1>2. minimum' = minimum /\ maximum' = maximum
  BY <1>1, Frame
<1>3. /\ Untried = Rest(lo, hi, lower, upper)
      /\ Untried' = Rest(lo, hi, lower', upper')
  BY <1>1, <1>2 DEF Untried, Remaining, Rest, TryAllocatePage, Answer
<1>4. /\ taken \in Rest(lo, hi, lower, upper)
      /\ Rest(lo, hi, lower', upper') = Rest(lo, hi, lower, upper) \ {taken}
      /\ \A c \in Rest(lo, hi, lower, upper) :
           abs_diff(taken, hook) <= abs_diff(c, hook)
  <2>1. CASE TryLower
    <3>1. /\ lower # None /\ lower' = below(lower, lo, Granularity)
          /\ upper' = upper /\ take_lower(hook, lower, upper)
          /\ taken = lower
      BY <2>1 DEF TryLower, take_lower
    <3>. HIDE DEF lo, hi, taken
    <3>2. /\ lower \in Rest(lo, hi, lower, upper)
          /\ Rest(lo, hi, lower', upper) =
               Rest(lo, hi, lower, upper) \ {lower}
      BY <1>1, <3>1, StepDown
    <3>3. \A c \in Rest(lo, hi, lower, upper) :
            abs_diff(lower, hook) <= abs_diff(c, hook)
      BY <1>1, <3>1, NearerEnd
    <3>. QED  BY <3>1, <3>2, <3>3
  <2>2. CASE TryUpper /\ ~TryLower
    <3>1. /\ upper # None /\ upper' = above(upper, hi, Granularity)
          /\ lower' = lower /\ ~take_lower(hook, lower, upper)
          /\ taken = upper
      BY <2>2 DEF TryUpper
    <3>. HIDE DEF lo, hi, taken
    <3>2. /\ upper \in Rest(lo, hi, lower, upper)
          /\ Rest(lo, hi, lower, upper') =
               Rest(lo, hi, lower, upper) \ {upper}
      BY <1>1, <3>1, StepUp
    <3>3. \A c \in Rest(lo, hi, lower, upper) :
            abs_diff(upper, hook) <= abs_diff(c, hook)
      BY <1>1, <3>1, NearerEnd
    <3>. QED  BY <3>1, <3>2, <3>3
  <2>. QED  BY <2>1, <2>2
<1>. HIDE DEF lo, hi, taken
<1>5. Abstract!Nearest(taken)
  BY <1>3, <1>4, SameDistance DEF Abstract!Nearest
<1>6. outcome' \in {"searching", "Ok", "Err"}
  BY <1>1 DEF TryAllocatePage, Answer
<1>7. Abstract!ATry(taken) /\ taken \in Untried
  BY <1>1, <1>3, <1>4, <1>5, <1>6 DEF Abstract!ATry
<1>. QED  BY <1>7 DEF Abstract!ANext

LEMMA ExhaustedAbstract ==
    ASSUME IInv, Exhausted
    PROVE  Abstract!ANext
<1>1. /\ phase = "next" /\ outcome = "searching" /\ hook' = hook
      /\ lower = None /\ upper = None /\ lower' = None /\ upper' = None
      /\ Answer("NoMemoryCave")
  BY DEF Exhausted, IInv, TypeOK
<1>2. Untried = {} /\ Untried' = {}
  BY <1>1 DEF Untried, Remaining, Answer
<1>3. Abstract!AGiveUp
  BY <1>1, <1>2 DEF Abstract!AGiveUp, Answer
<1>. QED  BY <1>3 DEF Abstract!ANext

LEMMA StutterAbstract ==
    ASSUME UNCHANGED vars
    PROVE  UNCHANGED Abstract!avars
<1>1. /\ next_instruction' = next_instruction
      /\ minimum' = minimum /\ maximum' = maximum
  BY Frame DEF vars
<1>. QED  BY <1>1 DEF vars, Abstract!avars, Untried, Remaining, Places,
                      relative_offset_fits

(* CandidateSearch implements NearestFirst: whatever the hook and the      *)
(* platform's page size and granularity, every base that serves is tried,  *)
(* once, nearest first, before NoMemoryCave is reported.                   *)
THEOREM SearchRefinesNearestFirst == Spec => TriesNearestFirst
<1>1. Init => Abstract!AInit
  BY InitAbstract
<1>2. IInv /\ [Next]_vars => [Abstract!ANext]_(Abstract!avars)
  <2>. SUFFICES ASSUME IInv, [Next]_vars
                PROVE  Abstract!ANext \/ UNCHANGED Abstract!avars
    OBVIOUS
  <2>. QED  BY BoundsAbstract, NewAbstract, TryAbstract, ExhaustedAbstract,
               StutterAbstract DEF Next, Search, Finished
<1>. QED  BY <1>1, <1>2, SearchInvariance, PTL
          DEF Spec, TriesNearestFirst, Abstract!ASpec
=============================================================================
