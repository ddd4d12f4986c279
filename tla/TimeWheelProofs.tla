--------------------------- MODULE TimeWheelProofs ---------------------------
(***************************************************************************)
(* For a wheel of any levels, slots and bounds: its types, that no ID has  *)
(* two tasks that can still fire, and that tasks fire on time.  The last   *)
(* needs arithmetic: a level's cursor is the number of ticks divided by    *)
(* the level's span, modulo its slots, and a waiting task is booked for    *)
(* one turn of its slot.                                                   *)
(***************************************************************************)
EXTENDS TimeWheel, SequenceTheorems, FiniteSetTheorems, WellFoundedInduction, TLAPS
-----------------------------------------------------------------------------
(* Division *)

\* Quotient and remainder, and that nothing else is.
LEMMA Division ==
    ASSUME NEW a \in Int, NEW b \in Int, b > 0
    PROVE  /\ a \div b \in Int /\ a % b \in 0 .. b - 1
           /\ a = b * (a \div b) + (a % b)
<1>1. a \div b \in Int /\ a % b \in 0 .. b - 1
  OBVIOUS
<1>2. a = b * (a \div b) + (a % b)
  BY Z3T(30)
<1>3. QED
  BY <1>1, <1>2

LEMMA ProductGrows ==
    ASSUME NEW b \in Int, b > 0, NEW x \in Int, NEW y \in Int, x < y
    PROVE  b * x + b <= b * y
<1>1. b * (y - x) >= b
  OBVIOUS
<1>2. b * (y - x) = b * y - b * x
  OBVIOUS
<1>3. b * x \in Int /\ b * y \in Int
  OBVIOUS
<1> QED BY <1>1, <1>2, <1>3

LEMMA DivisionUnique ==
    ASSUME NEW a \in Int, NEW b \in Int, b > 0, NEW q \in Int, NEW r \in 0 .. b - 1, a = b * q + r
    PROVE  a \div b = q /\ a % b = r
<1> DEFINE d == a \div b
           m == a % b
<1>1. d \in Int /\ m \in 0 .. b - 1 /\ a = b * d + m
  BY Division
<1> HIDE DEF d, m
<1>2. b * d \in Int /\ b * q \in Int
  BY <1>1
<1>3. ~(d < q)
  <2> SUFFICES ASSUME d < q PROVE FALSE OBVIOUS
  <2>1. b * d + b <= b * q
    BY <1>1, ProductGrows
  <2> QED BY <1>1, <1>2, <2>1
<1>4. ~(q < d)
  <2> SUFFICES ASSUME q < d PROVE FALSE OBVIOUS
  <2>1. b * q + b <= b * d
    BY <1>1, ProductGrows
  <2> QED BY <1>1, <1>2, <2>1
<1>5. d = q
  BY <1>1, <1>3, <1>4
<1> QED BY <1>1, <1>2, <1>5 DEF d, m

\* A count of ticks moves on by one: a level's turn ends, or it does not.
LEMMA NextQuotient ==
    ASSUME NEW a \in Int, NEW b \in Int, b > 0
    PROVE  /\ (a + 1) % b = 0 => (a + 1) \div b = a \div b + 1 /\ a + 1 = b * (a \div b + 1)
           /\ (a + 1) % b # 0 => (a + 1) \div b = a \div b
<1> DEFINE d == a \div b
           m == a % b
<1>1. d \in Int /\ m \in 0 .. b - 1 /\ a = b * d + m /\ b * d \in Int
  BY Division
<1> HIDE DEF d, m
<1>2. CASE m = b - 1
  <2>1. b * (d + 1) = b * d + b
    BY <1>1
  <2>2. a + 1 = b * (d + 1) + 0 /\ d + 1 \in Int
    BY <1>1, <1>2, <2>1
  <2>3. (a + 1) \div b = d + 1 /\ (a + 1) % b = 0
    BY <2>2, DivisionUnique
  <2> QED BY <2>2, <2>3 DEF d
<1>3. CASE m # b - 1
  <2>1. a + 1 = b * d + (m + 1) /\ m + 1 \in 0 .. b - 1
    BY <1>1, <1>3
  <2>2. (a + 1) \div b = d /\ (a + 1) % b = m + 1
    BY <1>1, <2>1, DivisionUnique
  <2>3. m + 1 # 0
    BY <1>1
  <2> QED BY <2>2, <2>3 DEF d
<1> QED BY <1>2, <1>3

\* Slots are residues: adding in between changes nothing, and two turns of one slot
\* that are less than a whole round apart are the same turn.
LEMMA Residues ==
    ASSUME NEW n \in Int, n > 0, NEW x \in Int, NEW y \in Int
    PROVE  /\ ((x % n) + y) % n = (x + y) % n
           /\ x % n = y % n /\ x < y + n /\ y < x + n => x = y
<1> DEFINE d == x \div n
           m == x % n
           e == y \div n
           k == y % n
<1>1. d \in Int /\ m \in 0 .. n - 1 /\ x = n * d + m /\ n * d \in Int
  BY Division
<1>2. e \in Int /\ k \in 0 .. n - 1 /\ y = n * e + k /\ n * e \in Int
  BY Division
<1> HIDE DEF d, m, e, k
<1>3. (m + y) % n = (x + y) % n
  <2> DEFINE q == (m + y) \div n
             r == (m + y) % n
  <2>1. m + y \in Int
    BY <1>1
  <2>2. q \in Int /\ r \in 0 .. n - 1 /\ m + y = n * q + r
    BY <2>1, Division
  <2> HIDE DEF q, r
  <2>3. n * (d + q) = n * d + n * q /\ n * q \in Int
    BY <1>1, <2>2
  <2>4. x + y = n * (d + q) + r /\ d + q \in Int /\ x + y \in Int
    BY <1>1, <2>2, <2>3
  <2>5. (x + y) % n = r
    BY <2>2, <2>4, DivisionUnique
  <2> QED BY <2>5 DEF r
<1>4. ASSUME m = k, x < y + n, y < x + n PROVE x = y
  <2>1. ~(d < e)
    <3> SUFFICES ASSUME d < e PROVE FALSE OBVIOUS
    <3>1. n * d + n <= n * e
      BY <1>1, <1>2, ProductGrows
    <3> QED BY <1>1, <1>2, <1>4, <3>1
  <2>2. ~(e < d)
    <3> SUFFICES ASSUME e < d PROVE FALSE OBVIOUS
    <3>1. n * e + n <= n * d
      BY <1>1, <1>2, ProductGrows
    <3> QED BY <1>1, <1>2, <1>4, <3>1
  <2>3. d = e
    BY <1>1, <1>2, <2>1, <2>2
  <2> QED BY <1>1, <1>2, <1>4, <2>3
<1> QED BY <1>3, <1>4 DEF m, k

\* A level of n slots of span b has gone all round when the next level's span, n * b, has.
LEMMA Levels2 ==
    ASSUME NEW a \in Int, NEW b \in Int, b > 0, NEW n \in Int, n > 0
    PROVE  /\ n * b \in Int /\ n * b > 0
           /\ a % (n * b) = 0 <=> a % b = 0 /\ (a \div b) % n = 0
<1> DEFINE d == a \div b
           m == a % b
           e == d \div n
           f == d % n
<1>1. d \in Int /\ m \in 0 .. b - 1 /\ a = b * d + m /\ b * d \in Int
  BY Division
<1>2. e \in Int /\ f \in 0 .. n - 1 /\ d = n * e + f /\ n * e \in Int
  BY <1>1, Division
<1> HIDE DEF d, m, e, f
<1>3. n * b \in Int /\ n * b > 0
  OBVIOUS
<1>4. b * f + m \in 0 .. n * b - 1
  <2>1. b * f \in Nat /\ b * n = n * b
    BY <1>2
  <2>2. b * f + b <= b * n
    BY <1>2, ProductGrows
  <2> QED BY <1>1, <1>3, <2>1, <2>2
<1>5. a = (n * b) * e + (b * f + m)
  <2>1. b * d = b * (n * e) + b * f
    BY <1>1, <1>2
  <2>2. b * (n * e) = (n * b) * e
    BY <1>2
  <2>3. b * f \in Int /\ (n * b) * e \in Int
    BY <1>2, <1>3
  <2> QED BY <1>1, <2>1, <2>2, <2>3
<1>6. a % (n * b) = b * f + m
  BY <1>2, <1>3, <1>4, <1>5, DivisionUnique
<1>7. b * f + m = 0 <=> f = 0 /\ m = 0
  <2>1. f = 0 => b * f = 0
    BY <1>2
  <2>2. f # 0 => b * f >= b
    BY <1>2
  <2>3. b * f \in Nat
    BY <1>2
  <2> QED BY <1>1, <1>2, <2>1, <2>2, <2>3
<1> QED BY <1>3, <1>6, <1>7 DEF d, m, f

\* A set of naturals has a least member: what the inductions below use, on the set of
\* counterexamples.
LEMMA LeastNat ==
    ASSUME NEW T, T \subseteq Nat, T # {}
    PROVE  \E x \in T : \A y \in T : x <= y
<1> DEFINE U == {0 .. n : n \in T}
<1>1. U # {} /\ U \subseteq FiniteSubsetsOf(Nat)
  <2>1. ASSUME NEW n \in T PROVE 0 .. n \in SUBSET Nat /\ IsFiniteSet(0 .. n)
    BY FS_Interval
  <2>2. QED
    BY <2>1 DEF FiniteSubsetsOf
<1>2. PICK u \in U : \A v \in U : <<v, u>> \notin StrictSubsetOrdering(Nat)
  <2> HIDE DEF U
  <2>1. QED
    BY <1>1, FS_StrictSubsetOrderingWellFounded, WFMin
<1>3. PICK x \in T : u = 0 .. x
  OBVIOUS
<1>4. ASSUME NEW y \in T, y < x PROVE FALSE
  <2>1. /\ 0 .. y \in U /\ 0 .. y \subseteq 0 .. x /\ 0 .. y # 0 .. x
        /\ 0 .. x \subseteq Nat /\ 0 .. y \subseteq Nat
    BY <1>4
  <2>2. <<0 .. y, 0 .. x>> \in StrictSubsetOrdering(Nat)
    BY <2>1 DEF StrictSubsetOrdering
  <2>3. QED
    BY <1>2, <1>3, <2>1, <2>2
<1>5. QED
  BY <1>4
-----------------------------------------------------------------------------
(* The levels, and where place puts a task *)

LEMMA SlotsArePositive ==
    /\ Len(Slots) \in Nat /\ Len(Slots) > 0
    /\ \A k \in Levels : NumSlots(k) \in Nat /\ NumSlots(k) > 0
<1>1. Slots \in Seq(Nat \ {0}) /\ Slots # <<>>
  BY WheelAssumption
<1>2. Len(Slots) \in Nat /\ Len(Slots) > 0
  BY <1>1
<1>3. ASSUME NEW k \in Levels PROVE NumSlots(k) \in Nat /\ NumSlots(k) > 0
  BY <1>1, <1>2 DEF Levels, NumSlots
<1>4. QED
  BY <1>2, <1>3

\* The recursive definition of LevelTick defines a function.
LEMMA TickIsDefined ==
    LevelTick = [k \in 0 .. Len(Slots) |-> IF k = 0 THEN 1 ELSE NumSlots(k - 1) * LevelTick[k - 1]]
<1> DEFINE Ticks(f, m) == f = [k \in 0 .. m |-> IF k = 0 THEN 1 ELSE NumSlots(k - 1) * f[k - 1]]
           Bad == {m \in 0 .. Len(Slots) : ~ \E f : Ticks(f, m)}
<1>1. Bad = {}
  <2> SUFFICES ASSUME Bad # {} PROVE FALSE
    OBVIOUS
  <2>1. PICK m \in Bad : \A y \in Bad : m <= y
    <3>1. Bad \subseteq Nat
      OBVIOUS
    <3> HIDE DEF Bad
    <3>2. QED
      BY <3>1, LeastNat
  <2>2. m \in Nat /\ m <= Len(Slots) /\ Len(Slots) \in Nat
    BY SlotsArePositive
  <2>3. CASE m = 0
    <3> DEFINE f == [k \in 0 .. 0 |-> 1]
    <3>1. Ticks(f, 0)
      OBVIOUS
    <3>2. QED
      BY <2>3, <3>1
  <2>4. CASE m > 0
    <3>1. m - 1 \in 0 .. Len(Slots) /\ m - 1 \notin Bad
      <4>1. m - 1 \in 0 .. Len(Slots) /\ ~(m <= m - 1)
        BY <2>2, <2>4
      <4> HIDE DEF Bad
      <4>2. QED
        BY <2>1, <4>1
    <3>2. PICK g : Ticks(g, m - 1)
      BY <3>1
    <3> DEFINE f == [k \in 0 .. m |-> IF k = m THEN NumSlots(m - 1) * g[m - 1] ELSE g[k]]
               e == [k \in 0 .. m |-> IF k = 0 THEN 1 ELSE NumSlots(k - 1) * f[k - 1]]
    <3>3. ASSUME NEW k \in 0 .. m PROVE f[k] = e[k]
      <4>1. CASE k = m
        <5>1. k # 0 /\ k - 1 \in 0 .. m /\ k - 1 # m
          BY <2>2, <2>4, <4>1
        <5>2. f[k - 1] = g[m - 1]
          BY <4>1, <5>1
        <5>3. QED
          BY <4>1, <5>1, <5>2
      <4>2. CASE k # m
        <5>1. k \in 0 .. m - 1
          BY <2>2, <4>2
        <5>2. f[k] = g[k]
          BY <4>2
        <5>3. CASE k = 0
          BY <3>2, <5>1, <5>2, <5>3
        <5>4. CASE k # 0
          <6>1. k - 1 \in 0 .. m /\ k - 1 # m
            BY <2>2, <5>1, <5>4
          <6>2. f[k - 1] = g[k - 1]
            BY <6>1
          <6>3. g[k] = NumSlots(k - 1) * g[k - 1]
            BY <3>2, <5>1, <5>4
          <6>4. QED
            BY <5>2, <5>4, <6>2, <6>3
        <5>5. QED
          BY <5>3, <5>4
      <4>3. QED
        BY <4>1, <4>2
    <3>4. f = e
      BY <3>3
    <3>5. Ticks(f, m)
      BY <3>4
    <3> HIDE DEF f
    <3>6. QED
      BY <3>5
  <2>5. QED
    BY <2>2, <2>3, <2>4
<1>2. \E f : Ticks(f, Len(Slots))
  BY <1>1, SlotsArePositive
<1>3. LevelTick = CHOOSE f : Ticks(f, Len(Slots))
  BY DEF LevelTick
<1> HIDE DEF Bad
<1>4. QED
  BY <1>2, <1>3

\* A level's slot spans a whole round of the level below.
LEMMA TickStep ==
    /\ LevelTick[0] = 1
    /\ \A k \in Levels : LevelTick[k + 1] = NumSlots(k) * LevelTick[k]
<1> DEFINE e == [k \in 0 .. Len(Slots) |-> IF k = 0 THEN 1 ELSE NumSlots(k - 1) * LevelTick[k - 1]]
<1>1. LevelTick = e /\ Len(Slots) \in Nat /\ Len(Slots) > 0
  BY TickIsDefined, SlotsArePositive
<1>2. e[0] = 1
  BY <1>1
<1>3. ASSUME NEW k \in Levels PROVE e[k + 1] = NumSlots(k) * LevelTick[k]
  <2>1. k + 1 \in 0 .. Len(Slots) /\ k + 1 # 0 /\ (k + 1) - 1 = k
    BY <1>1 DEF Levels
  <2>2. QED
    BY <2>1
<1> HIDE DEF e
<1>4. QED
  BY <1>1, <1>2, <1>3

LEMMA TickIsPositive == \A k \in 0 .. Len(Slots) : LevelTick[k] \in Int /\ LevelTick[k] > 0
<1> DEFINE Bad == {k \in 0 .. Len(Slots) : ~(LevelTick[k] \in Int /\ LevelTick[k] > 0)}
<1> SUFFICES ASSUME Bad # {} PROVE FALSE
  OBVIOUS
<1>1. PICK m \in Bad : \A y \in Bad : m <= y
  <2>1. Bad \subseteq Nat
    OBVIOUS
  <2> HIDE DEF Bad
  <2>2. QED
    BY <2>1, LeastNat
<1>2. m \in Nat /\ m # 0 /\ m - 1 \in Levels /\ (m - 1) + 1 = m /\ ~(m <= m - 1)
  BY TickStep, SlotsArePositive DEF Levels
<1>3. m - 1 \in 0 .. Len(Slots) /\ m - 1 \notin Bad
  <2>1. m - 1 \in 0 .. Len(Slots)
    BY <1>2, SlotsArePositive DEF Levels
  <2> HIDE DEF Bad
  <2>2. QED
    BY <1>1, <1>2, <2>1
<1>4. LevelTick[m] = NumSlots(m - 1) * LevelTick[m - 1]
  BY <1>2, TickStep
<1>5. /\ LevelTick[m - 1] \in Int /\ LevelTick[m - 1] > 0
      /\ NumSlots(m - 1) \in Nat /\ NumSlots(m - 1) > 0
  BY <1>2, <1>3, SlotsArePositive
<1>6. LevelTick[m] \in Int /\ LevelTick[m] > 0
  BY <1>4, <1>5
<1>7. QED
  BY <1>6

\* A level's slot spans at least as much as one of a lower level.
LEMMA TickGrows ==
    \A j \in 0 .. Len(Slots) : \A i \in 0 .. j : LevelTick[i] <= LevelTick[j]
<1> DEFINE Bad == {k \in 0 .. Len(Slots) : ~ \A i \in 0 .. k : LevelTick[i] <= LevelTick[k]}
<1> SUFFICES ASSUME Bad # {} PROVE FALSE
  OBVIOUS
<1>1. PICK m \in Bad : \A y \in Bad : m <= y
  <2>1. Bad \subseteq Nat
    OBVIOUS
  <2> HIDE DEF Bad
  <2>2. QED
    BY <2>1, LeastNat
<1>2. PICK i \in 0 .. m : ~(LevelTick[i] <= LevelTick[m])
  OBVIOUS
<1>3. m \in 0 .. Len(Slots) /\ m \in Nat
  OBVIOUS
<1>4. i # m
  BY <1>2, <1>3, TickIsPositive
<1>5. m - 1 \in Levels /\ (m - 1) + 1 = m /\ i \in 0 .. m - 1 /\ ~(m <= m - 1)
  BY <1>2, <1>3, <1>4, SlotsArePositive DEF Levels
<1>6. m - 1 \in 0 .. Len(Slots) /\ m - 1 \notin Bad
  <2>1. m - 1 \in 0 .. Len(Slots)
    BY <1>5, SlotsArePositive DEF Levels
  <2> HIDE DEF Bad
  <2>2. QED
    BY <1>1, <1>5, <2>1
<1>7. LevelTick[i] <= LevelTick[m - 1]
  BY <1>5, <1>6
<1>8. LevelTick[m] = NumSlots(m - 1) * LevelTick[m - 1]
  BY <1>5, TickStep
<1>9. /\ LevelTick[m - 1] \in Int /\ LevelTick[m - 1] > 0
      /\ NumSlots(m - 1) \in Nat /\ NumSlots(m - 1) > 0
  BY <1>5, <1>6, SlotsArePositive, TickIsPositive
<1>10. LevelTick[m - 1] <= LevelTick[m]
  BY <1>8, <1>9
<1>11. LevelTick[i] \in Int /\ LevelTick[m] \in Int
  BY <1>2, <1>3, SlotsArePositive, TickIsPositive
<1>12. QED
  BY <1>2, <1>7, <1>9, <1>10, <1>11

\* place finds a level for every delay within the wheel's span.
LEMMA LevelExists ==
    ASSUME NEW d \in Int, d > 0, d < MaxWheelSpan
    PROVE  \E k \in Levels : d < LevelTick[k + 1] /\ (k > 0 => d >= LevelTick[k])
<1> DEFINE Above == {k \in 0 .. Len(Slots) : d < LevelTick[k]}
<1>1. Len(Slots) \in Nat /\ Above \subseteq Nat /\ Above # {}
  BY SlotsArePositive DEF MaxWheelSpan
<1>2. PICK m \in Above : \A y \in Above : m <= y
  <2> HIDE DEF Above
  <2>1. QED
    BY <1>1, LeastNat
<1>3. m \in 0 .. Len(Slots) /\ d < LevelTick[m]
  OBVIOUS
<1>4. m # 0
  BY <1>3, TickStep
<1>5. m - 1 \in Levels /\ (m - 1) + 1 = m /\ m - 1 \in 0 .. Len(Slots) /\ ~(m <= m - 1)
  BY <1>1, <1>3, <1>4 DEF Levels
<1>6. ~(d < LevelTick[m - 1]) /\ LevelTick[m - 1] \in Int
  BY <1>2, <1>5, TickIsPositive
<1>7. d >= LevelTick[m - 1]
  BY <1>6
<1>8. QED
  BY <1>3, <1>5, <1>7

\* The three outcomes of place.
Fits(d, k) == d > 0 /\ d < LevelTick[k + 1] /\ (k > 0 => d >= LevelTick[k])
Ahead(d, k) == d \div LevelTick[k] + 1

LEMMA PlaceCases ==
    ASSUME NEW t, NEW c, NEW n \in Int, fireAt[t] \in Int
    PROVE  \/ /\ fireAt[t] <= n
              /\ Place(t, c, n) = At(IF t \in cancelled THEN "gone" ELSE "fired")
           \/ /\ fireAt[t] >= n + MaxWheelSpan
              /\ Place(t, c, n) = At("overflow")
           \/ \E k \in Levels :
                /\ Fits(fireAt[t] - n, k) /\ fireAt[t] < n + MaxWheelSpan
                /\ Place(t, c, n) = <<"slot", k, (c[k] + Ahead(fireAt[t] - n, k)) % NumSlots(k)>>
<1> DEFINE d == fireAt[t] - n
           Chosen(k) == d < LevelTick[k + 1] /\ (k > 0 => d >= LevelTick[k])
           level == CHOOSE k \in Levels : Chosen(k)
<1>1. d \in Int /\ MaxWheelSpan \in Int
  BY TickIsPositive, SlotsArePositive DEF MaxWheelSpan
<1>2. Place(t, c, n) =
        IF d <= 0 THEN At(IF t \in cancelled THEN "gone" ELSE "fired")
        ELSE IF d >= MaxWheelSpan THEN At("overflow")
        ELSE <<"slot", level, (c[level] + (d \div LevelTick[level] + 1)) % NumSlots(level)>>
  BY DEF Place
<1>3. CASE d <= 0
  BY <1>1, <1>2, <1>3
<1>4. CASE d > 0 /\ d >= MaxWheelSpan
  BY <1>1, <1>2, <1>4
<1>5. CASE d > 0 /\ d < MaxWheelSpan
  <2>1. \E k \in Levels : Chosen(k)
    BY <1>1, <1>5, LevelExists
  <2>2. level \in Levels /\ Chosen(level)
    BY <2>1
  <2>3. Place(t, c, n) = <<"slot", level, (c[level] + Ahead(d, level)) % NumSlots(level)>>
    BY <1>1, <1>2, <1>5 DEF Ahead
  <2>4. fireAt[t] < n + MaxWheelSpan
    BY <1>1, <1>5
  <2>5. QED
    BY <1>5, <2>2, <2>3, <2>4 DEF Fits
<1>6. QED
  BY <1>1, <1>3, <1>4, <1>5

\* The slot is ahead of the cursor by at most one turn, and by more than one slot.
LEMMA AheadBounds ==
    ASSUME NEW k \in Levels, NEW d \in Int, Fits(d, k)
    PROVE  /\ Ahead(d, k) \in 2 .. NumSlots(k)
           /\ LevelTick[k] * Ahead(d, k) <= d + LevelTick[k]
           /\ k = 0 => Ahead(d, k) = d + 1
<1> DEFINE L == LevelTick[k]
           N == NumSlots(k)
           q == d \div L
           r == d % L
<1>1. L \in Int /\ L > 0 /\ N \in Int /\ N > 0 /\ LevelTick[k + 1] = N * L
  BY TickIsPositive, TickStep, SlotsArePositive DEF Levels
<1>2. (k > 0 => d >= L) /\ d > 0 /\ d < N * L /\ k \in Nat
  BY <1>1 DEF Fits, Levels
<1>3. k = 0 => L = 1
  BY TickStep
<1>4. Ahead(d, k) = q + 1
  BY DEF Ahead
<1> HIDE DEF L, N
<1>5. q \in Int /\ r \in 0 .. L - 1 /\ d = L * q + r /\ L * q \in Int
  BY <1>1, Division
<1> HIDE DEF q, r
<1>6. d >= L
  BY <1>1, <1>2, <1>3
<1>7. q >= 1
  <2> SUFFICES ASSUME q < 1 PROVE FALSE
    BY <1>5
  <2>1. L * q + L <= L * 1
    BY <1>1, <1>5, ProductGrows
  <2>2. QED
    BY <1>1, <1>5, <1>6, <2>1
<1>8. q + 1 <= N
  <2> SUFFICES ASSUME N - 1 < q PROVE FALSE
    BY <1>1, <1>5
  <2>1. L * (N - 1) + L <= L * q
    BY <1>1, <1>5, ProductGrows
  <2>2. L * (N - 1) + L = N * L
    BY <1>1
  <2>3. N * L \in Int
    BY <1>1
  <2>4. QED
    BY <1>1, <1>2, <1>5, <2>1, <2>2, <2>3
<1>9. L * (q + 1) = L * q + L
  BY <1>1, <1>5
<1>10. L * (q + 1) <= d + L
  BY <1>1, <1>5, <1>9
<1>11. k = 0 => q = d
  <2> SUFFICES ASSUME k = 0 PROVE q = d
    OBVIOUS
  <2>1. L = 1 /\ r = 0 /\ L * q = q
    BY <1>3, <1>5
  <2>2. QED
    BY <1>5, <2>1
<1>12. QED
  BY <1>1, <1>4, <1>5, <1>7, <1>8, <1>10, <1>11 DEF L, N
-----------------------------------------------------------------------------
(* Types *)

LEMMA BoundsAreNatural ==
    /\ MaxAdds \in Nat /\ MaxCancels \in Nat /\ Cap \in Nat /\ MaxStep \in Nat /\ MaxTime \in Nat
    /\ \A f \in FireTimes : f \in Nat
BY WheelAssumption

WellPlaced(p) == p \in Position /\ (p[1] = "slot" => p[3] < NumSlots(p[2]))

LEMMA KindsAreWellPlaced ==
    \A kind \in {"none", "queued", "overflow", "fired", "gone"} : WellPlaced(At(kind))
<1>1. 0 \in Levels
  BY SlotsArePositive DEF Levels
<1>2. QED
  BY <1>1 DEF WellPlaced, Position, At

LEMMA PlaceIsWellPlaced ==
    ASSUME TypeOK, NEW t \in Tasks, NEW n \in Int, NEW c \in [Levels -> Nat]
    PROVE  WellPlaced(Place(t, c, n)) /\ Place(t, c, n)[1] # "none"
<1>1. fireAt[t] \in Int
  BY BoundsAreNatural DEF TypeOK
<1>2. CASE Place(t, c, n) \in {At("gone"), At("fired"), At("overflow")}
  BY <1>2, KindsAreWellPlaced DEF At
<1>3. ASSUME NEW k \in Levels, Fits(fireAt[t] - n, k),
             Place(t, c, n) = <<"slot", k, (c[k] + Ahead(fireAt[t] - n, k)) % NumSlots(k)>>
      PROVE  WellPlaced(Place(t, c, n)) /\ Place(t, c, n)[1] # "none"
  <2>1. Ahead(fireAt[t] - n, k) \in Int /\ c[k] \in Nat /\ NumSlots(k) \in Nat /\ NumSlots(k) > 0
    BY <1>1, <1>3, AheadBounds, SlotsArePositive
  <2> DEFINE s == (c[k] + Ahead(fireAt[t] - n, k)) % NumSlots(k)
  <2>2. s \in 0 .. NumSlots(k) - 1
    BY <2>1
  <2> HIDE DEF s
  <2>3. s \in Nat /\ s < NumSlots(k)
    BY <2>1, <2>2
  <2>4. Place(t, c, n) = <<"slot", k, s>>
    BY <1>3 DEF s
  <2>5. QED
    BY <2>3, <2>4 DEF WellPlaced, Position
<1>4. QED
  BY <1>1, <1>2, <1>3, PlaceCases

LEMMA NextCursorType ==
    ASSUME TypeOK
    PROVE  /\ NextCursor \in [Levels -> Nat]
           /\ \A k \in Levels : NextCursor[k] < NumSlots(k)
<1>1. ASSUME NEW k \in Levels
      PROVE  NextCursor[k] \in Nat /\ NextCursor[k] < NumSlots(k)
  <2>1. cursor[k] \in Nat /\ cursor[k] < NumSlots(k) /\ NumSlots(k) \in Nat /\ NumSlots(k) > 0
    BY SlotsArePositive DEF TypeOK
  <2>2. (cursor[k] + 1) % NumSlots(k) \in 0 .. NumSlots(k) - 1
    BY <2>1
  <2>3. NextCursor[k] \in {(cursor[k] + 1) % NumSlots(k), cursor[k]}
    BY DEF NextCursor
  <2>4. QED
    BY <2>1, <2>2, <2>3
<1>2. QED
  BY <1>1 DEF NextCursor

\* Every place that the parts of a tick leave a task in is a position of the wheel.
LEMMA TickIsWellPlaced ==
    ASSUME TypeOK, NEW n \in Int, NEW t \in Tasks
    PROVE  /\ WellPlaced(Uncovered(pos, n)[t])
           /\ WellPlaced(Cascaded(Popped(Uncovered(pos, n)), n)[t])
<1> DEFINE p1 == Uncovered(pos, n)
           p2 == Popped(p1)
           p3 == Cascaded(p2, n)
<1>1. ASSUME NEW c \in [Levels -> Nat]
      PROVE  WellPlaced(Replace(t, c, n))
  BY <1>1, PlaceIsWellPlaced, KindsAreWellPlaced DEF Replace
<1>2. WellPlaced(pos[t])
  BY DEF TypeOK, WellPlaced
<1>3. WellPlaced(p1[t])
  <2>1. p1[t] = Replace(t, cursor, n) \/ p1[t] = pos[t]
    BY DEF Uncovered
  <2>2. cursor \in [Levels -> Nat]
    BY DEF TypeOK
  <2>3. QED
    BY <1>1, <1>2, <2>1, <2>2
<1>4. WellPlaced(p2[t])
  <2>1. p2[t] \in {At("gone"), At("fired"), p1[t]}
    BY DEF Popped
  <2>2. QED
    BY <1>3, <2>1, KindsAreWellPlaced
<1>5. WellPlaced(p3[t])
  <2>1. p3[t] = Replace(t, NextCursor, n) \/ p3[t] = p2[t]
    BY DEF Cascaded
  <2>2. QED
    BY <1>1, <1>4, <2>1, NextCursorType
<1>6. QED
  BY <1>3, <1>5

\* The part of a step that runs tasks, for any well-placed p and index.
LEMMA FireTypes ==
    ASSUME TypeOK, NEW p, p = [t \in Tasks |-> p[t]], \A t \in Tasks : WellPlaced(p[t]),
           NEW idx \in [IDs -> 0 .. MaxAdds], NEW n \in Nat, Fire(p, idx, n)
    PROVE  /\ pos' \in [Tasks -> Position]
           /\ \A t \in Tasks : pos'[t][1] = "slot" => pos'[t][3] < NumSlots(pos'[t][2])
           /\ index' \in [IDs -> 0 .. MaxAdds]
           /\ firedAt' \in [Tasks -> Nat \cup {-1}]
<1>1. pos' = p /\ MaxAdds \in Nat
  BY WheelAssumption DEF Fire
<1>2. pos' \in [Tasks -> Position]
  BY <1>1 DEF WellPlaced
<1>3. \A t \in Tasks : pos'[t][1] = "slot" => pos'[t][3] < NumSlots(pos'[t][2])
  BY <1>1 DEF WellPlaced
<1>4. index' \in [IDs -> 0 .. MaxAdds]
  <2>1. index' = [i \in IDs |-> IF \E t \in Fired(p) : id[t] = i THEN 0 ELSE idx[i]]
    BY DEF Fire
  <2>2. QED
    BY <1>1, <2>1
<1>5. firedAt' \in [Tasks -> Nat \cup {-1}]
  <2>1. firedAt' = [t \in Tasks |-> IF t \in Fired(p) THEN n ELSE firedAt[t]]
    BY DEF Fire
  <2>2. QED
    BY <2>1 DEF TypeOK
<1>6. QED
  BY <1>2, <1>3, <1>4, <1>5

LEMMA InsertTypes ==
    ASSUME TypeOK, Insert
    PROVE  TypeOK'
<1> DEFINE t == Head(addCh)
           p == Place(t, cursor, now)
           moved == [pos EXCEPT ![t] = p]
           idx == [index EXCEPT ![id[t]] = t]
<1>1. /\ addCh # <<>> /\ addCh' = Tail(addCh)
      /\ cancelled' = cancelled \cup ({index[id[t]]} \ {0})
      /\ Fire(moved, idx, now)
      /\ firstLevel' = [firstLevel EXCEPT ![t] = CASE p[1] = "slot" -> p[2]
                                                   [] p[1] = "overflow" -> Len(Slots) - 1
                                                   [] OTHER -> -1]
      /\ UNCHANGED <<callVars, cancelCh, cursor, time, wpc, stopCh>>
  BY DEF Insert
<1>2. t \in Tasks /\ Tail(addCh) \in Seq(Tasks) /\ Len(Tail(addCh)) <= Cap
  BY <1>1, HeadTailProperties, WheelAssumption DEF TypeOK
<1>3. MaxAdds \in Nat /\ t \in 0 .. MaxAdds /\ id[t] \in IDs
  <2>1. MaxAdds \in Nat
    BY WheelAssumption
  <2>2. id \in [Tasks -> IDs]
    BY DEF TypeOK
  <2> HIDE DEF t, p, moved, idx
  <2>3. t \in 0 .. MaxAdds
    BY <1>2, <2>1 DEF Tasks
  <2>4. QED
    BY <1>2, <2>1, <2>2, <2>3
<1>4. WellPlaced(p)
  BY <1>2, PlaceIsWellPlaced DEF TypeOK
<1>5. /\ moved = [u \in Tasks |-> moved[u]]
      /\ \A u \in Tasks : WellPlaced(moved[u])
  BY <1>2, <1>4 DEF TypeOK, WellPlaced
<1>6. idx \in [IDs -> 0 .. MaxAdds]
  BY <1>3 DEF TypeOK
<1>7. now \in Nat
  BY DEF TypeOK
<1>8. /\ pos' \in [Tasks -> Position]
      /\ \A u \in Tasks : pos'[u][1] = "slot" => pos'[u][3] < NumSlots(pos'[u][2])
      /\ index' \in [IDs -> 0 .. MaxAdds]
      /\ firedAt' \in [Tasks -> Nat \cup {-1}]
  <2> HIDE DEF moved, idx
  <2>1. QED
    BY <1>1, <1>5, <1>6, <1>7, FireTypes
<1>9. firstLevel' \in [Tasks -> Levels \cup {-1}]
  <2>1. p[2] \in Levels /\ Len(Slots) - 1 \in Levels
    BY <1>4, SlotsArePositive DEF WellPlaced, Position, Levels
  <2> HIDE DEF p
  <2>2. QED
    BY <1>1, <1>2, <2>1 DEF TypeOK
<1>10. cancelled' \in SUBSET Tasks
  <2>1. index[id[t]] \in 0 .. MaxAdds
    BY <1>3 DEF TypeOK
  <2>2. QED
    BY <1>1, <1>3, <2>1 DEF TypeOK, Tasks
<1>11. QED
  BY <1>1, <1>2, <1>8, <1>9, <1>10 DEF TypeOK, callVars, time, Levels, Tasks, Position

LEMMA TickTypes ==
    ASSUME TypeOK, NEW step \in 1 .. MaxStep, Tick(step) \/ TickSelfLock(step)
    PROVE  TypeOK'
<1>1. /\ UNCHANGED <<callVars, cancelled, addCh, cancelCh, stopCh, firstLevel>>
      /\ now' = now + step /\ dropped' = dropped + step - 1
      /\ cursor' \in {NextCursor, cursor} /\ wpc' \in {"select", "stuck"}
  BY DEF Tick, TickSelfLock
<1>2. now' \in Nat /\ dropped' \in Nat
  <2>1. now \in Nat /\ dropped \in Nat /\ step \in Nat /\ step >= 1
    BY BoundsAreNatural DEF TypeOK
  <2>2. QED
    BY <1>1, <2>1
<1>3. cursor' \in [Levels -> Nat] /\ \A k \in Levels : cursor'[k] < NumSlots(k)
  BY <1>1, NextCursorType DEF TypeOK
<1>4. \E p : /\ p = [t \in Tasks |-> p[t]] /\ \A t \in Tasks : WellPlaced(p[t])
             /\ Fire(p, index, now')
  <2>1. CASE Tick(step)
    <3> DEFINE p == Cascaded(Popped(Uncovered(pos, now')), now')
    <3>1. p = [t \in Tasks |-> p[t]]
      BY DEF Cascaded
    <3>2. Fire(p, index, now')
      BY <1>1, <2>1 DEF Tick
    <3>3. \A t \in Tasks : WellPlaced(p[t])
      BY <1>2, TickIsWellPlaced
    <3>4. QED
      BY <3>1, <3>2, <3>3
  <2>2. CASE TickSelfLock(step)
    <3>1. PICK t \in Tasks :
            Fire([u \in Tasks |-> IF u = t THEN At("gone")
                                  ELSE IF fireAt[u] < fireAt[t] THEN Uncovered(pos, now')[u]
                                  ELSE pos[u]], index, now')
      BY <1>1, <2>2 DEF TickSelfLock
    <3> DEFINE p == [u \in Tasks |-> IF u = t THEN At("gone")
                                     ELSE IF fireAt[u] < fireAt[t] THEN Uncovered(pos, now')[u]
                                     ELSE pos[u]]
    <3>2. ASSUME NEW u \in Tasks PROVE WellPlaced(p[u])
      <4>1. WellPlaced(pos[u]) /\ WellPlaced(Uncovered(pos, now')[u]) /\ WellPlaced(At("gone"))
        BY <1>2, TickIsWellPlaced, KindsAreWellPlaced DEF TypeOK, WellPlaced
      <4>2. QED
        BY <4>1
    <3>3. p = [u \in Tasks |-> p[u]]
      OBVIOUS
    <3>4. QED
      BY <3>1, <3>2, <3>3
  <2>3. QED
    BY <2>1, <2>2
<1>5. /\ pos' \in [Tasks -> Position]
      /\ \A t \in Tasks : pos'[t][1] = "slot" => pos'[t][3] < NumSlots(pos'[t][2])
      /\ index' \in [IDs -> 0 .. MaxAdds]
      /\ firedAt' \in [Tasks -> Nat \cup {-1}]
  <2>1. index \in [IDs -> 0 .. MaxAdds]
    BY DEF TypeOK
  <2>2. QED
    BY <1>2, <1>4, <2>1, FireTypes
<1>6. QED
  BY <1>1, <1>2, <1>3, <1>5 DEF TypeOK, callVars, Levels, Tasks, Position

LEMMA AddTypes ==
    ASSUME TypeOK, NEW i \in IDs, NEW f \in FireTimes, Add(i, f)
    PROVE  TypeOK'
<1> DEFINE t == added + 1
<1>1. /\ added < MaxAdds /\ added' = t
      /\ id' = [id EXCEPT ![t] = i] /\ fireAt' = [fireAt EXCEPT ![t] = f]
      /\ UNCHANGED <<cancelled, index, cancelCh, cursor, time, wpc, stopCh, cancels, history>>
      /\ \/ Len(addCh) < Cap /\ addCh' = Append(addCh, t) /\ pos' = [pos EXCEPT ![t] = At("queued")]
         \/ addCh' = addCh /\ pos' = [pos EXCEPT ![t] = At("gone")]
  BY DEF Add
<1>2. t \in Tasks /\ added' \in 0 .. MaxAdds
  BY <1>1, WheelAssumption DEF TypeOK, Tasks
<1>3. addCh' \in Seq(Tasks) /\ Len(addCh') <= Cap
  <2>1. addCh \in Seq(Tasks) /\ Len(addCh) <= Cap /\ Cap \in Nat
    BY BoundsAreNatural DEF TypeOK
  <2>2. QED
    BY <1>1, <1>2, <2>1, AppendProperties
<1>4. /\ pos' \in [Tasks -> Position]
      /\ \A u \in Tasks : pos'[u][1] = "slot" => pos'[u][3] < NumSlots(pos'[u][2])
  <2>1. PICK kind \in {"queued", "gone"} : pos' = [pos EXCEPT ![t] = At(kind)]
    BY <1>1
  <2>2. At(kind) \in Position /\ At(kind)[1] # "slot"
    BY KindsAreWellPlaced DEF WellPlaced, At
  <2> HIDE DEF t
  <2>3. QED
    BY <1>2, <2>1, <2>2 DEF TypeOK
<1>5. QED
  BY <1>1, <1>2, <1>3, <1>4 DEF TypeOK, time, history, Levels, Tasks, Position

\* The state of a wheel of any size keeps its types: in particular every task in a slot
\* is in one that exists, and every cursor points to one (place, tick).
THEOREM TypeCorrect == Spec => []TypeOK
<1>1. Init => TypeOK
  <2> SUFFICES ASSUME Init PROVE TypeOK
    OBVIOUS
  <2>1. \A k \in Levels : NumSlots(k) > 0
    BY SlotsArePositive
  <2>2. At("none") \in Position /\ At("none")[1] # "slot"
    BY KindsAreWellPlaced DEF WellPlaced, At
  <2>3. /\ id \in [Tasks -> IDs] /\ fireAt \in [Tasks -> FireTimes]
        /\ index \in [IDs -> 0 .. MaxAdds]
    BY WheelAssumption DEF Init
  <2>4. /\ pos \in [Tasks -> Position]
        /\ \A t \in Tasks : pos[t][1] = "slot" => pos[t][3] < NumSlots(pos[t][2])
    <3>1. \A t \in Tasks : pos[t] = At("none")
      BY DEF Init
    <3>2. DOMAIN pos = Tasks /\ pos = [t \in Tasks |-> pos[t]]
      BY DEF Init
    <3>3. QED
      BY <2>2, <3>1, <3>2
  <2>5. cursor \in [Levels -> Nat] /\ \A k \in Levels : cursor[k] < NumSlots(k)
    BY <2>1 DEF Init
  <2>6. added \in 0 .. MaxAdds /\ cancels \in 0 .. MaxCancels /\ 0 <= Cap
    BY WheelAssumption DEF Init
  <2>7. addCh \in Seq(Tasks) /\ Len(addCh) <= Cap /\ cancelCh \in Seq(IDs) /\ Len(cancelCh) <= Cap
    BY <2>6, EmptySeq DEF Init
  <2>8. firedAt \in [Tasks -> Nat \cup {-1}] /\ firstLevel \in [Tasks -> Levels \cup {-1}]
    BY DEF Init
  <2>9. QED
    BY <2>3, <2>4, <2>5, <2>6, <2>7, <2>8 DEF Init, TypeOK
<1>2. TypeOK /\ [Next]_vars => TypeOK'
  <2> SUFFICES ASSUME TypeOK, [Next]_vars PROVE TypeOK'
    OBVIOUS
  <2>1. CASE Start \/ Stop \/ TickArrives \/ Exit \/ UNCHANGED vars
    BY <2>1 DEF Start, Stop, TickArrives, Exit, vars, callVars, time, history, TypeOK,
                Levels, Tasks, Position
  <2>2. ASSUME NEW i \in IDs, Cancel(i) PROVE TypeOK'
    <3>1. /\ cancels < MaxCancels /\ cancels' = cancels + 1
          /\ UNCHANGED <<added, id, fireAt, cancelled, pos, index, addCh, cursor, time, wpc,
                         stopCh, history>>
          /\ \/ Len(cancelCh) < Cap /\ cancelCh' = Append(cancelCh, i)
             \/ cancelCh' = cancelCh
      BY <2>2 DEF Cancel
    <3>2. cancelCh' \in Seq(IDs) /\ Len(cancelCh') <= Cap
      <4>1. cancelCh \in Seq(IDs) /\ Len(cancelCh) <= Cap /\ Cap \in Nat
        BY BoundsAreNatural DEF TypeOK
      <4>2. QED
        BY <3>1, <4>1, AppendProperties
    <3>3. cancels' \in 0 .. MaxCancels
      BY <3>1, WheelAssumption DEF TypeOK
    <3>4. QED
      BY <3>1, <3>2, <3>3 DEF TypeOK, time, history, Levels, Tasks, Position
  <2>3. ASSUME NEW t \in Tasks, TaskCancel(t) PROVE TypeOK'
    BY <2>3 DEF TaskCancel, TypeOK, callVars, time, history, Levels, Tasks, Position
  <2>4. CASE DoCancel
    <3>1. /\ cancelCh # <<>> /\ cancelCh' = Tail(cancelCh)
          /\ cancelled' = cancelled \cup ({index[Head(cancelCh)]} \ {0})
          /\ index' = [index EXCEPT ![Head(cancelCh)] = 0]
          /\ UNCHANGED <<callVars, pos, addCh, cursor, time, wpc, stopCh, history>>
      BY <2>4 DEF DoCancel
    <3>2. Head(cancelCh) \in IDs /\ cancelCh' \in Seq(IDs) /\ Len(cancelCh') <= Cap
      <4>1. cancelCh \in Seq(IDs) /\ Len(cancelCh) <= Cap /\ Cap \in Nat
        BY BoundsAreNatural DEF TypeOK
      <4>2. /\ Head(cancelCh) \in IDs /\ Tail(cancelCh) \in Seq(IDs)
            /\ Len(Tail(cancelCh)) = Len(cancelCh) - 1 /\ Len(cancelCh) \in Nat
        BY <3>1, <4>1, HeadTailProperties
      <4>3. QED
        BY <3>1, <4>1, <4>2
    <3>3. index[Head(cancelCh)] \in 0 .. MaxAdds /\ MaxAdds \in Nat
      BY <3>2, WheelAssumption DEF TypeOK
    <3>4. cancelled' \in SUBSET Tasks
      <4>1. cancelled \in SUBSET Tasks /\ {index[Head(cancelCh)]} \ {0} \subseteq Tasks
        BY <3>3 DEF TypeOK, Tasks
      <4>2. QED
        BY <3>1, <4>1
    <3>5. index' \in [IDs -> 0 .. MaxAdds]
      <4> DEFINE i == Head(cancelCh)
      <4>1. i \in IDs /\ index \in [IDs -> 0 .. MaxAdds] /\ 0 \in 0 .. MaxAdds
        BY <3>2, <3>3 DEF TypeOK
      <4> HIDE DEF i
      <4>2. [index EXCEPT ![i] = 0] \in [IDs -> 0 .. MaxAdds]
        BY <4>1
      <4>3. QED
        BY <3>1, <4>2 DEF i
    <3>6. QED
      BY <3>1, <3>2, <3>4, <3>5 DEF TypeOK, callVars, time, history, Levels, Tasks, Position
  <2>5. QED
    BY <2>1, <2>2, <2>3, <2>4, AddTypes, InsertTypes, TickTypes DEF Next
<1>3. QED
  BY <1>1, <1>2, PTL DEF Spec
-----------------------------------------------------------------------------
(* One live task for each ID *)

\* The part of the type that the proof needs: the tasks sent have been made by Add,
\* and a task not made yet has no position.
Shape ==
    /\ added \in Nat
    /\ id \in [Tasks -> IDs]
    /\ DOMAIN pos = Tasks /\ pos = [t \in Tasks |-> pos[t]]
    /\ index \in [IDs -> 0 .. MaxAdds]
    /\ addCh \in Seq({t \in Tasks : t <= added})
    /\ cancelCh \in Seq(IDs)
    /\ \A t \in Tasks : t > added => pos[t] = At("none")

InWheel(position) == position[1] \in {"slot", "overflow"}

\* The positions p come from pos by moving tasks of the wheel and firing none that is cancelled.
Moves(p) ==
    \A t \in Tasks : p[t] # pos[t] =>
        InWheel(pos[t]) /\ (p[t] = At("fired") => t \notin cancelled)

LEMMA TickMoves ==
    ASSUME NEW n
    PROVE  Moves(Cascaded(Popped(Uncovered(pos, n)), n))
<1> DEFINE p1 == Uncovered(pos, n)
           p2 == Popped(p1)
           p3 == Cascaded(p2, n)
<1>1. Moves(p1)
  BY DEF Moves, Uncovered, InRange, Replace, At, InWheel
<1>2. ASSUME NEW t \in Tasks, InWheel(p1[t])
      PROVE  InWheel(pos[t])
  BY <1>1, <1>2 DEF Moves
<1>3. Moves(p2)
  <2> SUFFICES ASSUME NEW t \in Tasks, p2[t] # pos[t]
               PROVE  InWheel(pos[t]) /\ (p2[t] = At("fired") => t \notin cancelled)
    BY DEF Moves
  <2>1. CASE p1[t] = <<"slot", 0, NextCursor[0]>>
    <3>1. InWheel(p1[t])
      BY <2>1 DEF InWheel
    <3>2. p2[t] = At(IF t \in cancelled THEN "gone" ELSE "fired")
      BY <2>1 DEF Popped
    <3>3. QED
      BY <1>2, <3>1, <3>2 DEF At
  <2>2. CASE p1[t] # <<"slot", 0, NextCursor[0]>>
    <3>1. p2[t] = p1[t]
      BY <2>2 DEF Popped
    <3>2. QED
      BY <1>1, <3>1 DEF Moves
  <2>3. QED
    BY <2>1, <2>2
<1>4. Moves(p3)
  <2> SUFFICES ASSUME NEW t \in Tasks, p3[t] # pos[t]
               PROVE  InWheel(pos[t]) /\ (p3[t] = At("fired") => t \notin cancelled)
    BY DEF Moves
  <2> DEFINE Reached == \E k \in Levels \ {0} : Advances(k) /\ p2[t] = <<"slot", k, NextCursor[k]>>
  <2>1. CASE Reached
    <3>1. InWheel(p2[t])
      BY <2>1 DEF InWheel
    <3>2. p3[t] = Replace(t, NextCursor, n)
      BY <2>1 DEF Cascaded
    <3>3. InWheel(pos[t])
      BY <1>3, <3>1 DEF Moves
    <3>4. QED
      BY <3>2, <3>3 DEF Replace, At
  <2>2. CASE ~Reached
    <3>1. p3[t] = p2[t]
      BY <2>2 DEF Cascaded
    <3>2. QED
      BY <1>3, <3>1 DEF Moves
  <2>3. QED
    BY <2>1, <2>2
<1>5. QED
  BY <1>4

\* What a tick does to positions and index keeps both parts of the invariant.
LEMMA MovesKeep ==
    ASSUME Shape, LiveIsIndexed, NEW p, NEW n, Moves(p), p = [t \in Tasks |-> p[t]],
           Fire(p, index, n), UNCHANGED <<callVars, addCh, cancelCh, cancelled>>
    PROVE  Shape' /\ LiveIsIndexed'
<1>1. /\ pos' = p
      /\ index' = [i \in IDs |-> IF \E t \in Fired(p) : id[t] = i THEN 0 ELSE index[i]]
      /\ UNCHANGED <<added, id, addCh, cancelCh, cancelled>>
  BY DEF Fire, callVars
<1>2. MaxAdds \in Nat
  BY WheelAssumption
<1>3. index' \in [IDs -> 0 .. MaxAdds]
  BY <1>1, <1>2 DEF Shape
<1>4. ASSUME NEW t \in Tasks, t > added
      PROVE  pos'[t] = At("none")
  <2>1. pos[t] = At("none")
    BY <1>4 DEF Shape
  <2>2. ~InWheel(pos[t])
    BY <2>1 DEF InWheel, At
  <2>3. p[t] = pos[t]
    BY <2>2 DEF Moves
  <2>4. QED
    BY <1>1, <2>1, <2>3
<1>5. Shape'
  <2>1. DOMAIN pos' = Tasks /\ pos' = [t \in Tasks |-> pos'[t]]
    BY <1>1
  <2>2. /\ added' \in Nat /\ id' \in [Tasks -> IDs] /\ cancelCh' \in Seq(IDs)
        /\ addCh' \in Seq({t \in Tasks : t <= added'})
    BY <1>1 DEF Shape
  <2>3. \A t \in Tasks : t > added' => pos'[t] = At("none")
    BY <1>1, <1>4
  <2>4. QED
    BY <1>3, <2>1, <2>2, <2>3 DEF Shape, Tasks, At
<1>6. ASSUME NEW t \in Tasks, Live(t)'
      PROVE  index'[id'[t]] = t
  <2>1. Live(t) /\ t \notin Fired(p)
    BY <1>1, <1>6 DEF Live, Moves, InWheel, Fired, At
  <2>2. index[id[t]] = t /\ id[t] \in IDs
    BY <2>1 DEF LiveIsIndexed, Shape
  <2>3. ASSUME NEW u \in Fired(p)
        PROVE  id[u] # id[t]
    <3>1. u \in Tasks /\ Live(u)
      BY DEF Fired, Moves, InWheel, Live
    <3>2. index[id[u]] = u
      BY <3>1 DEF LiveIsIndexed
    <3>3. QED
      BY <2>1, <2>2, <3>2
  <2>4. QED
    BY <1>1, <2>2, <2>3
<1>7. LiveIsIndexed'
  BY <1>6 DEF LiveIsIndexed, Tasks
<1>8. QED
  BY <1>5, <1>7

\* insert cancels the task that the index knows for the ID before it takes its place.
LEMMA InsertKeeps ==
    ASSUME Shape, LiveIsIndexed, Insert
    PROVE  Shape' /\ LiveIsIndexed'
<1> DEFINE t == Head(addCh)
           p == Place(t, cursor, now)
           moved == [pos EXCEPT ![t] = p]
<1>1. /\ addCh # <<>> /\ addCh' = Tail(addCh)
      /\ cancelled' = cancelled \cup ({index[id[t]]} \ {0})
      /\ pos' = moved
      /\ index' = [i \in IDs |-> IF \E u \in Fired(moved) : id[u] = i THEN 0
                                 ELSE [index EXCEPT ![id[t]] = t][i]]
      /\ UNCHANGED <<added, id, cancelCh>>
  BY DEF Insert, Fire, callVars
<1>2. t \in Tasks /\ t <= added /\ Tail(addCh) \in Seq({u \in Tasks : u <= added})
  BY <1>1, HeadTailProperties DEF Shape
<1>3. MaxAdds \in Nat /\ t \in 1 .. MaxAdds
  BY <1>2, WheelAssumption DEF Tasks
<1>4. \A u \in Fired(moved) : u = t
  BY <1>2 DEF Fired, Shape
<1>5. Shape'
  <2>1. index' \in [IDs -> 0 .. MaxAdds]
    BY <1>1, <1>3 DEF Shape
  <2>2. \A u \in Tasks : u > added => pos'[u] = At("none")
    BY <1>1, <1>2, <1>3 DEF Shape, Tasks
  <2>3. QED
    BY <1>1, <1>2, <2>1, <2>2 DEF Shape, Tasks
<1>6. ASSUME NEW u \in Tasks, Live(u)'
      PROVE  index'[id'[u]] = u
  <2>1. id[u] \in IDs /\ id[t] \in IDs
    BY <1>2 DEF Shape
  <2>2. CASE u = t
    <3>1. t \notin Fired(moved)
      BY <1>1, <1>6, <2>2 DEF Live, Fired, At
    <3>2. QED
      BY <1>1, <1>4, <2>1, <2>2, <3>1 DEF Shape
  <2>3. CASE u # t
    <3>1. Live(u)
      BY <1>1, <1>2, <1>6, <2>3 DEF Live, Shape
    <3>2. index[id[u]] = u /\ u # 0
      BY <3>1, <1>3 DEF LiveIsIndexed, Tasks
    <3>3. id[u] # id[t]
      BY <1>1, <1>6, <3>2 DEF Live
    <3>4. QED
      BY <1>1, <1>4, <2>1, <3>2, <3>3 DEF Shape
  <2>4. QED
    BY <2>2, <2>3
<1>7. QED
  BY <1>5, <1>6 DEF LiveIsIndexed, Tasks

LEMMA AddKeeps ==
    ASSUME Shape, LiveIsIndexed, NEW i \in IDs, NEW f, Add(i, f)
    PROVE  Shape' /\ LiveIsIndexed'
<1> DEFINE t == added + 1
<1>1. /\ added < MaxAdds /\ added' = t /\ id' = [id EXCEPT ![t] = i]
      /\ UNCHANGED <<cancelled, index, cancelCh>>
      /\ \E kind \in {"queued", "gone"} : pos' = [pos EXCEPT ![t] = At(kind)]
      /\ addCh' = addCh \/ addCh' = Append(addCh, t)
  BY DEF Add
<1>2. MaxAdds \in Nat /\ t \in Tasks /\ added \in Nat
  BY <1>1, WheelAssumption DEF Shape, Tasks
<1>3. addCh \in Seq({u \in Tasks : u <= t})
  <2>1. {u \in Tasks : u <= added} \subseteq {u \in Tasks : u <= t}
    BY <1>2 DEF Tasks
  <2>2. QED
    BY <2>1 DEF Shape
<1>4. addCh' \in Seq({u \in Tasks : u <= added'})
  BY <1>1, <1>2, <1>3, AppendProperties
<1>5. Shape'
  <2>1. \A u \in Tasks : u > added' => pos'[u] = At("none")
    BY <1>1, <1>2 DEF Shape, Tasks
  <2>2. DOMAIN pos' = Tasks /\ pos' = [u \in Tasks |-> pos'[u]]
    BY <1>1, <1>2 DEF Shape
  <2>3. id' \in [Tasks -> IDs] /\ added' \in Nat
    BY <1>1, <1>2 DEF Shape
  <2>4. index' \in [IDs -> 0 .. MaxAdds] /\ cancelCh' \in Seq(IDs)
    BY <1>1 DEF Shape
  <2>5. QED
    BY <1>4, <2>1, <2>2, <2>3, <2>4 DEF Shape, Tasks, At
<1>6. ASSUME NEW u \in Tasks, Live(u)'
      PROVE  index'[id'[u]] = u
  <2>1. u # t
    BY <1>1, <1>2, <1>6 DEF Live, At, Shape
  <2>2. Live(u) /\ id'[u] = id[u]
    BY <1>1, <1>2, <1>6, <2>1 DEF Live, Shape
  <2>3. QED
    BY <1>1, <2>2 DEF LiveIsIndexed
<1>7. QED
  BY <1>5, <1>6 DEF LiveIsIndexed, Tasks

LEMMA WheelStep == Shape /\ LiveIsIndexed /\ [Next]_vars => Shape' /\ LiveIsIndexed'
<1> SUFFICES ASSUME Shape, LiveIsIndexed, [Next]_vars
             PROVE  Shape' /\ LiveIsIndexed'
  OBVIOUS
\* A task that loses its right to fire disturbs nothing.
<1>1. ASSUME UNCHANGED <<added, id, pos, index, addCh>>, cancelCh' \in Seq(IDs),
             cancelled \subseteq cancelled'
      PROVE  Shape' /\ LiveIsIndexed'
  BY <1>1 DEF Shape, LiveIsIndexed, Live, Tasks
<1>2. CASE Start \/ Stop \/ TickArrives \/ Exit \/ UNCHANGED vars
             \/ \E t \in Tasks : TaskCancel(t)
  <2>1. /\ UNCHANGED <<added, id, pos, index, addCh>> /\ cancelCh' = cancelCh
        /\ cancelled \subseteq cancelled'
    BY <1>2 DEF Start, Stop, TickArrives, Exit, TaskCancel, vars, callVars
  <2>2. cancelCh' \in Seq(IDs)
    BY <2>1 DEF Shape
  <2>3. QED
    BY <1>1, <2>1, <2>2
<1>3. ASSUME NEW i \in IDs, Cancel(i)
      PROVE  Shape' /\ LiveIsIndexed'
  <2>1. /\ cancelCh' = cancelCh \/ cancelCh' = Append(cancelCh, i)
        /\ UNCHANGED <<added, id, pos, index, addCh, cancelled>>
    BY <1>3 DEF Cancel
  <2>2. cancelCh \in Seq(IDs)
    BY DEF Shape
  <2>3. cancelCh' \in Seq(IDs)
    BY <2>1, <2>2, AppendProperties
  <2>4. QED
    BY <1>1, <2>1, <2>3
<1>4. CASE DoCancel
  <2>1. Head(cancelCh) \in IDs /\ cancelCh' \in Seq(IDs)
    BY <1>4, HeadTailProperties DEF DoCancel, Shape
  <2>2. Shape'
    <3>1. index' \in [IDs -> 0 .. MaxAdds]
      BY <1>4, <2>1, WheelAssumption DEF DoCancel, Shape
    <3>2. QED
      BY <1>4, <2>1, <3>1 DEF DoCancel, Shape, callVars, Tasks
  <2>3. ASSUME NEW t \in Tasks, Live(t)'
        PROVE  index'[id'[t]] = t
    <3>1. Live(t) /\ id'[t] = id[t] /\ id[t] \in IDs /\ t # 0
      BY <1>4, <2>3, WheelAssumption DEF DoCancel, callVars, Live, Shape, Tasks
    <3>2. index[id[t]] = t
      BY <3>1 DEF LiveIsIndexed
    <3>3. id[t] # Head(cancelCh)
      BY <1>4, <2>3, <3>1, <3>2 DEF DoCancel, Live
    <3>4. QED
      BY <1>4, <3>1, <3>2, <3>3 DEF DoCancel, Shape
  <2>4. QED
    BY <2>2, <2>3 DEF LiveIsIndexed, Tasks
<1>5. ASSUME NEW step \in 1 .. MaxStep, Tick(step)
      PROVE  Shape' /\ LiveIsIndexed'
  <2> DEFINE p == Cascaded(Popped(Uncovered(pos, now + step)), now + step)
  <2>1. p = [t \in Tasks |-> p[t]]
    BY DEF Cascaded
  <2>2. Fire(p, index, now + step) /\ UNCHANGED <<callVars, addCh, cancelCh, cancelled>>
    BY <1>5 DEF Tick
  <2>3. Moves(p)
    BY TickMoves
  <2> HIDE DEF p
  <2>4. QED
    BY <2>1, <2>2, <2>3, MovesKeep
<1>6. ASSUME NEW step \in 1 .. MaxStep, TickSelfLock(step)
      PROVE  Shape' /\ LiveIsIndexed'
  <2>1. PICK t \in Tasks \ cancelled :
          /\ pos[t] = At("overflow")
          /\ Fire([u \in Tasks |->
                     IF u = t THEN At("gone")
                     ELSE IF fireAt[u] < fireAt[t] THEN Uncovered(pos, now + step)[u]
                     ELSE pos[u]], index, now + step)
    BY <1>6 DEF TickSelfLock
  <2> DEFINE p == [u \in Tasks |->
                     IF u = t THEN At("gone")
                     ELSE IF fireAt[u] < fireAt[t] THEN Uncovered(pos, now + step)[u]
                     ELSE pos[u]]
  <2>2. Moves(p)
    BY <2>1 DEF Moves, Uncovered, InRange, Replace, At, InWheel
  <2>3. UNCHANGED <<callVars, addCh, cancelCh, cancelled>>
    BY <1>6 DEF TickSelfLock
  <2>4. Fire(p, index, now + step) /\ p = [u \in Tasks |-> p[u]]
    BY <2>1
  <2> HIDE DEF p
  <2>5. QED
    BY <2>2, <2>3, <2>4, MovesKeep
<1>7. QED
  BY <1>2, <1>3, <1>4, <1>5, <1>6, AddKeeps, InsertKeeps DEF Next

\* In a wheel of any size, after any adds, cancels, cascades and dropped ticks, the only
\* task of an ID that can still fire is the one the index knows: a job re-added under
\* its ID is not triggered by its old entry too (insert, doCancel, fireTasks).
THEOREM OneLiveTaskPerID == Spec => []LiveIsIndexed
<1>1. Init => Shape /\ LiveIsIndexed
  <2> SUFFICES ASSUME Init PROVE Shape /\ LiveIsIndexed
    OBVIOUS
  <2>1. added = 0 /\ pos = [t \in Tasks |-> At("none")] /\ index = [i \in IDs |-> 0]
        /\ addCh = <<>> /\ cancelCh = <<>> /\ id = [t \in Tasks |-> CHOOSE i \in IDs : TRUE]
    BY DEF Init
  <2>2. LiveIsIndexed
    BY <2>1 DEF LiveIsIndexed, Live, At
  <2>3. /\ added \in Nat /\ id \in [Tasks -> IDs]
        /\ index \in [IDs -> 0 .. MaxAdds]
    BY <2>1, WheelAssumption
  <2>4. DOMAIN pos = Tasks /\ pos = [t \in Tasks |-> pos[t]]
    BY <2>1
  <2>5. \A t \in Tasks : t > added => pos[t] = At("none")
    BY <2>1
  <2>6. addCh \in Seq({t \in Tasks : t <= added}) /\ cancelCh \in Seq(IDs)
    BY <2>1, EmptySeq
  <2>7. QED
    BY <2>2, <2>3, <2>4, <2>5, <2>6 DEF Shape
<1>2. QED
  BY <1>1, WheelStep, PTL DEF Spec
-----------------------------------------------------------------------------
(* Fire times *)

\* The ticks taken so far.  The cursors count them, each level in its own span; a stuck
\* wheel goroutine has stopped half way through one.
Ticks == now - dropped
Turn(k, T) == T \div LevelTick[k]
CursorsAgree == \A k \in Levels : cursor[k] = Turn(k, Ticks) % NumSlots(k)

\* p is the slot that level k comes to in its given turn, within one round from tick T.
\* That turn begins by tick last; on level 0, no earlier than f less the dropped ticks.
Booked(p, f, last, T, drops, k, turn) ==
    /\ p = <<"slot", k, turn % NumSlots(k)>>
    /\ turn > Turn(k, T) /\ turn <= Turn(k, T) + NumSlots(k)
    /\ LevelTick[k] * turn <= last
    /\ k = 0 => turn + drops >= f

Last(t) == fireAt[t] + LevelTick[firstLevel[t]]

\* A task that waits at p will be met in time, at tick T and time n: in a slot, it is booked
\* for its fire time and lies within the span of the level insert put it in; in the heap, it
\* lies beyond the horizon.
DueIn(t, p, T, drops, n) ==
    /\ p[1] = "slot" =>
         /\ firstLevel[t] \in Levels /\ fireAt[t] < n + LevelTick[firstLevel[t] + 1]
         /\ \E k \in Levels, turn \in Int : Booked(p, fireAt[t], Last(t), T, drops, k, turn)
    /\ p[1] = "overflow" =>
         /\ p = At("overflow") /\ firstLevel[t] = Len(Slots) - 1
         /\ fireAt[t] >= n + MaxWheelSpan

Due == \A t \in Tasks : DueIn(t, pos[t], Ticks, dropped, now)

\* The inductive invariant, with TypeOK.
OnTime ==
    /\ dropped <= now
    /\ FiresOnTime
    /\ wpc # "stuck" => CursorsAgree /\ Due

\* What a state's types say of the numbers.
LEMMA Numbers ==
    ASSUME TypeOK, NEW t \in Tasks
    PROVE  /\ now \in Int /\ dropped \in Int /\ dropped >= 0 /\ Ticks \in Int
           /\ fireAt[t] \in Int /\ firedAt[t] \in Int
           /\ firstLevel[t] \in Levels \cup {-1}
           /\ firstLevel[t] >= 0 => firstLevel[t] \in Levels
BY BoundsAreNatural DEF TypeOK, Ticks, Levels

LEMMA LevelNumbers ==
    ASSUME NEW k \in Levels
    PROVE  /\ k \in Int /\ k >= 0 /\ k < Len(Slots) /\ Len(Slots) \in Int
           /\ k \in 0 .. Len(Slots) /\ k + 1 \in 0 .. Len(Slots)
           /\ LevelTick[k] \in Int /\ LevelTick[k] > 0
           /\ LevelTick[k + 1] \in Int /\ LevelTick[k + 1] > 0
           /\ NumSlots(k) \in Int /\ NumSlots(k) > 0
BY SlotsArePositive, TickIsPositive DEF Levels

\* A turn that is still to come begins at a later tick.
LEMMA TurnIsLater ==
    ASSUME NEW k \in Levels, NEW T \in Int, NEW turn \in Int, turn > Turn(k, T)
    PROVE  T < LevelTick[k] * turn
<1> DEFINE L == LevelTick[k]
<1>1. L \in Int /\ L > 0
  BY LevelNumbers
<1> HIDE DEF L
<1>2. T \div L \in Int /\ T % L \in 0 .. L - 1 /\ T = L * (T \div L) + (T % L)
  BY <1>1, Division
<1> DEFINE q == T \div L
           r == T % L
<1>3. q < turn
  BY <1>2 DEF L, Turn
<1> HIDE DEF q, r
<1>4. q \in Int /\ r \in 0 .. L - 1 /\ T = L * q + r /\ L * q \in Int
  BY <1>1, <1>2 DEF q, r
<1>5. L * q + L <= L * turn /\ L * turn \in Int
  BY <1>1, <1>3, <1>4, ProductGrows
<1>6. T < L * turn
  BY <1>1, <1>4, <1>5
<1>7. QED
  BY <1>6 DEF L

\* One more tick: a level's turn goes on, or the next one begins with that tick.
LEMMA NextTurn ==
    ASSUME NEW k \in Levels, NEW T \in Int
    PROVE  /\ Turn(k, T) \in Int /\ Turn(k, T + 1) \in Int
           /\ (T + 1) % LevelTick[k] = 0 =>
                Turn(k, T + 1) = Turn(k, T) + 1 /\ T + 1 = LevelTick[k] * (Turn(k, T) + 1)
           /\ (T + 1) % LevelTick[k] # 0 => Turn(k, T + 1) = Turn(k, T)
<1>1. LevelTick[k] \in Int /\ LevelTick[k] > 0
  BY LevelNumbers
<1>2. T \div LevelTick[k] \in Int /\ (T + 1) \div LevelTick[k] \in Int
  BY <1>1, Division
<1>3. QED
  BY <1>1, <1>2, NextQuotient DEF Turn

\* A level's cursor moves exactly when the tick begins its next turn: when all lower
\* levels roll over.
LEMMA AdvancesWithTurn ==
    ASSUME TypeOK, CursorsAgree
    PROVE  \A k \in Levels : Advances(k) <=> (Ticks + 1) % LevelTick[k] = 0
<1> DEFINE a == Ticks + 1
           Bad == {k \in Levels : ~(Advances(k) <=> a % LevelTick[k] = 0)}
<1>1. Ticks \in Int /\ a \in Int
  BY DEF TypeOK, Ticks
<1> SUFFICES ASSUME Bad # {} PROVE FALSE
  OBVIOUS
<1>2. PICK m \in Bad : \A y \in Bad : m <= y
  <2>1. Bad \subseteq Nat
    BY LevelNumbers DEF Levels
  <2> HIDE DEF Bad
  <2>2. QED
    BY <2>1, LeastNat
<1>3. m \in Levels /\ ~(Advances(m) <=> a % LevelTick[m] = 0)
  OBVIOUS
<1>4. m # 0
  <2> SUFFICES ASSUME m = 0 PROVE FALSE
    OBVIOUS
  <2>1. Advances(m)
    BY LevelNumbers DEF Advances
  <2>2. a % LevelTick[m] = 0
    BY <1>1, TickStep
  <2>3. QED
    BY <1>3, <2>1, <2>2
<1> DEFINE j == m - 1
           L == LevelTick[j]
           N == NumSlots(j)
<1>5. j \in Levels /\ j + 1 = m /\ m \in Int /\ ~(m <= j)
  BY <1>3, <1>4, LevelNumbers DEF Levels
<1>6. Advances(j) <=> a % L = 0
  <2> HIDE DEF Bad, j, a
  <2>1. j \notin Bad
    BY <1>2, <1>5
  <2>2. QED
    BY <1>5, <2>1 DEF Bad
<1>7. L \in Int /\ L > 0 /\ N \in Int /\ N > 0 /\ LevelTick[m] = N * L
  BY <1>5, LevelNumbers, TickStep
<1>8. Advances(m) <=> Advances(j) /\ (cursor[j] + 1) % N = 0
  <2>1. \A i \in Levels : i < m <=> i < j \/ i = j
    BY <1>5, LevelNumbers
  <2>2. QED
    BY <1>5, <2>1 DEF Advances
<1>9. (cursor[j] + 1) % N = (Turn(j, Ticks) + 1) % N
  <2>1. Turn(j, Ticks) \in Int /\ cursor[j] = Turn(j, Ticks) % N
    BY <1>1, <1>5, NextTurn DEF CursorsAgree
  <2> HIDE DEF j, N
  <2>2. QED
    BY <1>7, <2>1, Residues, SMTT(30)
<1>10. a % (N * L) = 0 <=> a % L = 0 /\ (a \div L) % N = 0
  <2> HIDE DEF j, N, L, a
  <2>1. QED
    BY <1>1, <1>7, Levels2
<1>11. a % L = 0 => a \div L = Turn(j, Ticks) + 1
  BY <1>1, <1>5, NextTurn DEF Turn
<1>12. Advances(m) <=> a % LevelTick[m] = 0
  <2> HIDE DEF Bad, j, N, L, a
  <2>1. QED
    BY <1>6, <1>7, <1>8, <1>9, <1>10, <1>11
<1>13. QED
  BY <1>3, <1>12

\* So that the cursors count the ticks after a tick as before it.
LEMMA NextCursorAgrees ==
    ASSUME TypeOK, CursorsAgree
    PROVE  \A k \in Levels : NextCursor[k] = Turn(k, Ticks + 1) % NumSlots(k)
<1> TAKE k \in Levels
<1>1. Ticks \in Int
  BY DEF TypeOK, Ticks
<1>2. Turn(k, Ticks) \in Int /\ cursor[k] = Turn(k, Ticks) % NumSlots(k)
  BY <1>1, NextTurn DEF CursorsAgree
<1>3. NextCursor[k] = IF Advances(k) THEN (cursor[k] + 1) % NumSlots(k) ELSE cursor[k]
  BY DEF NextCursor
<1>4. CASE Advances(k)
  <2>1. Turn(k, Ticks + 1) = Turn(k, Ticks) + 1
    BY <1>1, <1>4, AdvancesWithTurn, NextTurn
  <2>2. (cursor[k] + 1) % NumSlots(k) = (Turn(k, Ticks) + 1) % NumSlots(k)
    <3> DEFINE N == NumSlots(k)
               q == Turn(k, Ticks)
    <3>1. N \in Int /\ N > 0 /\ q \in Int
      BY <1>2, LevelNumbers
    <3> HIDE DEF N, q
    <3>2. ((q % N) + 1) % N = (q + 1) % N
      BY <3>1, Residues
    <3>3. QED
      BY <1>2, <3>2 DEF N, q
  <2>3. QED
    BY <1>3, <1>4, <2>1, <2>2
<1>5. CASE ~Advances(k)
  <2>1. Turn(k, Ticks + 1) = Turn(k, Ticks)
    BY <1>1, <1>5, AdvancesWithTurn, NextTurn
  <2>2. QED
    BY <1>2, <1>3, <1>5, <2>1
<1>6. QED
  BY <1>4, <1>5

\* place books a task for a slot ahead of the one its level comes to next.
LEMMA PlacedIsBooked ==
    ASSUME NEW k \in Levels, NEW f \in Int, NEW n \in Int, NEW T \in Int, NEW drops \in Int,
           T <= n, n <= T + drops + 1, Fits(f - n, k),
           NEW place, NEW c, c = Turn(k, T) % NumSlots(k),
           place = <<"slot", k, (c + Ahead(f - n, k)) % NumSlots(k)>>
    PROVE  \E turn \in Int : /\ turn > Turn(k, T) + 1
                             /\ Booked(place, f, f + LevelTick[k], T, drops, k, turn)
<1> DEFINE L == LevelTick[k]
           N == NumSlots(k)
           q == Turn(k, T)
           ahead == Ahead(f - n, k)
           turn == q + ahead
<1>1. L \in Int /\ L > 0 /\ N \in Int /\ N > 0
  BY LevelNumbers
<1>2. q \in Int /\ L * q <= T /\ L * q \in Int
  <2>1. T \div L \in Int /\ T % L \in 0 .. L - 1 /\ T = L * (T \div L) + (T % L)
    BY <1>1, Division
  <2>2. q = T \div L
    BY DEF Turn
  <2> HIDE DEF L, q
  <2>3. QED
    BY <1>1, <2>1, <2>2
<1>3. ahead \in 2 .. N /\ L * ahead <= (f - n) + L /\ (k = 0 => ahead = (f - n) + 1)
  BY AheadBounds
<1>4. k = 0 => L = 1
  BY TickStep
<1>5. k = 0 => q = T
  BY <1>4 DEF Turn
<1> HIDE DEF L, N, q, ahead
<1>6. (c + ahead) % N = turn % N
  <2>1. c = q % N
    BY DEF q, N
  <2>2. ahead \in Int
    BY <1>1, <1>3
  <2>3. ((q % N) + ahead) % N = (q + ahead) % N
    BY <1>1, <1>2, <2>2, Residues
  <2>4. QED
    BY <2>1, <2>3
<1>7. L * turn <= f + L
  <2>1. L * turn = L * q + L * ahead /\ L * ahead \in Int
    BY <1>1, <1>2, <1>3
  <2> HIDE DEF turn
  <2>2. QED
    BY <1>1, <1>2, <1>3, <2>1
<1>8. turn > q + 1 /\ turn <= q + N /\ turn \in Int
  BY <1>1, <1>2, <1>3
<1>9. k = 0 => turn + drops >= f
  BY <1>2, <1>3, <1>5
<1>10. place = <<"slot", k, turn % N>>
  BY <1>6 DEF ahead, N
<1> HIDE DEF turn
<1>11. Booked(place, f, f + LevelTick[k], T, drops, k, turn)
  <2>1. LevelTick[k] * turn <= f + LevelTick[k]
    BY <1>7 DEF L
  <2>2. turn > Turn(k, T) /\ turn <= Turn(k, T) + NumSlots(k)
    BY <1>1, <1>2, <1>8 DEF q, N
  <2>3. place = <<"slot", k, turn % NumSlots(k)>>
    BY <1>10 DEF N
  <2>4. QED
    BY <1>9, <2>1, <2>2, <2>3 DEF Booked
<1>12. QED
  BY <1>8, <1>11 DEF q

\* The level that place finds later is not above the one it found at insert.
LEMMA LevelsOnlyFall ==
    ASSUME NEW k \in Levels, NEW first \in Levels, NEW d \in Int, Fits(d, k),
           d < LevelTick[first + 1]
    PROVE  LevelTick[k] <= LevelTick[first]
<1>1. k <= first
  <2> SUFFICES ASSUME k > first PROVE FALSE
    BY LevelNumbers
  <2>1. first + 1 \in 0 .. k /\ k > 0 /\ k \in 0 .. Len(Slots)
    BY LevelNumbers
  <2>2. LevelTick[first + 1] <= LevelTick[k]
    BY <2>1, TickGrows
  <2>3. d >= LevelTick[k]
    BY <2>1 DEF Fits
  <2>4. QED
    BY <2>2, <2>3, LevelNumbers
<1>2. k \in 0 .. first /\ first \in 0 .. Len(Slots)
  BY <1>1, LevelNumbers
<1>3. QED
  BY <1>2, TickGrows

\* Placing a waiting task again leaves it due, or fires it at its time or after.
LEMMA ReplacedIsDue ==
    ASSUME TypeOK, NEW t \in Tasks, NEW n \in Int, NEW T \in Int, NEW drops \in Int,
           T <= n, n <= T + drops + 1, NEW c, \A k \in Levels : c[k] = Turn(k, T) % NumSlots(k),
           firstLevel[t] \in Levels, fireAt[t] < n + LevelTick[firstLevel[t] + 1]
    PROVE  \/ Replace(t, c, n) = At("gone")
           \/ fireAt[t] <= n /\ Replace(t, c, n) = At("fired")
           \/ /\ Replace(t, c, n)[1] = "slot"
              /\ \E k \in Levels, turn \in Int :
                    /\ turn > Turn(k, T) + 1
                    /\ Booked(Replace(t, c, n), fireAt[t], Last(t), T, drops, k, turn)
<1> DEFINE first == firstLevel[t]
           r == Replace(t, c, n)
<1>1. fireAt[t] \in Int
  BY Numbers
<1>2. CASE t \in cancelled
  BY <1>2 DEF Replace
<1>3. CASE t \notin cancelled /\ fireAt[t] <= n /\ Place(t, c, n) = At(IF t \in cancelled THEN "gone" ELSE "fired")
  BY <1>3 DEF Replace
<1>4. ~(fireAt[t] >= n + MaxWheelSpan)
  <2>1. LevelTick[first + 1] <= MaxWheelSpan
    <3>1. first + 1 \in 0 .. Len(Slots) /\ Len(Slots) \in 0 .. Len(Slots)
      BY LevelNumbers
    <3>2. QED
      BY <3>1, TickGrows DEF MaxWheelSpan
  <2>2. MaxWheelSpan \in Int /\ LevelTick[first + 1] \in Int
    BY LevelNumbers, SlotsArePositive, TickIsPositive DEF MaxWheelSpan
  <2>3. QED
    BY <1>1, <2>1, <2>2
<1>5. ASSUME t \notin cancelled, NEW k \in Levels, Fits(fireAt[t] - n, k),
             Place(t, c, n) = <<"slot", k, (c[k] + Ahead(fireAt[t] - n, k)) % NumSlots(k)>>
      PROVE  /\ r[1] = "slot"
             /\ \E turn \in Int : turn > Turn(k, T) + 1 /\ Booked(r, fireAt[t], Last(t), T, drops, k, turn)
  <2>1. r = <<"slot", k, (c[k] + Ahead(fireAt[t] - n, k)) % NumSlots(k)>>
    BY <1>5 DEF Replace
  <2>2. PICK turn \in Int : /\ turn > Turn(k, T) + 1
                            /\ Booked(r, fireAt[t], fireAt[t] + LevelTick[k], T, drops, k, turn)
    <3> HIDE DEF r
    <3>1. c[k] = Turn(k, T) % NumSlots(k)
      OBVIOUS
    <3>2. QED
      BY <1>1, <1>5, <2>1, <3>1, PlacedIsBooked
  <2>3. LevelTick[k] <= LevelTick[first]
    <3> DEFINE d == fireAt[t] - n
    <3>1. d \in Int /\ d < LevelTick[first + 1] /\ first \in Levels
      <4>1. first \in Levels /\ fireAt[t] < n + LevelTick[first + 1]
        OBVIOUS
      <4>2. LevelTick[first + 1] \in Int
        BY <4>1, LevelNumbers
      <4> HIDE DEF first, r
      <4>3. QED
        BY <1>1, <4>1, <4>2
    <3>2. Fits(d, k)
      BY <1>5
    <3> HIDE DEF d, first
    <3>3. QED
      BY <3>1, <3>2, LevelsOnlyFall
  <2>4. LevelTick[k] * turn <= Last(t)
    <3>1. LevelTick[k] * turn <= fireAt[t] + LevelTick[k]
      BY <2>2 DEF Booked
    <3>2. LevelTick[k] \in Int /\ LevelTick[first] \in Int /\ LevelTick[k] * turn \in Int
      <4>1. first \in Levels
        OBVIOUS
      <4> HIDE DEF first, r
      <4>2. LevelTick[k] \in Int /\ LevelTick[first] \in Int
        BY <4>1, LevelNumbers
      <4>3. QED
        BY <4>2
    <3>3. Last(t) = fireAt[t] + LevelTick[first]
      BY DEF Last
    <3> DEFINE begins == LevelTick[k] * turn
    <3>4. begins <= fireAt[t] + LevelTick[k] /\ begins \in Int
      BY <3>1, <3>2
    <3> HIDE DEF begins, first, r
    <3>5. begins <= Last(t)
      BY <1>1, <2>3, <3>2, <3>3, <3>4
    <3>6. QED
      BY <3>5 DEF begins
  <2>5. Booked(r, fireAt[t], Last(t), T, drops, k, turn)
    BY <2>2, <2>4 DEF Booked
  <2>6. QED
    BY <2>1, <2>2, <2>5
<1>6. QED
  BY <1>1, <1>2, <1>3, <1>4, <1>5, PlaceCases

\* A slot that a tick comes to holds the tasks booked for that very turn.
LEMMA MetOnTurn ==
    ASSUME TypeOK, CursorsAgree, NEW j \in Levels, NEW k \in Levels, NEW turn \in Int,
           NEW p, NEW f, NEW last, NEW drops, Booked(p, f, last, Ticks, drops, k, turn),
           p = <<"slot", j, NextCursor[j]>>, Advances(j)
    PROVE  j = k /\ Ticks + 1 = LevelTick[k] * turn
<1> DEFINE N == NumSlots(k)
           q == Turn(k, Ticks)
<1>1. j = k /\ turn % N = NextCursor[k]
  BY DEF Booked
<1>2. Ticks \in Int /\ (Ticks + 1) % LevelTick[k] = 0
  BY <1>1, AdvancesWithTurn DEF TypeOK, Ticks
<1>3. q \in Int /\ Turn(k, Ticks + 1) = q + 1 /\ Ticks + 1 = LevelTick[k] * (q + 1)
  BY <1>2, NextTurn
<1>4. turn % N = (q + 1) % N
  BY <1>1, <1>3, NextCursorAgrees
<1>5. N \in Int /\ N > 0 /\ turn > q /\ turn <= q + N
  BY LevelNumbers DEF Booked
<1> HIDE DEF N, q
<1>6. turn = q + 1
  <2>1. turn < (q + 1) + N /\ q + 1 < turn + N /\ q + 1 \in Int
    BY <1>3, <1>5
  <2>2. QED
    BY <1>4, <1>5, <2>1, Residues
<1>7. QED
  BY <1>1, <1>3, <1>6

\* A tick leaves a booking in force, unless it comes to the slot.
LEMMA BookedOrMet ==
    ASSUME TypeOK, CursorsAgree, NEW k \in Levels, NEW turn \in Int,
           NEW p, NEW f, NEW last, NEW drops, Booked(p, f, last, Ticks, drops, k, turn)
    PROVE  \/ p = <<"slot", k, NextCursor[k]>> /\ Advances(k)
           \/ Booked(p, f, last, Ticks + 1, drops, k, turn)
<1>1. Ticks \in Int
  BY DEF TypeOK, Ticks
<1>2. Turn(k, Ticks) \in Int /\ NumSlots(k) \in Int /\ NumSlots(k) > 0
  BY <1>1, NextTurn, LevelNumbers
<1>3. CASE (Ticks + 1) % LevelTick[k] # 0
  <2>1. Turn(k, Ticks + 1) = Turn(k, Ticks)
    BY <1>1, <1>3, NextTurn
  <2>2. QED
    BY <2>1 DEF Booked
<1>4. CASE (Ticks + 1) % LevelTick[k] = 0
  <2>1. Turn(k, Ticks + 1) = Turn(k, Ticks) + 1 /\ Advances(k)
    BY <1>1, <1>4, NextTurn, AdvancesWithTurn
  <2>2. NextCursor[k] = Turn(k, Ticks + 1) % NumSlots(k)
    BY NextCursorAgrees
  <2>3. CASE turn = Turn(k, Ticks + 1)
    BY <2>1, <2>2, <2>3 DEF Booked
  <2>4. CASE turn # Turn(k, Ticks + 1)
    <3>1. turn > Turn(k, Ticks + 1) /\ turn <= Turn(k, Ticks + 1) + NumSlots(k)
      BY <1>2, <2>1, <2>4 DEF Booked
    <3>2. QED
      BY <3>1 DEF Booked
  <2>5. QED
    BY <2>3, <2>4
<1>5. QED
  BY <1>3, <1>4

\* A tick, however late, leaves every waiting task due and fires none before its time.
LEMMA TickIsDue ==
    ASSUME TypeOK, dropped <= now, CursorsAgree, Due, NEW step \in Int, step >= 1,
           NEW n, n = now + step, NEW drops, drops = dropped + step - 1, NEW t \in Tasks
    PROVE  LET p1 == Uncovered(pos, n)
               p3 == Cascaded(Popped(p1), n)
           IN  /\ p1[t] = At("fired") /\ pos[t] # At("fired") => fireAt[t] <= n
               /\ p3[t] = At("fired") /\ pos[t] # At("fired") => fireAt[t] <= n
               /\ DueIn(t, p3[t], Ticks + 1, drops, n)
<1> DEFINE p1 == Uncovered(pos, n)
           p2 == Popped(p1)
           p3 == Cascaded(p2, n)
           Early(p) == p = At("fired") /\ pos[t] # At("fired") /\ ~(fireAt[t] <= n)
           \* What a waiting task is owed between the parts of the tick.
           Owed(p) ==
             /\ p[1] = "slot" =>
                  /\ firstLevel[t] \in Levels /\ fireAt[t] < n + LevelTick[firstLevel[t] + 1]
                  /\ \E k \in Levels, turn \in Int : Booked(p, fireAt[t], Last(t), Ticks, drops, k, turn)
             /\ p[1] = "overflow" =>
                  /\ p = At("overflow") /\ firstLevel[t] = Len(Slots) - 1
                  /\ fireAt[t] >= n + MaxWheelSpan
<1>1. /\ now \in Int /\ dropped \in Int /\ dropped >= 0 /\ Ticks \in Int /\ fireAt[t] \in Int
      /\ n \in Int /\ drops \in Int /\ Ticks <= now /\ Ticks + 1 <= n
      /\ Ticks + drops + 1 = n /\ dropped <= drops /\ now <= n
  BY Numbers DEF Ticks
<1>2. DueIn(t, pos[t], Ticks, dropped, now)
  BY DEF Due
<1>3. ~Early(p1[t]) /\ Owed(p1[t])
  <2>1. CASE InRange(t, n)
    <3>1. p1[t] = Replace(t, cursor, n)
      BY <2>1 DEF Uncovered
    <3>2. pos[t] = At("overflow") /\ fireAt[t] < n + MaxWheelSpan
      BY <2>1 DEF InRange
    <3>3. firstLevel[t] = Len(Slots) - 1
      BY <1>2, <3>2 DEF DueIn, At
    <3>4. firstLevel[t] \in Levels /\ LevelTick[firstLevel[t] + 1] = MaxWheelSpan
      BY <3>3, SlotsArePositive DEF Levels, MaxWheelSpan
    <3>5. \A k \in Levels : cursor[k] = Turn(k, Ticks) % NumSlots(k)
      BY DEF CursorsAgree
    <3>6. \/ p1[t] = At("gone")
          \/ fireAt[t] <= n /\ p1[t] = At("fired")
          \/ /\ p1[t][1] = "slot"
             /\ \E k \in Levels, turn \in Int : Booked(p1[t], fireAt[t], Last(t), Ticks, drops, k, turn)
      <4>1. Ticks <= n /\ n <= Ticks + drops + 1
        BY <1>1
      <4>2. fireAt[t] < n + LevelTick[firstLevel[t] + 1]
        BY <3>2, <3>4
      <4> HIDE DEF p1
      <4>3. QED
        BY <1>1, <3>1, <3>4, <3>5, <4>1, <4>2, ReplacedIsDue
    <3> HIDE DEF p1
    <3>7. QED
      BY <3>2, <3>4, <3>6 DEF At
  <2>2. CASE ~InRange(t, n)
    <3>1. p1[t] = pos[t]
      BY <2>2 DEF Uncovered
    <3>2. ~Early(p1[t])
      BY <3>1
    <3>3. ASSUME pos[t][1] = "slot"
          PROVE  /\ firstLevel[t] \in Levels /\ fireAt[t] < n + LevelTick[firstLevel[t] + 1]
                 /\ \E k \in Levels, turn \in Int : Booked(pos[t], fireAt[t], Last(t), Ticks, drops, k, turn)
      <4>1. /\ firstLevel[t] \in Levels /\ fireAt[t] < now + LevelTick[firstLevel[t] + 1]
            /\ \E k \in Levels, turn \in Int : Booked(pos[t], fireAt[t], Last(t), Ticks, dropped, k, turn)
        BY <1>2, <3>3 DEF DueIn
      <4>2. LevelTick[firstLevel[t] + 1] \in Int
        BY <4>1, LevelNumbers
      <4>3. PICK k \in Levels, turn \in Int : Booked(pos[t], fireAt[t], Last(t), Ticks, dropped, k, turn)
        BY <4>1
      <4>4. k = 0 => turn + drops >= fireAt[t]
        BY <1>1, <4>3 DEF Booked
      <4>5. Booked(pos[t], fireAt[t], Last(t), Ticks, drops, k, turn)
        BY <4>3, <4>4 DEF Booked
      <4>6. QED
        BY <1>1, <4>1, <4>2, <4>5
    <3>4. ASSUME pos[t][1] = "overflow"
          PROVE  /\ pos[t] = At("overflow") /\ firstLevel[t] = Len(Slots) - 1
                 /\ fireAt[t] >= n + MaxWheelSpan
      <4>1. pos[t] = At("overflow") /\ firstLevel[t] = Len(Slots) - 1
        BY <1>2, <3>4 DEF DueIn
      <4>3. MaxWheelSpan \in Int
        BY SlotsArePositive, TickIsPositive DEF MaxWheelSpan
      <4>4. ~(fireAt[t] < n + MaxWheelSpan)
        BY <2>2, <4>1 DEF InRange
      <4> HIDE DEF p1, p2, p3
      <4>5. fireAt[t] \in Int /\ n \in Int
        BY <1>1
      <4>6. fireAt[t] >= n + MaxWheelSpan
        BY <4>3, <4>4, <4>5
      <4>7. QED
        BY <4>1, <4>6
    <3>5. QED
      BY <3>1, <3>2, <3>3, <3>4
  <2>3. QED
    BY <2>1, <2>2
<1>4. ~Early(p2[t]) /\ Owed(p2[t])
  <2> HIDE DEF p1
  <2>1. CASE p1[t] = <<"slot", 0, NextCursor[0]>>
    <3>1. PICK k \in Levels, turn \in Int : Booked(p1[t], fireAt[t], Last(t), Ticks, drops, k, turn)
      BY <1>3, <2>1
    <3>2. 0 \in Levels /\ Advances(0)
      BY SlotsArePositive DEF Levels, Advances
    <3>3. k = 0 /\ Ticks + 1 = LevelTick[k] * turn
      BY <2>1, <3>1, <3>2, MetOnTurn
    <3>4. Ticks + 1 = turn
      BY <3>3, TickStep
    <3>5. fireAt[t] <= n
      BY <1>1, <3>1, <3>3, <3>4 DEF Booked
    <3>6. p2[t] \in {At("gone"), At("fired")}
      BY <2>1 DEF Popped
    <3> HIDE DEF p2
    <3>7. QED
      BY <3>5, <3>6 DEF At
  <2>2. CASE p1[t] # <<"slot", 0, NextCursor[0]>>
    <3>1. p2[t] = p1[t]
      BY <2>2 DEF Popped
    <3>2. QED
      BY <1>3, <3>1
  <2>3. QED
    BY <2>1, <2>2
<1>5. p2[t] # <<"slot", 0, NextCursor[0]>>
  BY DEF Popped, At
<1> DEFINE Reached(k) == Advances(k) /\ p2[t] = <<"slot", k, NextCursor[k]>>
<1>6. ~Early(p3[t]) /\ DueIn(t, p3[t], Ticks + 1, drops, n)
  <2> HIDE DEF p2
  <2>1. ASSUME NEW j \in Levels \ {0}, Reached(j)
        PROVE  ~Early(p3[t]) /\ DueIn(t, p3[t], Ticks + 1, drops, n)
    <3>1. p3[t] = Replace(t, NextCursor, n)
      BY <2>1 DEF Cascaded
    <3>2. firstLevel[t] \in Levels /\ fireAt[t] < n + LevelTick[firstLevel[t] + 1]
      BY <1>4, <2>1
    <3>3. \/ p3[t] = At("gone")
          \/ fireAt[t] <= n /\ p3[t] = At("fired")
          \/ /\ p3[t][1] = "slot"
             /\ \E k \in Levels, turn \in Int :
                  Booked(p3[t], fireAt[t], Last(t), Ticks + 1, drops, k, turn)
      <4> DEFINE T == Ticks + 1
      <4>1. T \in Int /\ T <= n /\ n <= T + drops + 1
        BY <1>1
      <4>2. \A k \in Levels : NextCursor[k] = Turn(k, T) % NumSlots(k)
        BY NextCursorAgrees
      <4> HIDE DEF p3, T
      <4>3. \/ p3[t] = At("gone")
            \/ fireAt[t] <= n /\ p3[t] = At("fired")
            \/ /\ p3[t][1] = "slot"
               /\ \E k \in Levels, turn \in Int :
                    turn > Turn(k, T) + 1 /\ Booked(p3[t], fireAt[t], Last(t), T, drops, k, turn)
        BY <1>1, <3>1, <3>2, <4>1, <4>2, ReplacedIsDue
      <4>4. QED
        BY <4>3 DEF T
    <3> HIDE DEF p3
    <3>4. QED
      BY <3>2, <3>3 DEF At, DueIn
  <2>2. ASSUME \A j \in Levels \ {0} : ~Reached(j)
        PROVE  ~Early(p3[t]) /\ DueIn(t, p3[t], Ticks + 1, drops, n)
    <3>1. p3[t] = p2[t]
      BY <2>2 DEF Cascaded
    <3>2. ASSUME p2[t][1] = "slot"
          PROVE  \E k \in Levels, turn \in Int : Booked(p2[t], fireAt[t], Last(t), Ticks + 1, drops, k, turn)
      <4>1. PICK k \in Levels, turn \in Int : Booked(p2[t], fireAt[t], Last(t), Ticks, drops, k, turn)
        BY <1>4, <3>2
      <4>2. ~(p2[t] = <<"slot", k, NextCursor[k]>> /\ Advances(k))
        BY <1>5, <2>2
      <4>3. QED
        BY <4>1, <4>2, BookedOrMet
    <3> HIDE DEF p3
    <3>3. QED
      BY <1>4, <3>1, <3>2 DEF DueIn
  <2>3. QED
    BY <2>1, <2>2
<1>7. QED
  BY <1>3, <1>6

\* A task that waits is not late yet, whatever the coming tick drops.
LEMMA WaitingIsNotLate ==
    ASSUME TypeOK, dropped <= now, Due, NEW t \in Tasks, pos[t][1] \in {"slot", "overflow"}
    PROVE  firstLevel[t] \in Levels /\ Last(t) \in Int /\ now + 1 <= Last(t) + dropped
<1>1. DueIn(t, pos[t], Ticks, dropped, now)
  BY DEF Due
<1>2. now \in Int /\ dropped \in Int /\ dropped >= 0 /\ Ticks \in Int /\ fireAt[t] \in Int
  BY Numbers
<1>3. firstLevel[t] \in Levels
  BY <1>1, SlotsArePositive DEF DueIn, Levels
<1>4. LevelTick[firstLevel[t]] \in Int /\ LevelTick[firstLevel[t]] > 0 /\ Last(t) \in Int
  BY <1>2, <1>3, LevelNumbers DEF Last
<1>5. CASE pos[t][1] = "slot"
  <2>1. PICK k \in Levels, turn \in Int : Booked(pos[t], fireAt[t], Last(t), Ticks, dropped, k, turn)
    BY <1>1, <1>5 DEF DueIn
  <2>2. Ticks < LevelTick[k] * turn /\ LevelTick[k] * turn <= Last(t)
    BY <1>2, <2>1, TurnIsLater DEF Booked
  <2>3. LevelTick[k] * turn \in Int
    BY LevelNumbers
  <2>4. now = Ticks + dropped
    BY <1>2 DEF Ticks
  <2>5. QED
    BY <1>2, <1>3, <1>4, <2>2, <2>3, <2>4
<1>6. CASE pos[t][1] = "overflow"
  <2>1. fireAt[t] >= now + MaxWheelSpan /\ MaxWheelSpan \in Int /\ MaxWheelSpan > 0
    BY <1>1, <1>6, SlotsArePositive, TickIsPositive DEF DueIn, MaxWheelSpan
  <2>2. QED
    BY <1>2, <1>3, <1>4, <2>1 DEF Last
<1>7. QED
  BY <1>5, <1>6

\* What a tick fires is in time, and what it leaves waiting is not late.
LEMMA TickFiresOnTime ==
    ASSUME TypeOK, dropped <= now, FiresOnTime, Due, NEW step \in Int, step >= 1,
           NEW p, p = [t \in Tasks |-> p[t]], Moves(p),
           \A t \in Tasks : p[t] = At("fired") /\ pos[t] # At("fired") => fireAt[t] <= now + step,
           Fire(p, index, now + step), now' = now + step, dropped' = dropped + step - 1,
           UNCHANGED <<callVars, cancelled, firstLevel>>
    PROVE  FiresOnTime'
<1>1. /\ pos' = p /\ fireAt' = fireAt /\ firstLevel' = firstLevel /\ cancelled' = cancelled
      /\ firedAt' = [t \in Tasks |-> IF t \in Fired(p) THEN now + step ELSE firedAt[t]]
  BY DEF Fire, callVars
<1> SUFFICES ASSUME NEW t \in Tasks
             PROVE  /\ p[t] = At("fired") => firedAt'[t] >= fireAt[t]
                    /\ firstLevel[t] >= 0 =>
                         /\ p[t] = At("fired") => firedAt'[t] <= Last(t) + dropped'
                         /\ Live(t)' => now' <= Last(t) + dropped'
  BY <1>1 DEF FiresOnTime, Last, Tasks, At
<1>2. /\ now \in Int /\ dropped \in Int /\ fireAt[t] \in Int /\ firedAt[t] \in Int
      /\ firstLevel[t] >= 0 => firstLevel[t] \in Levels /\ Last(t) \in Int
  BY Numbers, LevelNumbers DEF Last
<1>3. ASSUME InWheel(pos[t]) PROVE now' <= Last(t) + dropped'
  <2>1. Last(t) \in Int /\ now + 1 <= Last(t) + dropped
    BY <1>3, WaitingIsNotLate DEF InWheel
  <2>2. QED
    BY <1>2, <2>1
<1>4. CASE p[t] = At("fired") /\ pos[t] = At("fired")
  <2>1. firedAt'[t] = firedAt[t]
    BY <1>1, <1>4 DEF Fired
  <2>2. /\ firedAt[t] >= fireAt[t]
        /\ firstLevel[t] >= 0 => firedAt[t] <= Last(t) + dropped
    BY <1>4 DEF FiresOnTime, Last
  <2>3. ~Live(t)'
    BY <1>1, <1>4 DEF Live, At
  <2>4. QED
    BY <1>2, <2>1, <2>2, <2>3
<1>5. CASE p[t] = At("fired") /\ pos[t] # At("fired")
  <2>1. t \in Fired(p) /\ InWheel(pos[t]) /\ fireAt[t] <= now + step
    BY <1>5 DEF Fired, Moves
  <2>2. firedAt'[t] = now + step
    BY <1>1, <2>1
  <2>3. ~Live(t)'
    BY <1>1, <1>5 DEF Live, At
  <2>4. QED
    BY <1>2, <1>3, <2>1, <2>2, <2>3
<1>6. CASE p[t] # At("fired")
  <2>1. ASSUME Live(t)' PROVE InWheel(pos[t])
    BY <1>1, <2>1 DEF Live, Moves, InWheel
  <2>2. QED
    BY <1>3, <1>6, <2>1
<1>7. QED
  BY <1>4, <1>5, <1>6

LEMMA TickKeepsOnTime ==
    ASSUME TypeOK, OnTime, NEW step \in 1 .. MaxStep, Tick(step)
    PROVE  OnTime'
<1> DEFINE n == now + step
           drops == dropped + step - 1
           p == Cascaded(Popped(Uncovered(pos, n)), n)
<1>1. /\ wpc = "drain" /\ now' = n /\ dropped' = drops /\ cursor' = NextCursor
      /\ Fire(p, index, n) /\ pos' = p
      /\ UNCHANGED <<callVars, cancelled, firstLevel>> /\ fireAt' = fireAt
  BY DEF Tick, Fire, callVars
<1>2. /\ step \in Int /\ step >= 1 /\ now \in Int /\ dropped \in Int
      /\ dropped <= now /\ FiresOnTime /\ CursorsAgree /\ Due
  BY <1>1, BoundsAreNatural DEF OnTime, TypeOK
<1>3. ASSUME NEW t \in Tasks
      PROVE  /\ p[t] = At("fired") /\ pos[t] # At("fired") => fireAt[t] <= n
             /\ DueIn(t, p[t], Ticks + 1, drops, n)
  BY <1>2, TickIsDue
<1>4. FiresOnTime'
  <2>1. Moves(p) /\ p = [t \in Tasks |-> p[t]]
    BY TickMoves DEF Cascaded
  <2> HIDE DEF p
  <2>2. QED
    BY <1>1, <1>2, <1>3, <2>1, TickFiresOnTime
<1>5. Ticks' = Ticks + 1 /\ dropped' <= now'
  BY <1>1, <1>2 DEF Ticks
<1>6. CursorsAgree'
  BY <1>1, <1>2, <1>5, NextCursorAgrees DEF CursorsAgree, Turn, Levels, NumSlots
<1>7. Due'
  <2> HIDE DEF p, n, drops
  <2>1. ASSUME NEW t \in Tasks
        PROVE  DueIn(t, pos[t], Ticks, dropped, now)'
    <3>1. DueIn(t, p[t], Ticks + 1, drops, n)
      BY <1>3
    <3>2. QED
      BY <1>1, <1>5, <3>1 DEF DueIn, Booked, Last, Turn, Levels, NumSlots, MaxWheelSpan, At
  <2>2. QED
    BY <2>1 DEF Due, Tasks
<1>8. QED
  BY <1>4, <1>5, <1>6, <1>7 DEF OnTime

LEMMA SelfLockKeepsOnTime ==
    ASSUME TypeOK, OnTime, NEW step \in 1 .. MaxStep, TickSelfLock(step)
    PROVE  OnTime'
<1> DEFINE n == now + step
<1>1. /\ wpc = "drain" /\ wpc' = "stuck" /\ now' = n /\ dropped' = dropped + step - 1
      /\ UNCHANGED <<callVars, cancelled, firstLevel>>
  BY DEF TickSelfLock
<1>2. PICK t \in Tasks \ cancelled :
        /\ pos[t] = At("overflow")
        /\ Fire([u \in Tasks |-> IF u = t THEN At("gone")
                                 ELSE IF fireAt[u] < fireAt[t] THEN Uncovered(pos, n)[u]
                                 ELSE pos[u]], index, n)
  BY DEF TickSelfLock
<1> DEFINE p == [u \in Tasks |-> IF u = t THEN At("gone")
                                 ELSE IF fireAt[u] < fireAt[t] THEN Uncovered(pos, n)[u]
                                 ELSE pos[u]]
<1>3. /\ step \in Int /\ step >= 1 /\ now \in Int /\ dropped \in Int
      /\ dropped <= now /\ FiresOnTime /\ CursorsAgree /\ Due
  BY <1>1, BoundsAreNatural DEF OnTime, TypeOK
<1>4. Moves(p)
  BY <1>2 DEF Moves, Uncovered, InRange, Replace, At, InWheel
<1>5. ASSUME NEW u \in Tasks, p[u] = At("fired"), pos[u] # At("fired")
      PROVE  fireAt[u] <= n
  <2>1. p[u] = Uncovered(pos, n)[u]
    BY <1>5 DEF At
  <2> HIDE DEF p
  <2>2. QED
    BY <1>3, <1>5, <2>1, TickIsDue
<1>6. FiresOnTime'
  <2>1. p = [u \in Tasks |-> p[u]] /\ Fire(p, index, n)
    BY <1>2
  <2> HIDE DEF p
  <2>2. QED
    BY <1>1, <1>3, <1>4, <1>5, <2>1, TickFiresOnTime
<1>7. QED
  BY <1>1, <1>3, <1>6 DEF OnTime

LEMMA InsertKeepsOnTime ==
    ASSUME TypeOK, OnTime, Insert
    PROVE  OnTime'
<1> DEFINE t == Head(addCh)
           p == Place(t, cursor, now)
           moved == [pos EXCEPT ![t] = p]
           level == CASE p[1] = "slot" -> p[2]
                      [] p[1] = "overflow" -> Len(Slots) - 1
                      [] OTHER -> -1
<1>1. /\ addCh # <<>> /\ wpc \in {"select", "drain"}
      /\ cancelled \subseteq cancelled'
      /\ pos' = moved
      /\ firedAt' = [u \in Tasks |-> IF u \in Fired(moved) THEN now ELSE firedAt[u]]
      /\ firstLevel' = [firstLevel EXCEPT ![t] = level]
      /\ fireAt' = fireAt /\ cursor' = cursor /\ now' = now /\ dropped' = dropped /\ wpc' = wpc
  BY DEF Insert, Fire, Receiving, callVars, time
<1>2. t \in Tasks
  BY <1>1, HeadTailProperties DEF TypeOK
<1>3. /\ now \in Int /\ dropped \in Int /\ dropped >= 0 /\ Ticks \in Int /\ Ticks <= now
      /\ fireAt[t] \in Int /\ firedAt[t] \in Int /\ now = Ticks + dropped
      /\ dropped <= now /\ FiresOnTime /\ CursorsAgree /\ Due
  BY <1>1, <1>2, Numbers DEF OnTime, Ticks
<1>4. /\ pos'[t] = p /\ firstLevel'[t] = level
      /\ \A u \in Tasks \ {t} : /\ pos'[u] = pos[u] /\ firstLevel'[u] = firstLevel[u]
                                /\ firedAt'[u] = firedAt[u] /\ (Live(u)' => Live(u))
  <2>1. \A u \in Tasks \ {t} : pos'[u] = pos[u] /\ u \notin Fired(moved)
    BY <1>1, <1>2 DEF TypeOK, Fired
  <2> HIDE DEF moved, p, level
  <2>2. QED
    BY <1>1, <1>2, <2>1 DEF TypeOK, Live, moved
\* The task inserted.
<1>5. /\ p = At("fired") => fireAt[t] <= now /\ level = -1
      /\ p[1] \in {"slot", "overflow"} => level \in Levels /\ now <= fireAt[t]
      /\ p[1] \in {"slot", "overflow", "fired", "gone"}
      /\ p[1] = "slot" =>
           /\ fireAt[t] < now + LevelTick[level + 1]
           /\ \E k \in Levels, turn \in Int :
                Booked(p, fireAt[t], fireAt[t] + LevelTick[level], Ticks, dropped, k, turn)
      /\ p[1] = "overflow" =>
           p = At("overflow") /\ level = Len(Slots) - 1 /\ fireAt[t] >= now + MaxWheelSpan
  <2>1. CASE fireAt[t] <= now /\ p = At(IF t \in cancelled THEN "gone" ELSE "fired")
    BY <2>1 DEF At
  <2>2. CASE fireAt[t] >= now + MaxWheelSpan /\ p = At("overflow")
    <3>1. MaxWheelSpan \in Int /\ MaxWheelSpan > 0 /\ Len(Slots) - 1 \in Levels
      BY SlotsArePositive, TickIsPositive DEF MaxWheelSpan, Levels
    <3>2. p[1] = "overflow" /\ level = Len(Slots) - 1
      BY <2>2 DEF At
    <3> HIDE DEF p, level
    <3>3. QED
      BY <1>3, <2>2, <3>1, <3>2 DEF At
  <2>3. ASSUME NEW k \in Levels, Fits(fireAt[t] - now, k),
               p = <<"slot", k, (cursor[k] + Ahead(fireAt[t] - now, k)) % NumSlots(k)>>
        PROVE  /\ p[1] = "slot" /\ level = k /\ now <= fireAt[t]
               /\ fireAt[t] < now + LevelTick[k + 1]
               /\ \E turn \in Int :
                    Booked(p, fireAt[t], fireAt[t] + LevelTick[k], Ticks, dropped, k, turn)
    <3>1. p[1] = "slot" /\ level = k
      BY <2>3
    <3>2. now <= fireAt[t] /\ fireAt[t] < now + LevelTick[k + 1]
      BY <1>3, <2>3, LevelNumbers DEF Fits
    <3>3. cursor[k] = Turn(k, Ticks) % NumSlots(k) /\ now <= Ticks + dropped + 1
      BY <1>3 DEF CursorsAgree
    <3> HIDE DEF p, t, level
    <3>4. \E turn \in Int :
            Booked(p, fireAt[t], fireAt[t] + LevelTick[k], Ticks, dropped, k, turn)
      BY <1>3, <2>3, <3>3, PlacedIsBooked
    <3>5. QED
      BY <3>1, <3>2, <3>4
  <2>4. QED
    <3> HIDE DEF p, level
    <3>1. \A k \in Levels : k \in Levels /\ "slot" # "fired" /\ "slot" # "overflow"
      OBVIOUS
    <3>2. ASSUME NEW k \in Levels, Fits(fireAt[t] - now, k),
                 p = <<"slot", k, (cursor[k] + Ahead(fireAt[t] - now, k)) % NumSlots(k)>>
          PROVE  /\ p[1] = "slot" /\ level \in Levels /\ now <= fireAt[t] /\ p # At("fired")
                 /\ fireAt[t] < now + LevelTick[level + 1]
                 /\ \E i \in Levels, turn \in Int :
                      Booked(p, fireAt[t], fireAt[t] + LevelTick[level], Ticks, dropped, i, turn)
      BY <2>3, <3>2 DEF At
    <3>3. QED
      BY <1>3, <2>1, <2>2, <3>2, PlaceCases DEF p
<1>6. FiresOnTime'
  <2> HIDE DEF p, level, moved
  <2>1. SUFFICES ASSUME NEW u \in Tasks
                 PROVE  /\ pos'[u] = At("fired") => firedAt'[u] >= fireAt[u]
                        /\ firstLevel'[u] >= 0 =>
                             LET bound == fireAt[u] + LevelTick[firstLevel'[u]] + dropped IN
                             /\ pos'[u] = At("fired") => firedAt'[u] <= bound
                             /\ Live(u)' => now <= bound
    BY <1>1 DEF FiresOnTime, Tasks, At
  <2>2. CASE u # t
    BY <1>3, <1>4, <2>2 DEF FiresOnTime
  <2>3. CASE u = t
    <3>1. ASSUME p = At("fired") PROVE firedAt'[t] >= fireAt[t] /\ ~(level >= 0)
      <4>1. firedAt'[t] = now \/ (pos[t] = At("fired") /\ firedAt'[t] = firedAt[t])
        <5>1. moved[t] = p
          BY <1>1, <1>4
        <5>2. t \in Fired(moved) <=> pos[t] # At("fired")
          BY <1>2, <3>1, <5>1 DEF Fired
        <5>3. firedAt'[t] = IF t \in Fired(moved) THEN now ELSE firedAt[t]
          BY <1>1, <1>2
        <5>4. QED
          BY <5>2, <5>3
      <4>2. QED
        <5>1. fireAt[t] <= now /\ level = -1
          BY <1>5, <3>1
        <5>2. pos[t] = At("fired") => firedAt[t] >= fireAt[t]
          BY <1>2, <1>3 DEF FiresOnTime
        <5>3. now >= fireAt[t]
          BY <1>3, <5>1
        <5>4. QED
          BY <4>1, <5>1, <5>2, <5>3
    <3>2. ASSUME Live(u)' PROVE now <= fireAt[t] + LevelTick[level] + dropped
      <4>1. p[1] \in {"slot", "overflow"}
        BY <1>4, <2>3, <3>2 DEF Live
      <4>2. LevelTick[level] \in Int /\ LevelTick[level] > 0
        BY <1>5, <4>1, LevelNumbers
      <4>3. QED
        BY <1>3, <1>5, <4>1, <4>2
    <3>3. QED
      BY <1>4, <2>3, <3>1, <3>2
  <2>4. QED
    BY <2>2, <2>3
<1>7. Due'
  <2> HIDE DEF p, level, moved
  <2>1. ASSUME NEW u \in Tasks
        PROVE  DueIn(u, pos[u], Ticks, dropped, now)'
    <3>1. CASE u # t
      <4>1. DueIn(u, pos[u], Ticks, dropped, now)
        BY <1>3 DEF Due
      <4>2. pos'[u] = pos[u] /\ firstLevel'[u] = firstLevel[u]
        BY <1>4, <3>1
      <4>3. QED
        BY <1>1, <4>1, <4>2 DEF DueIn, Booked, Last, Turn, Levels, NumSlots, MaxWheelSpan, Ticks, At
    <3>2. CASE u = t
      BY <1>1, <1>4, <1>5, <3>2
        DEF DueIn, Booked, Last, Turn, Levels, NumSlots, MaxWheelSpan, Ticks, At
    <3>3. QED
      BY <3>1, <3>2
  <2>2. QED
    BY <2>1 DEF Due, Tasks
<1>8. CursorsAgree'
  BY <1>1, <1>3 DEF CursorsAgree, Turn, Ticks, Levels, NumSlots
<1>9. QED
  BY <1>1, <1>3, <1>6, <1>7, <1>8 DEF OnTime

LEMMA AddKeepsOnTime ==
    ASSUME TypeOK, OnTime, NEW i \in IDs, NEW f \in FireTimes, Add(i, f)
    PROVE  OnTime'
<1> DEFINE t == added + 1
<1>1. /\ added < MaxAdds /\ fireAt' = [fireAt EXCEPT ![t] = f]
      /\ \E kind \in {"queued", "gone"} : pos' = [pos EXCEPT ![t] = At(kind)]
      /\ UNCHANGED <<cancelled, cursor, now, dropped, wpc, firedAt, firstLevel>>
  BY DEF Add, time, history
<1>2. ASSUME NEW u \in Tasks
      PROVE  \/ /\ pos'[u] = pos[u] /\ fireAt'[u] = fireAt[u] /\ (Live(u)' => Live(u))
             \/ /\ pos'[u][1] \notin {"slot", "overflow"} /\ pos'[u] # At("fired") /\ ~Live(u)'
  <2>1. CASE u = t
    BY <1>1, <2>1 DEF TypeOK, Live, At
  <2>2. CASE u # t
    <3>1. pos'[u] = pos[u] /\ fireAt'[u] = fireAt[u]
      BY <1>1, <2>2 DEF TypeOK
    <3>2. QED
      BY <1>1, <3>1 DEF Live
  <2>3. QED
    BY <2>1, <2>2
<1>3. FiresOnTime'
  <2>1. FiresOnTime
    BY DEF OnTime
  <2>2. QED
    BY <1>1, <1>2, <2>1 DEF FiresOnTime, At, Tasks
<1>4. ASSUME Due PROVE Due'
  <2>1. ASSUME NEW u \in Tasks
        PROVE  DueIn(u, pos[u], Ticks, dropped, now)'
    <3>1. DueIn(u, pos[u], Ticks, dropped, now)
      BY <1>4 DEF Due
    <3>2. QED
      BY <1>1, <1>2, <3>1 DEF DueIn, Booked, Last, Turn, Levels, NumSlots, MaxWheelSpan, Ticks, At
  <2>2. QED
    BY <2>1 DEF Due, Tasks
<1>5. CursorsAgree => CursorsAgree'
  BY <1>1 DEF CursorsAgree, Turn, Ticks, Levels, NumSlots
<1>6. QED
  BY <1>1, <1>3, <1>4, <1>5 DEF OnTime

\* A wheel of any levels and slots, fed with any adds and cancels and losing any ticks,
\* fires no task before its time; and a task inserted ahead of its time has fired, or can
\* fire no more, when that time, one tick of the level insert put it in and the ticks lost
\* are over: no slot is skipped or met a round late (place, cascade, cascadeOverflow).
THEOREM TasksFireOnTime == Spec => []FiresOnTime
<1>1. Init => OnTime
  <2> SUFFICES ASSUME Init PROVE OnTime
    OBVIOUS
  <2>1. /\ \A t \in Tasks : pos[t] = At("none") /\ firstLevel[t] = -1
        /\ now = 0 /\ dropped = 0 /\ cursor = [k \in Levels |-> 0]
    BY DEF Init
  <2>2. FiresOnTime
    BY <2>1 DEF FiresOnTime, At
  <2>3. ASSUME NEW k \in Levels PROVE cursor[k] = Turn(k, Ticks) % NumSlots(k)
    <3> DEFINE L == LevelTick[k]
               N == NumSlots(k)
    <3>1. L \in Int /\ L > 0 /\ N \in Int /\ N > 0
      BY LevelNumbers
    <3> HIDE DEF L, N
    <3>2. 0 = L * 0 + 0 /\ 0 = N * 0 + 0 /\ 0 \in 0 .. L - 1 /\ 0 \in 0 .. N - 1
      BY <3>1
    <3>3. 0 \div L = 0 /\ 0 % N = 0
      BY <3>1, <3>2, DivisionUnique
    <3>4. Ticks = 0 /\ cursor[k] = 0
      BY <2>1 DEF Ticks
    <3>5. QED
      BY <3>3, <3>4 DEF L, N, Turn
  <2>4. Due
    BY <2>1 DEF Due, DueIn, At
  <2>5. QED
    BY <2>1, <2>2, <2>3, <2>4 DEF OnTime, CursorsAgree
<1>2. TypeOK /\ OnTime /\ [Next]_vars => OnTime'
  <2> SUFFICES ASSUME TypeOK, OnTime, [Next]_vars PROVE OnTime'
    OBVIOUS
  \* A step that moves no task and no cursor.
  <2>1. ASSUME UNCHANGED <<fireAt, pos, cursor, now, dropped, firedAt, firstLevel>>,
               cancelled \subseteq cancelled', wpc' # "stuck" => wpc # "stuck"
        PROVE  OnTime'
    <3>1. FiresOnTime'
      <4>1. FiresOnTime
        BY DEF OnTime
      <4>2. ASSUME NEW t \in Tasks, Live(t)' PROVE Live(t)
        BY <2>1, <4>2 DEF Live
      <4>3. QED
        BY <2>1, <4>1, <4>2 DEF FiresOnTime, Tasks, At
    <3>2. Due => Due'
      BY <2>1 DEF Due, DueIn, Booked, Last, Turn, Levels, NumSlots, MaxWheelSpan, Ticks, At, Tasks
    <3>3. CursorsAgree => CursorsAgree'
      BY <2>1 DEF CursorsAgree, Turn, Ticks, Levels, NumSlots
    <3>4. QED
      BY <2>1, <3>1, <3>2, <3>3 DEF OnTime
  <2>2. CASE Start \/ Stop \/ TickArrives \/ Exit \/ DoCancel \/ UNCHANGED vars
             \/ (\E i \in IDs : Cancel(i)) \/ (\E t \in Tasks : TaskCancel(t))
    <3>1. /\ UNCHANGED <<fireAt, pos, cursor, now, dropped, firedAt, firstLevel>>
          /\ cancelled \subseteq cancelled' /\ (wpc' # "stuck" => wpc # "stuck")
      BY <2>2 DEF Start, Stop, TickArrives, Exit, DoCancel, Receiving, Cancel, TaskCancel, vars,
                  callVars, time, history
    <3>2. QED
      BY <2>1, <3>1
  <2>3. QED
    BY <2>2, AddKeepsOnTime, InsertKeepsOnTime, TickKeepsOnTime, SelfLockKeepsOnTime DEF Next
<1>3. OnTime => FiresOnTime
  BY DEF OnTime
<1>4. QED
  BY <1>1, <1>2, <1>3, TypeCorrect, PTL DEF Spec
=============================================================================
