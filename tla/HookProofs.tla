------------------------------ MODULE HookProofs ------------------------------
(***************************************************************************)
(* Proofs about Hook: whatever the program's memory looks like and         *)
(* whichever functions are hooked, the page that allocate() takes for a    *)
(* trampoline is nobody's.                                                 *)
(***************************************************************************)
EXTENDS Hook, SumTheorems, SequenceTheorems

-----------------------------------------------------------------------------
(* Numbers *)

(* Division with a remainder *)
LEMMA DivFacts ==
  ASSUME NEW n \in Nat \ {0}, NEW a \in Nat
  PROVE  /\ a \div n \in Nat /\ a % n \in 0..(n - 1)
         /\ a = n * (a \div n) + (a % n)
OBVIOUS

(* A larger multiple is larger by the number itself at least. *)
LEMMA Multiples ==
  ASSUME NEW n \in Nat \ {0}, NEW q \in Nat, NEW r \in Nat, q < r
  PROVE  n * q + n <= n * r
<1>1. PICK d \in Nat : r = q + 1 + d
  <2>1. r - q - 1 \in Nat /\ r = q + 1 + (r - q - 1)
    OBVIOUS
  <2> QED BY <2>1
<1>2. n * r = n * q + n + n * d
  BY <1>1
<1>3. n * d \in Nat /\ n * q \in Nat
  OBVIOUS
<1> QED BY <1>2, <1>3

(* Two addresses of pages are a page apart. *)
LEMMA Aligned ==
  ASSUME NEW n \in Nat \ {0}, NEW a \in Nat, NEW b \in Nat, a % n = 0, b % n = 0, a < b
  PROVE  a + n <= b
<1>1. a = n * (a \div n) /\ b = n * (b \div n) /\ a \div n \in Nat /\ b \div n \in Nat
  BY DivFacts
<1>2. a \div n < b \div n
  <2> SUFFICES ASSUME b \div n <= a \div n PROVE FALSE
    BY <1>1
  <2>1. CASE b \div n = a \div n
    BY <1>1, <2>1
  <2>2. CASE b \div n < a \div n
    BY <1>1, <2>2, Multiples
  <2> QED BY <1>1, <2>1, <2>2
<1> QED BY <1>1, <1>2, Multiples

(* What is in a later section is behind what is in an earlier one. *)
LEMMA LaterSection ==
  ASSUME NEW n \in Nat \ {0}, NEW a \in Nat, NEW b \in Nat, a \div n < b \div n
  PROVE  a < b
<1>1. /\ a = n * (a \div n) + (a % n) /\ b = n * (b \div n) + (b % n)
      /\ a \div n \in Nat /\ b \div n \in Nat
      /\ a % n \in 0..(n - 1) /\ b % n \in 0..(n - 1)
  BY DivFacts
<1>2. n * (a \div n) + n <= n * (b \div n)
  BY <1>1, Multiples
<1>3. n * (a \div n) \in Nat /\ n * (b \div n) \in Nat
  BY <1>1
<1> QED BY <1>1, <1>2, <1>3

(* The page behind one *)
LEMMA NextPage ==
  ASSUME NEW n \in Nat \ {0}, NEW a \in Nat, a % n = 0
  PROVE  (a + n) % n = 0
<1>1. PICK q \in Nat : q = a \div n /\ a = n * q
  BY DivFacts
<1>2. PICK d \in Nat, m \in 0..(n - 1) : m = (a + n) % n /\ a + n = n * d + m
  <2>1. a + n \in Nat
    OBVIOUS
  <2> QED BY <2>1, DivFacts
<1>3. n * (q + 1) = n * q + n
  OBVIOUS
<1>4. PICK u \in Nat, v \in Nat : u = n * q /\ v = n * d
  OBVIOUS
<1>5. CASE q + 1 < d
  <2>1. n * (q + 1) + n <= n * d
    BY <1>5, Multiples
  <2>2. u + n + n <= v
    BY <1>3, <1>4, <2>1
  <2>3. u + n = v + m
    BY <1>1, <1>2, <1>4
  <2> QED BY <2>2, <2>3
<1>6. CASE d < q + 1
  <2>1. n * d + n <= n * (q + 1)
    BY <1>6, Multiples
  <2>2. v + n <= u + n
    BY <1>3, <1>4, <2>1
  <2>3. u + n = v + m
    BY <1>1, <1>2, <1>4
  <2> QED BY <2>2, <2>3
<1>7. CASE d = q + 1
  <2>1. u + n = v + m /\ v = u + n
    BY <1>1, <1>2, <1>3, <1>4, <1>7
  <2> QED BY <1>2, <2>1
<1> QED BY <1>5, <1>6, <1>7

(* A set of positions has a last one. *)
LEMMA LastOne ==
  ASSUME NEW n \in Nat, NEW s \in SUBSET (1..n), s # {}
  PROVE  /\ Max(s) \in s /\ \A y \in s : y <= Max(s)
         /\ IsFiniteSet(s) /\ IsFiniteSet(s \ {Max(s)})
         /\ Cardinality(s) \in Nat /\ Cardinality(s \ {Max(s)}) \in Nat
         /\ Cardinality(s) = Cardinality(s \ {Max(s)}) + 1
<1> DEFINE Q == {m \in Nat : \A t \in SUBSET (1..m) :
                               t # {} => \E x \in t : \A y \in t : x >= y}
<1>1. 0 \in Q
  <2>1. 1..0 = {}
    OBVIOUS
  <2>2. \A t \in SUBSET (1..0) : t = {}
    BY <2>1
  <2> QED BY <2>2
<1>2. ASSUME NEW m \in Nat, m \in Q PROVE m + 1 \in Q
  <2> SUFFICES ASSUME NEW t \in SUBSET (1..(m + 1)), t # {}
               PROVE  \E x \in t : \A y \in t : x >= y
    OBVIOUS
  <2>1. CASE m + 1 \in t
    BY <2>1
  <2>2. CASE m + 1 \notin t
    <3>1. t \in SUBSET (1..m)
      BY <2>2
    <3> QED BY <1>2, <3>1
  <2> QED BY <2>1, <2>2
<1>3. n \in Q
  <2> HIDE DEF Q
  <2> QED BY <1>1, <1>2, NumberInduction
<1>4. \E x \in s : \A y \in s : x >= y
  BY <1>3
<1>5. Max(s) \in s /\ \A y \in s : Max(s) >= y
  BY <1>4, Zenon DEF Max
<1>6. IsFiniteSet(s)
  <2>1. IsFiniteSet(1..n)
    BY FS_Interval
  <2> QED BY <2>1, FS_Subset
<1>7. \A y \in s : y <= Max(s)
  BY <1>5
<1> QED BY <1>5, <1>6, <1>7, RemoveOne

(* A set of positions that has with each those before it is an interval. *)
LEMMA Initial ==
  ASSUME NEW n \in Nat, NEW s \in SUBSET (1..n),
         \A x \in s : \A y \in 1..n : y < x => y \in s
  PROVE  /\ Cardinality(s) \in 0..n
         /\ s = 1..Cardinality(s)
<1>1. \E c \in 0..n : s = 1..c
  <2>1. CASE s = {}
    BY <2>1
  <2>2. CASE s # {}
    <3>1. Max(s) \in s /\ \A y \in s : y <= Max(s)
      BY <2>2, LastOne
    <3>2. PICK c \in s : \A y \in s : y <= c
      BY <3>1
    <3>3. c \in 1..n /\ \A y \in s : y \in 1..n
      OBVIOUS
    <3>4. \A y \in 1..c : y \in s
      BY <3>2, <3>3
    <3>5. \A y \in s : y \in 1..c
      BY <3>2, <3>3
    <3>6. s = 1..c
      BY <3>4, <3>5
    <3> QED BY <3>3, <3>6
  <2> QED BY <2>1, <2>2
<1>2. PICK c \in 0..n : s = 1..c
  BY <1>1
<1>3. Cardinality(1..c) = c
  BY FS_Interval
<1> QED BY <1>2, <1>3

-----------------------------------------------------------------------------
(* The walk through the regions *)

(* A region, or no more than the byte after the target, for none of them *)
IsWalk(g, rs, target) ==
  g = [s \in SUBSET (DOMAIN rs) |->
         IF s = {} THEN target + 1
         ELSE Behind(SectionOf(target), g[s \ {Max(s)}], rs[Max(s)])]

(* What the equation says of one set of regions. *)
LEMMA WalkOf ==
  ASSUME NEW rs, NEW target, NEW g, IsWalk(g, rs, target), NEW s \in SUBSET (DOMAIN rs)
  PROVE  g[s] = IF s = {} THEN target + 1
                ELSE Behind(SectionOf(target), g[s \ {Max(s)}], rs[Max(s)])
<1> DEFINE G(t) == IF t = {} THEN target + 1
                   ELSE Behind(SectionOf(target), g[t \ {Max(t)}], rs[Max(t)])
<1>1. g = [t \in SUBSET (DOMAIN rs) |-> G(t)]
  BY Zenon DEF IsWalk
<1>2. [t \in SUBSET (DOMAIN rs) |-> G(t)][s] = G(s)
  <2> HIDE DEF G
  <2> QED OBVIOUS
<1> QED BY <1>1, <1>2, Zenon

(* There is such a function. *)
LEMMA WalkExists ==
  ASSUME NEW n \in Nat, NEW rs, DOMAIN rs = 1..n, NEW target
  PROVE  \E g : IsWalk(g, rs, target)
<1> DEFINE S == 1..n
           B(v, x) == Behind(SectionOf(target), v, rs[x])
           Upto(m) == {s \in SUBSET S : Cardinality(s) <= m}
           G(g, s) == IF s = {} THEN target + 1 ELSE B(g[s \ {Max(s)}], Max(s))
           Eq(g, m) == g = [s \in Upto(m) |-> G(g, s)]
           N == {m \in Nat : \E g : Eq(g, m)}
<1>1. \A s \in SUBSET S : IsFiniteSet(s) /\ Cardinality(s) \in Nat
  <2>1. IsFiniteSet(1..n)
    BY FS_Interval
  <2> QED BY <2>1, FS_Subset, FS_CardinalityType
<1>2. 0 \in N
  <2> DEFINE g == [s \in Upto(0) |-> target + 1]
  <2>1. \A s \in Upto(0) : s = {}
    BY <1>1, FS_EmptySet
  <2>2. \A s \in Upto(0) : G(g, s) = target + 1
    BY <2>1
  <2>3. g = [s \in Upto(0) |-> G(g, s)]
    <3> HIDE DEF G, Upto
    <3> QED BY <2>2
  <2> HIDE DEF g, G, Upto
  <2>4. Eq(g, 0)
    BY <2>3
  <2> HIDE DEF Eq
  <2> QED BY <2>4
<1>3. ASSUME NEW m \in Nat, m \in N PROVE m + 1 \in N
  <2>1. PICK g : Eq(g, m)
    BY <1>3
  <2> DEFINE h == [s \in Upto(m + 1) |-> G(g, s)]
  <2>2. ASSUME NEW s \in Upto(m) PROVE g[s] = h[s]
    <3>1. s \in Upto(m + 1)
      BY <1>1
    <3>2. h[s] = G(g, s)
      <4> HIDE DEF G, Upto
      <4> QED BY <3>1
    <3>3. [t \in Upto(m) |-> G(g, t)][s] = G(g, s)
      <4> HIDE DEF G, Upto
      <4> QED OBVIOUS
    <3>4. g = [t \in Upto(m) |-> G(g, t)]
      BY <2>1, Zenon
    <3> HIDE DEF G, Upto, h
    <3> QED BY <3>2, <3>3, <3>4, Zenon
  <2>3. ASSUME NEW s \in Upto(m + 1), s # {} PROVE s \ {Max(s)} \in Upto(m)
    <3>1. s \in SUBSET (1..n) /\ Cardinality(s) <= m + 1
      OBVIOUS
    <3>2. /\ Cardinality(s) \in Nat /\ Cardinality(s \ {Max(s)}) \in Nat
          /\ Cardinality(s) = Cardinality(s \ {Max(s)}) + 1
      BY <2>3, <3>1, LastOne
    <3>3. Cardinality(s \ {Max(s)}) <= m
      BY <3>1, <3>2
    <3> QED BY <3>1, <3>3
  <2>4. \A s \in Upto(m + 1) : G(g, s) = G(h, s)
    <3> SUFFICES ASSUME NEW s \in Upto(m + 1), s # {}
                 PROVE  g[s \ {Max(s)}] = h[s \ {Max(s)}]
      <4> HIDE DEF B, h, Upto
      <4> QED OBVIOUS
    <3> HIDE DEF h, Upto
    <3> QED BY <2>2, <2>3
  <2>5. h = [s \in Upto(m + 1) |-> G(h, s)]
    <3>1. [s \in Upto(m + 1) |-> G(g, s)] = [s \in Upto(m + 1) |-> G(h, s)]
      <4> HIDE DEF G, Upto, h
      <4> QED BY <2>4
    <3>2. h = [s \in Upto(m + 1) |-> G(g, s)]
      OBVIOUS
    <3> HIDE DEF G, Upto, h
    <3> QED BY <3>1, <3>2
  <2> HIDE DEF h
  <2>6. Eq(h, m + 1)
    BY <2>5
  <2> HIDE DEF Eq
  <2> QED BY <2>6
<1>4. Nat \subseteq N
  <2> HIDE DEF N
  <2> QED BY <1>2, <1>3, NumberInduction
<1>5. PICK g : Eq(g, Cardinality(S))
  BY <1>1, <1>4
<1>6. Upto(Cardinality(S)) = SUBSET S
  <2>1. \A s \in SUBSET S : Cardinality(s) <= Cardinality(S)
    BY <1>1, FS_Subset
  <2> QED BY <2>1
<1>7. IsWalk(g, rs, target)
  <2> HIDE DEF Upto
  <2>1. g = [s \in SUBSET S |-> G(g, s)]
    BY <1>5, <1>6, Zenon
  <2> QED BY <2>1 DEF IsWalk
<1> QED BY <1>7

(* FreePage() is the walk through all the regions. *)
LEMMA FreeIsWalk ==
  ASSUME regions \in Seq(Region), NEW target
  PROVE  \E g : IsWalk(g, regions, target) /\ FreePage(target) = g[DOMAIN regions]
<1>1. \E g : IsWalk(g, regions, target)
  <2>1. DOMAIN regions = 1..Len(regions) /\ Len(regions) \in Nat
    OBVIOUS
  <2> QED BY <2>1, WalkExists
<1> DEFINE w == CHOOSE g : IsWalk(g, regions, target)
<1>2. IsWalk(w, regions, target)
  BY <1>1, Zenon
<1>3. FreePage(target) = w[DOMAIN regions]
  BY Zenon DEF FreePage, FoldLeft, MapThenFoldSet, IsWalk
<1> QED BY <1>2, <1>3

(* The walk as a sequence of steps, one for each region *)
LEMMA WalkSteps ==
  ASSUME NEW n \in Nat, NEW rs, DOMAIN rs = 1..n, NEW target, NEW g, IsWalk(g, rs, target)
  PROVE  /\ g[1..0] = target + 1
         /\ \A k \in 1..n : g[1..k] = Behind(SectionOf(target), g[1..(k - 1)], rs[k])
<1>1. 1..0 = {}
  OBVIOUS
<1>2. g[1..0] = target + 1
  BY <1>1, WalkOf
<1>3. ASSUME NEW k \in 1..n
      PROVE  g[1..k] = Behind(SectionOf(target), g[1..(k - 1)], rs[k])
  <2>1. 1..k \in SUBSET (1..n) /\ 1..k # {}
    <3>1. k \in 1..k
      OBVIOUS
    <3>2. \A x \in 1..k : x \in 1..n
      OBVIOUS
    <3> QED BY <3>1, <3>2
  <2>2. Max(1..k) = k
    <3>1. Max(1..k) \in 1..k /\ \A y \in 1..k : y <= Max(1..k)
      BY <2>1, LastOne
    <3>2. k \in 1..k
      OBVIOUS
    <3>3. \A m \in 1..k : k <= m => m = k
      OBVIOUS
    <3> QED BY <3>1, <3>2, <3>3
  <2>3. (1..k) \ {k} = 1..(k - 1)
    OBVIOUS
  <2>4. g[1..k] = Behind(SectionOf(target), g[(1..k) \ {Max(1..k)}], rs[Max(1..k)])
    BY <2>1, WalkOf
  <2> QED BY <2>2, <2>3, <2>4
<1> QED BY <1>2, <1>3

(* Where the walk is after some of the regions: at the byte behind the target
   or at the end of one of them, and in none of those in the target's section. *)
Walked(f, k, rs, target) ==
  /\ f \in Nat
  /\ \/ f = target + 1
     \/ \E j \in 1..k : f = rs[j].high /\ SectionOf(rs[j].low) = SectionOf(target)
  /\ \A j \in 1..k : SectionOf(rs[j].low) = SectionOf(target) =>
                       ~ (rs[j].low <= f /\ f < rs[j].high)

(* One region more *)
LEMMA WalkedOn ==
  ASSUME NEW n \in Nat, NEW rs \in Seq(Region), Len(rs) = n, InOrder(rs),
         NEW target \in Nat, NEW k \in Nat, k < n, NEW f, Walked(f, k, rs, target)
  PROVE  Walked(Behind(SectionOf(target), f, rs[k + 1]), k + 1, rs, target)
<1> DEFINE base == SectionOf(target)
           here == rs[k + 1]
<1>1. /\ \A j \in 1..(k + 1) : rs[j].low \in Nat /\ rs[j].high \in Nat /\ rs[j].low < rs[j].high
      /\ \A j \in 1..k : rs[j].high <= here.low
      /\ f \in Nat
  <2>1. \A j \in 1..(k + 1) : j \in DOMAIN rs /\ rs[j] \in Region
    OBVIOUS
  <2>2. \A j \in 1..(k + 1) : rs[j].low \in Nat /\ rs[j].high \in Nat
    BY <2>1 DEF Region
  <2>3. \A j \in 1..k : j \in DOMAIN rs /\ k + 1 \in DOMAIN rs /\ j < k + 1
    OBVIOUS
  <2> QED BY <2>1, <2>2, <2>3 DEF InOrder, Walked
<1>2. \A j \in 1..(k + 1) : j \in 1..k \/ j = k + 1
  OBVIOUS
<1>3. k + 1 \in 1..(k + 1) /\ 1..k \subseteq 1..(k + 1)
  OBVIOUS
<1>4. CASE SectionOf(here.low) = base /\ here.low <= f /\ f < here.high
  <2>1. Behind(base, f, here) = here.high
    BY <1>1, <1>3, <1>4 DEF Behind
  <2>2. \A j \in 1..(k + 1) : ~ (rs[j].low <= here.high /\ here.high < rs[j].high)
    BY <1>1, <1>2, <1>3
  <2>3. here.high \in Nat
    BY <1>1, <1>3
  <2>4. \E j \in 1..(k + 1) : here.high = rs[j].high /\ SectionOf(rs[j].low) = base
    BY <1>3, <1>4
  <2> QED BY <2>1, <2>2, <2>3, <2>4 DEF Walked
<1>5. CASE ~ (SectionOf(here.low) = base /\ here.low <= f /\ f < here.high)
  <2>1. Behind(base, f, here) = f
    BY <1>1, <1>3, <1>5 DEF Behind
  <2>2. \A j \in 1..(k + 1) : SectionOf(rs[j].low) = base => ~ (rs[j].low <= f /\ f < rs[j].high)
    BY <1>2, <1>5 DEF Walked
  <2>3. f = target + 1 \/ \E j \in 1..(k + 1) : f = rs[j].high /\ SectionOf(rs[j].low) = base
    BY <1>3 DEF Walked
  <2> QED BY <1>1, <2>1, <2>2, <2>3 DEF Walked
<1> QED BY <1>4, <1>5

(* The page that is found *)
LEMMA FreeIsWalked ==
  ASSUME regions \in Seq(Region), InOrder(regions), NEW target \in Nat
  PROVE  Walked(FreePage(target), Len(regions), regions, target)
<1>1. PICK n \in Nat : n = Len(regions) /\ DOMAIN regions = 1..n
  OBVIOUS
<1>2. PICK g : IsWalk(g, regions, target) /\ FreePage(target) = g[DOMAIN regions]
  BY FreeIsWalk
<1> DEFINE Q == {k \in Nat : k <= n => Walked(g[1..k], k, regions, target)}
<1>3. 0 \in Q
  <2>1. g[1..0] = target + 1
    BY <1>1, <1>2, WalkSteps
  <2>2. \A j \in 1..0 : FALSE
    OBVIOUS
  <2>3. target + 1 \in Nat
    OBVIOUS
  <2> QED BY <2>1, <2>2, <2>3 DEF Walked
<1>4. ASSUME NEW k \in Nat, k \in Q PROVE k + 1 \in Q
  <2> SUFFICES ASSUME k + 1 <= n PROVE Walked(g[1..(k + 1)], k + 1, regions, target)
    OBVIOUS
  <2>1. k < n /\ k + 1 \in 1..n /\ (k + 1) - 1 = k
    OBVIOUS
  <2>2. Walked(g[1..k], k, regions, target)
    BY <1>4, <2>1
  <2>3. g[1..(k + 1)] = Behind(SectionOf(target), g[1..k], regions[k + 1])
    <3>1. \A j \in 1..n : g[1..j] = Behind(SectionOf(target), g[1..(j - 1)], regions[j])
      BY <1>1, <1>2, WalkSteps
    <3> QED BY <2>1, <3>1
  <2>4. Walked(Behind(SectionOf(target), g[1..k], regions[k + 1]), k + 1, regions, target)
    BY <1>1, <2>1, <2>2, WalkedOn
  <2> QED BY <2>3, <2>4
<1>5. n \in Q
  <2> HIDE DEF Q
  <2> QED BY <1>3, <1>4, NumberInduction
<1> QED BY <1>1, <1>2, <1>5

(* If it is a page of the target's section, no region holds it: neither those *)
(* of other sections, ... *)
LEMMA HeldByNone ==
  ASSUME NEW n \in Nat, NEW rs \in Seq(Region), Len(rs) = n, InOrder(rs),
         NEW target \in Nat, (target + 1) % PageSize # 0,
         NEW f, Walked(f, n, rs, target), CanMap(f, target),
         NEW k \in 1..n
  PROVE  rs[k].high <= f \/ f < rs[k].low
<1> DEFINE base == SectionOf(target)
<1> USE SectionAssumption, PageAssumption
<1>1. \A j \in 1..n : rs[j].low \in Nat /\ rs[j].high \in Nat /\ rs[j].low < rs[j].high
  <2>1. \A j \in 1..n : j \in DOMAIN rs /\ rs[j] \in Region
    OBVIOUS
  <2> QED BY <2>1 DEF Region, InOrder
<1>2. \A i, j \in 1..n : i < j => rs[i].high <= rs[j].low
  BY DEF InOrder
<1>3. f \in Nat /\ SectionOf(f) = base /\ f % PageSize = 0
  BY DEF Walked, CanMap
<1>4. PICK j \in 1..n : f = rs[j].high /\ SectionOf(rs[j].low) = base
  BY <1>3 DEF Walked
<1>5. \A a, b \in Nat : a \div Section < b \div Section => a < b
  BY LaterSection
<1>6. \A a \in Nat : a \div Section \in Int
  BY DivFacts
<1>7. CASE SectionOf(rs[k].low) = base
  BY <1>1, <1>3, <1>7 DEF Walked
<1>8. CASE SectionOf(rs[k].low) > base
  <2>1. f < rs[k].low
    BY <1>1, <1>3, <1>5, <1>8 DEF SectionOf
  <2> QED BY <2>1
<1>9. CASE SectionOf(rs[k].low) < base
  <2>1. rs[k].low < rs[j].low
    BY <1>1, <1>4, <1>5, <1>9 DEF SectionOf
  <2>2. k < j
    <3>1. j < k => rs[j].high <= rs[k].low
      BY <1>2
    <3>2. rs[j].low < rs[j].high /\ rs[j].low \in Nat /\ rs[j].high \in Nat /\ rs[k].low \in Nat
      BY <1>1
    <3> QED BY <2>1, <3>1, <3>2
  <2>3. rs[k].high <= rs[j].low
    BY <1>2, <2>2
  <2> QED BY <1>1, <1>4, <2>3
<1> QED BY <1>1, <1>3, <1>6, <1>7, <1>8, <1>9 DEF SectionOf

-----------------------------------------------------------------------------
(* Regions are added and removed *)

(* A page that no region holds goes between them. *)
LEMMA MappedOK ==
  ASSUME regions \in Seq(Region), InOrder(regions),
         NEW page \in Nat, page % PageSize = 0,
         \A k \in DOMAIN regions : regions[k].high <= page \/ page < regions[k].low
  PROVE  /\ Mapped(page) \in Seq(Region) /\ InOrder(Mapped(page))
         /\ \E k \in DOMAIN Mapped(page) : Mapped(page)[k].low = page
<1> USE PageAssumption
<1>1. PICK rs \in Seq(Region) : rs = regions
  OBVIOUS
<1>2. PICK n \in Nat : n = Len(rs) /\ DOMAIN rs = 1..n
  OBVIOUS
<1>3. \A j \in 1..n : /\ rs[j].low \in Nat /\ rs[j].high \in Nat /\ rs[j].low < rs[j].high
                      /\ rs[j].low % PageSize = 0 /\ rs[j].high % PageSize = 0
  <2>1. \A j \in 1..n : rs[j] \in Region
    BY <1>2
  <2> QED BY <1>1, <1>2, <2>1 DEF Region, InOrder
<1>4. \A i, j \in 1..n : i < j => rs[i].high <= rs[j].low
  BY <1>1, <1>2 DEF InOrder
<1>5. \A j \in 1..n : rs[j].high <= page \/ page + PageSize <= rs[j].low
  BY <1>1, <1>2, <1>3, Aligned
<1>6. PICK before : before = {k \in DOMAIN regions : regions[k].low < page}
  OBVIOUS
<1>7. PICK c \in 0..n : c = Cardinality(before) /\ before = 1..c
  <2>1. before \in SUBSET (1..n)
    BY <1>1, <1>2, <1>6
  <2>2. \A x \in before : \A y \in 1..n : y < x => y \in before
    <3> SUFFICES ASSUME NEW x \in before, NEW y \in 1..n, y < x PROVE y \in before
      OBVIOUS
    <3>1. x \in 1..n /\ rs[x].low < page
      BY <1>1, <1>2, <1>6
    <3>2. rs[y].low < rs[y].high /\ rs[y].high <= rs[x].low
      BY <1>3, <1>4, <3>1
    <3>3. rs[y].low \in Nat /\ rs[y].high \in Nat /\ rs[x].low \in Nat
      BY <1>3, <3>1
    <3>4. rs[y].low < page
      BY <3>1, <3>2, <3>3
    <3>5. y \in DOMAIN regions /\ regions[y].low < page
      BY <1>1, <1>2, <3>4
    <3> QED BY <1>6, <3>5
  <2>3. /\ Cardinality(before) \in 0..n
        /\ before = 1..Cardinality(before)
    BY <2>1, <2>2, Initial
  <2> QED BY <2>3
<1>8. PICK new : new = [low |-> page, high |-> page + PageSize]
  OBVIOUS
<1>9. PICK m : m = Mapped(page)
  OBVIOUS
<1>10. m = SubSeq(rs, 1, c) \o <<new>> \o SubSeq(rs, c + 1, n)
  <2>1. Cardinality({k \in DOMAIN regions : regions[k].low < page}) = c
    BY <1>6, <1>7
  <2>2. m = InsertAt(rs, c + 1, new)
    BY <1>1, <1>8, <1>9, <2>1, Zenon DEF Mapped
  <2>3. (c + 1) - 1 = c
    OBVIOUS
  <2>4. m = SubSeq(rs, 1, (c + 1) - 1) \o <<new>> \o SubSeq(rs, c + 1, Len(rs))
    BY <2>2 DEF InsertAt
  <2> QED BY <1>2, <2>3, <2>4, Zenon
<1>11. /\ new \in Region /\ new.low = page /\ new.high = page + PageSize
       /\ page < page + PageSize /\ (page + PageSize) % PageSize = 0
  <2>1. (page + PageSize) % PageSize = 0
    BY NextPage
  <2>2. new \in Region /\ new.low = page /\ new.high = page + PageSize
    BY <1>8 DEF Region
  <2> QED BY <2>1, <2>2
<1>12. /\ m \in Seq(Region) /\ Len(m) = n + 1 /\ DOMAIN m = 1..(n + 1)
       /\ \A k \in 1..c : m[k] = rs[k]
       /\ m[c + 1] = new
       /\ \A k \in (c + 2)..(n + 1) : m[k] = rs[k - 1]
  <2>1. PICK a : a = SubSeq(rs, 1, c)
    OBVIOUS
  <2>2. PICK b : b = SubSeq(rs, c + 1, n)
    OBVIOUS
  <2>3. a \in Seq(Region) /\ Len(a) = c /\ \A k \in 1..c : a[k] = rs[k]
    BY <1>2, <2>1
  <2>4. b \in Seq(Region) /\ Len(b) = n - c /\ \A k \in 1..(n - c) : b[k] = rs[c + k]
    BY <1>2, <2>2
  <2>5. PICK d : d = a \o <<new>>
    OBVIOUS
  <2>6. /\ <<new>> \in Seq(Region) /\ Len(<<new>>) = 1
        /\ \A k \in 1..1 : <<new>>[k] = new
    BY <1>11
  <2>7. /\ d \in Seq(Region) /\ Len(d) = c + 1
        /\ \A k \in 1..(c + 1) : d[k] = IF k <= c THEN a[k] ELSE <<new>>[k - c]
    BY <2>3, <2>5, <2>6, ConcatProperties
  <2>8. m = d \o b
    BY <1>10, <2>1, <2>2, <2>5
  <2>9. /\ m \in Seq(Region) /\ Len(m) = c + 1 + (n - c)
        /\ \A k \in 1..(c + 1 + (n - c)) : m[k] = IF k <= c + 1 THEN d[k] ELSE b[k - (c + 1)]
    <3>1. d \in Seq(Region) /\ b \in Seq(Region)
      BY <2>4, <2>7
    <3>2. /\ d \o b \in Seq(Region) /\ Len(d \o b) = Len(d) + Len(b)
          /\ \A k \in 1..(Len(d) + Len(b)) :
               (d \o b)[k] = IF k <= Len(d) THEN d[k] ELSE b[k - Len(d)]
      BY <3>1, ConcatProperties
    <3>3. Len(d) = c + 1 /\ Len(b) = n - c
      BY <2>4, <2>7
    <3> QED BY <2>8, <3>2, <3>3
  <2>10. c + 1 + (n - c) = n + 1
    OBVIOUS
  <2>11. ASSUME NEW k \in 1..c PROVE m[k] = rs[k]
    BY <2>3, <2>7, <2>9
  <2>12. m[c + 1] = new
    BY <2>6, <2>7, <2>9
  <2>13. ASSUME NEW k \in (c + 2)..(n + 1) PROVE m[k] = rs[k - 1]
    <3>1. k - (c + 1) \in 1..(n - c) /\ c + (k - (c + 1)) = k - 1
      OBVIOUS
    <3>2. m[k] = b[k - (c + 1)]
      BY <2>9
    <3> QED BY <2>4, <3>1, <3>2
  <2>14. DOMAIN m = 1..(n + 1)
    BY <2>9, <2>10
  <2> QED BY <2>9, <2>10, <2>11, <2>12, <2>13, <2>14
<1>13. /\ \A j \in 1..c : rs[j].high <= page
       /\ \A j \in (c + 1)..n : page + PageSize <= rs[j].low
  <2>1. \A j \in 1..n : j \in 1..c <=> rs[j].low < page
    BY <1>1, <1>2, <1>6, <1>7
  <2>2. ASSUME NEW j \in 1..c PROVE rs[j].high <= page
    <3>1. j \in 1..n /\ rs[j].low < page
      BY <2>1
    <3> QED BY <1>3, <1>5, <3>1
  <2>3. ASSUME NEW j \in (c + 1)..n PROVE page + PageSize <= rs[j].low
    <3>1. j \in 1..n /\ ~ (rs[j].low < page)
      BY <2>1
    <3>2. rs[j].low < rs[j].high /\ rs[j].low \in Nat /\ rs[j].high \in Nat
      BY <1>3, <3>1
    <3> QED BY <1>5, <3>1, <3>2
  <2> QED BY <2>2, <2>3
<1>14. \A k \in 1..(n + 1) : \/ k \in 1..c /\ m[k] = rs[k]
                             \/ k = c + 1 /\ m[k] = new
                             \/ /\ k \in (c + 2)..(n + 1) /\ m[k] = rs[k - 1]
                                /\ k - 1 \in (c + 1)..n
  BY <1>12
<1>15. InOrder(m)
  <2>1. \A k \in DOMAIN m : /\ m[k].low % PageSize = 0 /\ m[k].high % PageSize = 0
                            /\ m[k].low < m[k].high
    <3> SUFFICES ASSUME NEW k \in DOMAIN m
                 PROVE  /\ m[k].low % PageSize = 0 /\ m[k].high % PageSize = 0
                        /\ m[k].low < m[k].high
      OBVIOUS
    <3>1. CASE k = c + 1 /\ m[k] = new
      BY <1>11, <3>1
    <3>2. CASE \E j \in 1..n : m[k] = rs[j]
      BY <1>3, <3>2
    <3>3. 1..c \subseteq 1..n /\ (c + 1)..n \subseteq 1..n
      OBVIOUS
    <3> QED BY <1>12, <1>14, <3>1, <3>2, <3>3
  <2>2. ASSUME NEW i \in DOMAIN m, NEW j \in DOMAIN m, i < j PROVE m[i].high <= m[j].low
    <3>1. CASE i \in 1..c /\ m[i] = rs[i]
      <4>1. CASE j \in 1..c /\ m[j] = rs[j]
        BY <1>4, <2>2, <3>1, <4>1
      <4>2. CASE j = c + 1 /\ m[j] = new
        BY <1>11, <1>13, <3>1, <4>2
      <4>3. CASE /\ j \in (c + 2)..(n + 1) /\ m[j] = rs[j - 1]
                 /\ j - 1 \in (c + 1)..n
        BY <1>4, <3>1, <4>3
      <4> QED BY <1>12, <1>14, <4>1, <4>2, <4>3
    <3>2. CASE i = c + 1 /\ m[i] = new
      <4>1. /\ j \in (c + 2)..(n + 1) /\ m[j] = rs[j - 1]
            /\ j - 1 \in (c + 1)..n
        BY <1>12, <1>14, <2>2, <3>2
      <4> QED BY <1>11, <1>13, <3>2, <4>1
    <3>3. CASE /\ i \in (c + 2)..(n + 1) /\ m[i] = rs[i - 1]
               /\ i - 1 \in (c + 1)..n
      <4>1. /\ j \in (c + 2)..(n + 1) /\ m[j] = rs[j - 1]
            /\ j - 1 \in (c + 1)..n
        BY <1>12, <1>14, <2>2, <3>3
      <4>2. i - 1 < j - 1 /\ i - 1 \in 1..n /\ j - 1 \in 1..n
        BY <2>2, <3>3, <4>1
      <4> QED BY <1>4, <3>3, <4>1, <4>2
    <3> QED BY <1>12, <1>14, <3>1, <3>2, <3>3
  <2> QED BY <2>1, <2>2 DEF InOrder
<1>16. \E k \in DOMAIN m : m[k].low = page
  <2>1. c + 1 \in DOMAIN m
    BY <1>12
  <2> QED BY <1>11, <1>12, <2>1
<1> QED BY <1>9, <1>12, <1>15, <1>16

(* One of the regions goes. *)
LEMMA RemovedOK ==
  ASSUME NEW rs \in Seq(Region), InOrder(rs), NEW k \in DOMAIN rs
  PROVE  RemoveAt(rs, k) \in Seq(Region) /\ InOrder(RemoveAt(rs, k))
<1>1. PICK n \in Nat : n = Len(rs) /\ DOMAIN rs = 1..n
  OBVIOUS
<1>2. PICK m : m = RemoveAt(rs, k)
  OBVIOUS
<1>3. m = SubSeq(rs, 1, k - 1) \o SubSeq(rs, k + 1, n)
  BY <1>1, <1>2 DEF RemoveAt
<1>4. /\ m \in Seq(Region) /\ DOMAIN m = 1..(n - 1)
      /\ \A j \in 1..(k - 1) : m[j] = rs[j]
      /\ \A j \in k..(n - 1) : m[j] = rs[j + 1]
  <2>1. PICK a : a = SubSeq(rs, 1, k - 1)
    OBVIOUS
  <2>2. PICK b : b = SubSeq(rs, k + 1, n)
    OBVIOUS
  <2>3. a \in Seq(Region) /\ Len(a) = k - 1 /\ \A j \in 1..(k - 1) : a[j] = rs[j]
    BY <1>1, <2>1
  <2>4. b \in Seq(Region) /\ Len(b) = n - k /\ \A j \in 1..(n - k) : b[j] = rs[k + j]
    BY <1>1, <2>2
  <2>5. m = a \o b
    BY <1>3, <2>1, <2>2
  <2>6. /\ m \in Seq(Region) /\ Len(m) = k - 1 + (n - k)
        /\ \A j \in 1..(k - 1 + (n - k)) : m[j] = IF j <= k - 1 THEN a[j] ELSE b[j - (k - 1)]
    BY <2>3, <2>4, <2>5, ConcatProperties
  <2>7. k \in 1..n /\ k - 1 + (n - k) = n - 1
    BY <1>1
  <2>8. ASSUME NEW j \in 1..(k - 1) PROVE m[j] = rs[j]
    BY <2>3, <2>6, <2>7
  <2>9. ASSUME NEW j \in k..(n - 1) PROVE m[j] = rs[j + 1]
    <3>0. j \in Int /\ k \in Int /\ k <= j /\ j <= n - 1 /\ 1 <= k /\ k <= n
      BY <2>7
    <3>1. j - (k - 1) \in 1..(n - k) /\ k + (j - (k - 1)) = j + 1
      BY <3>0
    <3>2. m[j] = b[j - (k - 1)]
      BY <2>6, <2>7
    <3> QED BY <2>4, <3>1, <3>2
  <2>10. DOMAIN m = 1..(n - 1)
    BY <2>6, <2>7
  <2> QED BY <2>6, <2>8, <2>9, <2>10
<1>5. \A i, j \in DOMAIN m : i < j =>
        \E x, y \in DOMAIN rs : x < y /\ m[i] = rs[x] /\ m[j] = rs[y]
  <2> SUFFICES ASSUME NEW i \in DOMAIN m, NEW j \in DOMAIN m, i < j
               PROVE  \E x, y \in DOMAIN rs : x < y /\ m[i] = rs[x] /\ m[j] = rs[y]
    OBVIOUS
  <2>1. CASE i < k /\ j < k
    BY <1>1, <1>4, <2>1
  <2>2. CASE i < k /\ k <= j
    <3>1. m[i] = rs[i] /\ m[j] = rs[j + 1] /\ i \in DOMAIN rs /\ j + 1 \in DOMAIN rs /\ i < j + 1
      BY <1>1, <1>4, <2>2
    <3> QED BY <3>1
  <2>3. CASE k <= i
    <3>1. /\ m[i] = rs[i + 1] /\ m[j] = rs[j + 1] /\ i + 1 \in DOMAIN rs /\ j + 1 \in DOMAIN rs
          /\ i + 1 < j + 1
      BY <1>1, <1>4, <2>3
    <3> QED BY <3>1
  <2> QED BY <1>1, <1>4, <2>1, <2>2, <2>3
<1>6. \A j \in DOMAIN m : \E x \in DOMAIN rs : m[j] = rs[x]
  <2> SUFFICES ASSUME NEW j \in DOMAIN m PROVE \E x \in DOMAIN rs : m[j] = rs[x]
    OBVIOUS
  <2>1. CASE j < k
    BY <1>1, <1>4, <2>1
  <2>2. CASE k <= j
    <3>1. m[j] = rs[j + 1] /\ j + 1 \in DOMAIN rs
      BY <1>1, <1>4, <2>2
    <3> QED BY <3>1
  <2> QED BY <1>1, <1>4, <2>1, <2>2
<1>7. InOrder(m)
  BY <1>5, <1>6 DEF InOrder
<1> QED BY <1>2, <1>4, <1>7

-----------------------------------------------------------------------------
(* The invariant *)

(* What is kept of a hook *)
Statuses ==
  {"", "Skipped", "Success", "ErrSymbolNotFoundInSelf", "ErrPrologueNotRecognised",
   "ErrPrologueTooLarge", "ErrAllocateTrampoline", "ErrMemoryProtection"}

HookData == [status : Statuses, chain : Nat, original : Nat, trampoline : Nat]

(* The regions are in order; a function whose page is still to be found does  *)
(* not begin with the last byte of one; a trampoline whose pages may be given *)
(* back is one of the regions.                                                *)
IInv ==
  /\ program \in Programs
  /\ regions \in Seq(Region) /\ InOrder(regions)
  /\ hooks \in Seq(HookData)
  /\ phase \in {"idle", "parse", "allocate", "prepare", "protect"}
  /\ phase # "idle" => Len(hooks) > 0
  /\ phase \in {"parse", "allocate"} => (Current.original + 1) % PageSize # 0
  /\ phase \in {"prepare", "protect"} =>
       \E k \in DOMAIN regions : regions[k].low = Current.trampoline - 4

(* No region overlaps another because they are in order. *)
LEMMA OrderSuffices ==
  ASSUME regions \in Seq(Region), InOrder(regions)
  PROVE  NothingReplaced
<1> SUFFICES ASSUME NEW i \in DOMAIN regions, NEW j \in DOMAIN regions, i # j
             PROVE  regions[i].high <= regions[j].low \/ regions[j].high <= regions[i].low
  BY DEF NothingReplaced
<1>1. i < j \/ j < i
  OBVIOUS
<1> QED BY <1>1 DEF InOrder

(* The program is loaded with its regions in order. *)
LEMMA InitOK ==
  Init => IInv
<1> SUFFICES ASSUME Init PROVE IInv
  OBVIOUS
<1>1. regions \in Seq(Region) /\ InOrder(regions)
  BY ProgramAssumption DEF Init
<1> QED BY <1>1 DEF Init, IInv

(* A field of a hook is set. *)
LEMMA WithField ==
  ASSUME NEW h \in HookData
  PROVE  /\ \A s \in Statuses : [h EXCEPT !.status = s] \in HookData
         /\ \A x \in Nat :
              /\ [h EXCEPT !.chain = x] \in HookData
              /\ [h EXCEPT !.chain = x].trampoline = h.trampoline
              /\ [h EXCEPT !.trampoline = x] \in HookData
              /\ [h EXCEPT !.trampoline = x].trampoline = x
BY DEF HookData

(* hook() returns: its last hook has a status. *)
LEMMA ReturnedOK ==
  ASSUME IInv, phase # "idle", NEW status \in Statuses, Returned(status)
  PROVE  phase' = "idle" /\ hooks' \in Seq(HookData)
<1>1. hooks \in Seq(HookData) /\ Len(hooks) \in DOMAIN hooks
  BY DEF IInv
<1>2. hooks' = [hooks EXCEPT ![Len(hooks)] = [hooks[Len(hooks)] EXCEPT !.status = status]]
  BY DEF Returned
<1>3. [hooks[Len(hooks)] EXCEPT !.status = status] \in HookData
  <2>1. hooks[Len(hooks)] \in HookData
    BY <1>1
  <2> QED BY <2>1, WithField
<1> QED BY <1>1, <1>2, <1>3 DEF Returned

(* A hook that is not wanted, and one that has been *)
LEMMA SkipOK ==
  ASSUME IInv, Skip
  PROVE  IInv'
<1>1. [status |-> "Skipped", chain |-> 0, original |-> 0, trampoline |-> 0] \in HookData
  BY DEF HookData, Statuses
<1>2. hooks' \in Seq(HookData)
  BY <1>1 DEF IInv, Skip
<1> QED BY <1>2 DEF IInv, Skip

(* The function that is found is one the program asks for. *)
LEMMA LookupOK ==
  ASSUME IInv, Lookup
  PROVE  IInv'
<1>1. /\ hooks \in Seq(HookData) /\ program \in Programs
      /\ regions \in Seq(Region) /\ InOrder(regions)
      /\ phase = "idle" /\ Len(hooks) < Len(program.hooks)
      /\ program' = program /\ regions' = regions
  BY DEF IInv, Lookup
<1>2. Wanted.function \in Nat /\ (Wanted.function + 1) % PageSize # 0
  <2>1. program.hooks \in Seq([function : Nat, after : Nat])
    BY <1>1, ProgramAssumption
  <2>2. Len(hooks) + 1 \in DOMAIN program.hooks
    BY <1>1, <2>1
  <2>3. Wanted \in [function : Nat, after : Nat]
    <3>1. Len(hooks) + 1 \in 1..Len(program.hooks)
      BY <2>1, <2>2
    <3>2. program.hooks[Len(hooks) + 1] \in [function : Nat, after : Nat]
      BY <2>1, <3>1, ElementOfSeq
    <3> QED BY <3>2 DEF Wanted
  <2>4. (program.hooks[Len(hooks) + 1].function + 1) % PageSize # 0
    BY <1>1, <2>2, ProgramAssumption
  <2> QED BY <2>3, <2>4 DEF Wanted
<1>3. CASE /\ hooks' = Append(hooks, [status |-> "", chain |-> 0, original |-> Wanted.function,
                                      trampoline |-> 0])
           /\ phase' = "parse"
  <2>1. PICK h : h = [status |-> "", chain |-> 0, original |-> Wanted.function, trampoline |-> 0]
    OBVIOUS
  <2>2. h \in HookData /\ h.original = Wanted.function
    BY <1>2, <2>1 DEF HookData, Statuses
  <2>3. hooks' = Append(hooks, h)
    BY <1>3, <2>1
  <2>4. /\ hooks' \in Seq(HookData) /\ Len(hooks') = Len(hooks) + 1 /\ Len(hooks') > 0
        /\ hooks'[Len(hooks')] = h
    BY <1>1, <2>2, <2>3
  <2>5. Current' = h
    BY <2>4 DEF Current
  <2> QED BY <1>1, <1>2, <1>3, <2>2, <2>4, <2>5 DEF IInv
<1>4. CASE /\ hooks' = Append(hooks, [status |-> "ErrSymbolNotFoundInSelf", chain |-> 0,
                                      original |-> 0, trampoline |-> 0])
           /\ UNCHANGED phase
  <2>1. [status |-> "ErrSymbolNotFoundInSelf", chain |-> 0, original |-> 0, trampoline |-> 0]
          \in HookData
    BY DEF HookData, Statuses
  <2>2. hooks' \in Seq(HookData)
    BY <1>1, <1>4, <2>1
  <2> QED BY <1>1, <1>4, <2>2 DEF IInv
<1> QED BY <1>3, <1>4 DEF Lookup

(* Nothing but the status is set before there is a trampoline. *)
LEMMA ParseOK ==
  ASSUME IInv, Parse
  PROVE  IInv'
<1>1. /\ program' = program /\ regions' = regions /\ phase = "parse"
  BY DEF Parse
<1>2. ASSUME NEW status \in Statuses, Returned(status) PROVE IInv'
  <2>1. phase' = "idle" /\ hooks' \in Seq(HookData)
    BY <1>1, <1>2, ReturnedOK
  <2> QED BY <1>1, <2>1 DEF IInv
<1>3. CASE phase' = "allocate" /\ UNCHANGED hooks
  <2>1. Current' = Current
    BY <1>3 DEF Current
  <2> QED BY <1>1, <1>3, <2>1 DEF IInv
<1>4. "ErrPrologueNotRecognised" \in Statuses /\ "ErrPrologueTooLarge" \in Statuses
  BY DEF Statuses
<1> QED BY <1>2, <1>3, <1>4 DEF Parse

(* The page for a trampoline is held by none, and becomes a region. *)
LEMMA AllocateOK ==
  ASSUME IInv, Allocate
  PROVE  IInv'
<1>1. /\ phase = "allocate" /\ program' = program
      /\ hooks \in Seq(HookData) /\ Len(hooks) > 0 /\ Len(hooks) \in DOMAIN hooks
      /\ regions \in Seq(Region) /\ InOrder(regions)
      /\ (Current.original + 1) % PageSize # 0
  BY DEF IInv, Allocate
<1>2. Current \in HookData /\ Current.original \in Nat
  <2>1. Current \in HookData
    BY <1>1 DEF Current
  <2> QED BY <2>1 DEF HookData
<1>3. PICK target \in Nat : target = Current.original
  BY <1>2
<1>4. PICK page : page = FreePage(target)
  OBVIOUS
<1>5. CASE /\ CanMap(page, target)
           /\ regions' = Mapped(page)
           /\ hooks' = [hooks EXCEPT ![Len(hooks)].trampoline = page + 4]
           /\ phase' = "prepare"
  <2>1. Walked(page, Len(regions), regions, target)
    BY <1>1, <1>4, FreeIsWalked
  <2>2. page \in Nat /\ page % PageSize = 0
    BY <1>5, <2>1 DEF Walked, CanMap
  <2>3. \A k \in DOMAIN regions : regions[k].high <= page \/ page < regions[k].low
    <3> SUFFICES ASSUME NEW k \in DOMAIN regions
                 PROVE  regions[k].high <= page \/ page < regions[k].low
      OBVIOUS
    <3>1. Len(regions) \in Nat /\ k \in 1..Len(regions)
      BY <1>1
    <3> QED BY <1>1, <1>3, <1>5, <2>1, <3>1, HeldByNone
  <2>4. /\ regions' \in Seq(Region) /\ InOrder(regions')
        /\ \E k \in DOMAIN regions' : regions'[k].low = page
    BY <1>1, <1>5, <2>2, <2>3, MappedOK
  <2>5. PICK h \in HookData : h = [Current EXCEPT !.trampoline = page + 4]
    <3>1. page + 4 \in Nat
      BY <2>2
    <3> QED BY <1>2, <3>1, WithField
  <2>6. h.trampoline = page + 4
    BY <1>2, <2>2, <2>5, WithField
  <2>7. hooks' = [hooks EXCEPT ![Len(hooks)] = h]
    BY <1>5, <2>5 DEF Current
  <2>8. hooks' \in Seq(HookData) /\ Len(hooks') = Len(hooks) /\ hooks'[Len(hooks')] = h
    BY <1>1, <2>7
  <2>9. Current'.trampoline - 4 = page
    BY <2>2, <2>6, <2>8 DEF Current
  <2>10. InOrder(regions)'
    BY <2>4 DEF InOrder
  <2> QED BY <1>1, <1>5, <2>4, <2>8, <2>9, <2>10 DEF IInv
<1>6. CASE Returned("ErrAllocateTrampoline") /\ UNCHANGED <<regions, memory>>
  <2>1. phase' = "idle" /\ hooks' \in Seq(HookData)
    BY <1>1, <1>6, ReturnedOK DEF Statuses
  <2> QED BY <1>1, <1>6, <2>1 DEF IInv
<1> QED BY <1>3, <1>4, <1>5, <1>6 DEF Allocate

(* The trampoline is filled where it is. *)
LEMMA PrepareOK ==
  ASSUME IInv, Prepare
  PROVE  IInv'
<1>1. /\ phase = "prepare" /\ phase' = "protect" /\ program' = program /\ regions' = regions
      /\ hooks \in Seq(HookData) /\ Len(hooks) > 0 /\ Len(hooks) \in DOMAIN hooks
      /\ hooks' = [hooks EXCEPT ![Len(hooks)].chain = Current.trampoline + 2]
  BY DEF IInv, Prepare
<1>2. Current \in HookData /\ Current.trampoline \in Nat
  <2>1. Current \in HookData
    BY <1>1 DEF Current
  <2> QED BY <2>1 DEF HookData
<1>3. PICK h \in HookData : h = [Current EXCEPT !.chain = Current.trampoline + 2]
  <2>1. Current.trampoline + 2 \in Nat
    BY <1>2
  <2> QED BY <1>2, <2>1, WithField
<1>4. h.trampoline = Current.trampoline
  BY <1>2, <1>3, WithField
<1>5. hooks' = [hooks EXCEPT ![Len(hooks)] = h]
  BY <1>1, <1>3 DEF Current
<1>6. hooks' \in Seq(HookData) /\ Len(hooks') = Len(hooks) /\ hooks'[Len(hooks')] = h
  BY <1>1, <1>5
<1>7. Current'.trampoline = Current.trampoline
  BY <1>4, <1>6 DEF Current
<1> QED BY <1>1, <1>6, <1>7 DEF IInv

(* The trampoline's region is found, and only that one goes. *)
LEMMA ReleaseOK ==
  ASSUME IInv, Release
  PROVE  IInv'
<1>1. /\ phase = "protect" /\ program' = program
      /\ regions \in Seq(Region) /\ InOrder(regions)
      /\ \E k \in DOMAIN regions : regions[k].low = Current.trampoline - 4
      /\ Returned("ErrMemoryProtection")
  BY DEF IInv, Release
<1>2. PICK j : j = CHOOSE k \in DOMAIN regions : regions[k].low = Current.trampoline - 4
  OBVIOUS
<1>3. j \in DOMAIN regions
  BY <1>1, <1>2, Zenon
<1>4. regions' = RemoveAt(regions, j)
  BY <1>2 DEF Release
<1>5. regions' \in Seq(Region) /\ InOrder(regions')
  BY <1>1, <1>3, <1>4, RemovedOK
<1>6. InOrder(regions)'
  BY <1>5 DEF InOrder
<1>7. phase' = "idle" /\ hooks' \in Seq(HookData)
  BY <1>1, ReturnedOK DEF Statuses
<1> QED BY <1>1, <1>5, <1>6, <1>7 DEF IInv

(* The function is overwritten; no region changes. *)
LEMMA PatchOK ==
  ASSUME IInv, Patch
  PROVE  IInv'
<1>1. /\ phase = "protect" /\ program' = program /\ regions' = regions /\ Returned("Success")
  BY DEF Patch
<1>2. phase' = "idle" /\ hooks' \in Seq(HookData)
  BY <1>1, ReturnedOK DEF Statuses
<1> QED BY <1>1, <1>2 DEF IInv

(* Every program keeps its memory: whichever functions are hooked, and        *)
(* whatever fails, no trampoline takes a page that is in use.                 *)
THEOREM PagesNotReplaced == Spec => []NothingReplaced
<1>1. Init => IInv
  BY InitOK
<1>2. IInv /\ [Next]_vars => IInv'
  <2> SUFFICES ASSUME IInv, [Next]_vars PROVE IInv'
    OBVIOUS
  <2>1. CASE UNCHANGED vars
    <3>1. Current' = Current
      BY <2>1 DEF vars, Current
    <3> QED BY <2>1, <3>1 DEF vars, IInv, InOrder
  <2>2. CASE Next
    BY <2>2, SkipOK, LookupOK, ParseOK, AllocateOK, PrepareOK, ReleaseOK, PatchOK DEF Next
  <2> QED BY <2>1, <2>2
<1>3. IInv => NothingReplaced
  BY OrderSuffices DEF IInv
<1> QED BY <1>1, <1>2, <1>3, PTL DEF Spec
==============================================================================
