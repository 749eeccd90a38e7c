--------------------------- MODULE ProbingProofs ----------------------------
(***************************************************************************)
(* Why quadratic probing ends: in a table of prime size n the first        *)
(* (n+1)/2 places of a probing sequence are different from each other, so  *)
(* in a table less than half full one of them is not full.                 *)
(***************************************************************************)
EXTENDS Probing, FiniteSetTheorems, WellFoundedInduction, TLAPS

(* A set of natural numbers that is not empty has a least element.          *)
LEMMA LeastElement ==
  ASSUME NEW S \in SUBSET Nat, S # {}
  PROVE  Least(S) \in S /\ \A y \in S : Least(S) <= y
<1> DEFINE R == StrictSubsetOrdering(Nat)
           T == {0..x : x \in S}
<1>1. IsWellFoundedOn(R, FiniteSubsetsOf(Nat))
  BY FS_StrictSubsetOrderingWellFounded
<1>2. \A x \in S : 0..x \in FiniteSubsetsOf(Nat)
  BY FS_Interval DEF FiniteSubsetsOf
<1>3. T \subseteq FiniteSubsetsOf(Nat) /\ T # {}
  BY <1>2
<1>4. \E t \in T : \A u \in T : <<u, t>> \notin R
  <2> HIDE DEF R, T
  <2> QED
    BY <1>1, <1>3, WFMin
<1>5. PICK x \in S : \A y \in S : <<0..y, 0..x>> \notin R
  BY <1>4
<1>6. ASSUME NEW y \in S, y < x
      PROVE  FALSE
  <2>1. 0..y \subseteq 0..x /\ 0..y # 0..x
    <3>1. x \in 0..x /\ x \notin 0..y
      BY <1>6
    <3> QED
      BY <3>1, <1>6
  <2>2. 0..y \in SUBSET Nat /\ 0..x \in SUBSET Nat
    OBVIOUS
  <2>3. <<0..y, 0..x>> \in R
    BY <2>1, <2>2, Zenon DEF StrictSubsetOrdering
  <2> QED
    BY <2>3, <1>5, <1>6
<1>7. \A y \in S : x <= y
  BY <1>6
<1> QED
  BY <1>7 DEF Least

(* map_prime() answers a size bigger than n, and none in between.           *)
LEMMA MapPrime ==
  ASSUME NEW n \in Nat, n < LargestSize
  PROVE  /\ map_prime(n) \in Sizes
         /\ n < map_prime(n)
<1> DEFINE S == {s \in Sizes : n < s}
<1>1. LargestSize \in S /\ S \in SUBSET Nat
  BY SizesAssumption DEF Sizes, LargestSize
<1>2. Least(S) \in S /\ \A t \in S : Least(S) <= t
  BY <1>1, LeastElement
<1>3. \E s \in Sizes : n < s /\ \A t \in Sizes : n < t => s <= t
  BY <1>2
<1> QED
  BY <1>3 DEF map_prime

(* The facts about a size that the proofs use.                              *)
LEMMA SizeFacts ==
  ASSUME NEW n \in Sizes
  PROVE  /\ n \in Nat /\ n > 2
         /\ (n - 1) \div 2 \in Nat /\ n = 2 * ((n - 1) \div 2) + 1
         /\ \A x, y \in 1..n - 1 : (x * y) % n # 0
<1>1. PICK j \in 1..Len(sizes) : n = sizes[j]
  BY DEF Sizes
<1>2. n \in Nat /\ n > 2 /\ n % 2 = 1
  BY <1>1, SizesAssumption
<1>3. \A x, y \in 1..n - 1 : (x * y) % n # 0
  BY <1>1, SizesAssumption
<1>4. (n - 1) \div 2 \in Nat /\ n = 2 * ((n - 1) \div 2) + 1
  BY <1>2
<1> QED
  BY <1>2, <1>3, <1>4

(* Two primes of the table are not next to each other.                      *)
LEMMA SizeGap ==
  ASSUME NEW n \in Sizes, NEW m \in Sizes, n < m
  PROVE  n + 1 < m
BY SizeFacts

LEMMA PlaceType ==
  ASSUME NEW key \in Keys, NEW n \in Sizes, NEW idx \in Nat
  PROVE  Place(key, idx, n) \in 0..n - 1
<1>1. Hash[key] + idx * idx \in Nat
  BY HashAssumption
<1>2. (Hash[key] + idx * idx) % WORD \in Nat
  BY <1>1, HashAssumption
<1> QED
  BY <1>2, SizeFacts DEF Place

(* Equal remainders differ by a multiple of the modulus.                    *)
LEMMA SameRemainder ==
  ASSUME NEW n \in Nat \ {0}, NEW a \in Nat, NEW b \in Nat, a % n = b % n
  PROVE  (b - a) % n = 0
<1>1. a = n * (a \div n) + (a % n) /\ a \div n \in Int
  OBVIOUS
<1>2. b = n * (b \div n) + (b % n) /\ b \div n \in Int
  OBVIOUS
<1>3. b - a = n * ((b \div n) - (a \div n))
  BY <1>1, <1>2
<1>4. \A q \in Int : (n * q) % n = 0
  OBVIOUS
<1>5. (b \div n) - (a \div n) \in Int
  BY <1>1, <1>2
<1> QED
  BY <1>3, <1>4, <1>5, Zenon

(* The probing sequence does not come back to a place in its first half.    *)
LEMMA FirstHalfDistinct ==
  ASSUME NoWrap, NEW key \in Keys, NEW n \in Sizes,
         NEW a \in 0..(n - 1) \div 2, NEW b \in 0..(n - 1) \div 2, a < b
  PROVE  Place(key, a, n) # Place(key, b, n)
<1> DEFINE h == Hash[key]
<1>1. h \in Nat /\ n \in Nat \ {0}
  BY HashAssumption, SizeFacts
<1>2. ASSUME NEW x \in 0..n - 1
      PROVE  (h + x * x) % WORD = h + x * x
  <2>1. x * x <= (n - 1) * (n - 1) /\ x * x \in Nat
    BY <1>1
  <2>2. h + x * x < WORD
    BY <2>1, <1>1, SizeFacts, HashAssumption DEF NoWrap
  <2> QED
    BY <2>1, <2>2, <1>1, HashAssumption
<1>3. a \in 0..n - 1 /\ b \in 0..n - 1
  BY SizeFacts
<1>4. b - a \in 1..n - 1 /\ b + a \in 1..n - 1
  BY SizeFacts
<1>5. ((b - a) * (b + a)) % n # 0
  BY <1>4, SizeFacts
<1>6. (b - a) * (b + a) = (h + b * b) - (h + a * a)
  BY <1>1, <1>3
<1>7. h + a * a \in Nat /\ h + b * b \in Nat
  BY <1>1, <1>3
<1>8. (h + a * a) % n # (h + b * b) % n
  BY <1>1, <1>5, <1>6, <1>7, SameRemainder
<1> QED
  BY <1>2, <1>3, <1>8 DEF Place

(* In a table of prime size that is less than half full, probing for any    *)
(* key meets a place that is not full: the loops of query(), set() and      *)
(* dict_query() return before they run into assert_never().                 *)
THEOREM ProbingEnds ==
  ASSUME NoWrap, NEW key \in Keys, NEW n \in Sizes,
         NEW F \in SUBSET (0..n - 1), Cardinality(F) * 2 < n
  PROVE  \E idx \in 0..n - 1 : Place(key, idx, n) \notin F
<1> DEFINE h == (n - 1) \div 2
           f == [idx \in 0..h |-> Place(key, idx, n)]
<1>1. h \in Nat /\ n = 2 * h + 1
  BY SizeFacts
<1>2. IsFiniteSet(F) /\ Cardinality(F) \in Nat
  <2>1. n - 1 \in Int /\ 0 \in Int
    BY <1>1
  <2>2. IsFiniteSet(0..n - 1)
    BY <2>1, FS_Interval
  <2> QED
    BY <2>2, FS_Subset, FS_CardinalityType
<1>3. IsFiniteSet(0..h) /\ Cardinality(0..h) = h + 1
  BY <1>1, FS_Interval
<1>4. SUFFICES ASSUME \A idx \in 0..n - 1 : Place(key, idx, n) \in F
               PROVE  FALSE
  OBVIOUS
<1>5. f \in [0..h -> F]
  BY <1>1, <1>4
<1>6. Cardinality(F) < Cardinality(0..h)
  BY <1>1, <1>2, <1>3
<1>7. PICK x, y \in 0..h : x # y /\ f[x] = f[y]
  <2> HIDE DEF f, h
  <2> QED
    BY <1>2, <1>3, <1>5, <1>6, FS_PigeonHole
<1>8. Place(key, x, n) = Place(key, y, n)
  BY <1>7
<1>9. x < y \/ y < x
  BY <1>1, <1>7
<1> QED
  BY <1>8, <1>9, FirstHalfDistinct

(* Multiples of the modulus do not change a remainder.                      *)
LEMMA AddMultiple ==
  ASSUME NEW n \in Nat \ {0}, NEW a \in Int, NEW q \in Int
  PROVE  (a + n * q) % n = a % n
<1>1. PICK d, r \in Int : d = a \div n /\ r = a % n
  OBVIOUS
<1>2. a = n * d + r /\ 0 <= r /\ r < n
  BY <1>1
<1>3. a + n * q = n * (d + q) + r
  BY <1>2
<1>4. \A e \in Int : (n * e + r) % n = r
  BY <1>2
<1>5. PICK e \in Int : e = d + q
  OBVIOUS
<1>6. (a + n * q) % n = (n * e + r) % n
  BY <1>3, <1>5, Zenon
<1>7. (n * e + r) % n = r
  BY <1>4
<1> QED
  BY <1>1, <1>6, <1>7, Zenon

(* A probing sequence has no place that its first half has not ...          *)
LEMMA FirstHalfOnly ==
  ASSUME NoWrap, NEW key \in Keys, NEW n \in Sizes, NEW a \in 0..n - 1
  PROVE  \E b \in 0..(n - 1) \div 2 : Place(key, a, n) = Place(key, b, n)
<1>1. PICK h : h = (n - 1) \div 2
  OBVIOUS
<1>2. h \in Nat /\ n = 2 * h + 1 /\ n \in Nat \ {0}
  BY <1>1, SizeFacts
<1>3. CASE a <= h
  BY <1>1, <1>2, <1>3
<1>4. CASE a > h
  <2>1. PICK b : b = n - a
    OBVIOUS
  <2>2. b \in 0..h /\ b \in 0..n - 1 /\ a \in Nat
    BY <1>2, <1>4, <2>1
  <2>3. Hash[key] \in Nat
    BY HashAssumption
  <2>4. ASSUME NEW x \in 0..n - 1
        PROVE  (Hash[key] + x * x) % WORD = Hash[key] + x * x
    <3>1. x * x <= (n - 1) * (n - 1) /\ x * x \in Nat
      BY <1>2
    <3>2. Hash[key] + x * x < WORD
      BY <1>2, <2>3, <3>1, HashAssumption DEF NoWrap
    <3> QED
      BY <2>3, <3>1, <3>2, HashAssumption
  <2>5. Hash[key] + a * a = (Hash[key] + b * b) + n * (n - 2 * b)
    BY <1>2, <2>1, <2>2, <2>3
  <2>6. (Hash[key] + a * a) % n = (Hash[key] + b * b) % n
    <3>1. Hash[key] + b * b \in Int /\ n - 2 * b \in Int
      BY <1>2, <2>2, <2>3
    <3>2. PICK c, q \in Int : c = Hash[key] + b * b /\ q = n - 2 * b
      BY <3>1, Zenon
    <3>3. (c + n * q) % n = c % n
      BY <1>2, AddMultiple, Zenon
    <3> QED
      BY <2>5, <3>2, <3>3, Zenon
  <2> QED
    BY <1>1, <2>2, <2>4, <2>6 DEF Place
<1> QED
  BY <1>2, <1>3, <1>4

(* ... so places that are all on one make up at most that many.             *)
LEMMA HalfAtMost ==
  ASSUME NoWrap, NEW key \in Keys, NEW n \in Sizes, NEW F,
         \A p \in F : \E idx \in 0..n - 1 : p = Place(key, idx, n)
  PROVE  IsFiniteSet(F) /\ Cardinality(F) \in Nat /\ Cardinality(F) * 2 <= n + 1
<1>1. PICK h : h = (n - 1) \div 2
  OBVIOUS
<1>2. h \in Nat /\ n = 2 * h + 1
  BY <1>1, SizeFacts
<1> DEFINE R == {Place(key, b, n) : b \in 0..h}
           f == [b \in 0..h |-> Place(key, b, n)]
<1>3. IsFiniteSet(0..h) /\ Cardinality(0..h) = h + 1
  BY <1>2, FS_Interval
<1>4. f \in Surjection(0..h, R)
  BY DEF Surjection
<1>5. F \in SUBSET R
  <2> SUFFICES ASSUME NEW p \in F PROVE p \in R
    OBVIOUS
  <2>1. PICK idx \in 0..n - 1 : p = Place(key, idx, n)
    OBVIOUS
  <2> QED
    BY <1>1, <2>1, FirstHalfOnly
<1> HIDE DEF R, f
<1>6. IsFiniteSet(R) /\ Cardinality(R) <= h + 1
  BY <1>3, <1>4, FS_Surjection
<1>7. IsFiniteSet(F) /\ Cardinality(F) <= Cardinality(R)
  BY <1>5, <1>6, FS_Subset
<1>8. Cardinality(F) \in Nat /\ Cardinality(R) \in Nat
  BY <1>6, <1>7, FS_CardinalityType
<1> QED
  BY <1>2, <1>6, <1>7, <1>8
=============================================================================
