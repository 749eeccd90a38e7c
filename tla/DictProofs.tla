----------------------------- MODULE DictProofs -----------------------------
(***************************************************************************)
(* As long as no key is set twice a Dict never aborts and counts its keys, *)
(* for every set of keys whose hashes do not wrap around, every hash       *)
(* function and every list of odd primes.  Set twice or not, and wrapping  *)
(* around or not, it is a map as long as it has not aborted, and its       *)
(* buckets are counted: how many copies there are, that expanding has room *)
(* for them, and how many it takes to abort.                               *)
(***************************************************************************)
EXTENDS Dict, ProbingProofs

KeysIn(D) == {D.key[p] : p \in FullPlaces(D)}

IsDict(D) ==
  /\ D.alloc_size \in Sizes
  /\ D = [alloc_size |-> D.alloc_size, flag |-> D.flag,
          key |-> D.key, value |-> D.value]
  /\ D.flag \in [Places(D) -> {BUCKET_EMPTY, BUCKET_FULL}]
  /\ DOMAIN D.key = Places(D)
  /\ KeysIn(D) \subseteq Keys

(* No key has two buckets, and probing for it gets to its bucket.           *)
Reached(D) ==
  \A p \in FullPlaces(D) :
    /\ \A q \in FullPlaces(D) : D.key[q] = D.key[p] => q = p
    /\ \E idx \in Places(D) :
         /\ Place(D.key[p], idx, D.alloc_size) = p
         /\ \A j \in 0..idx-1 : D.flag[Place(D.key[p], j, D.alloc_size)] = BUCKET_FULL

(* A table with n keys, each in one bucket.                                 *)
HasKeys(D, n) ==
  /\ IsDict(D) /\ Reached(D)
  /\ n \in Nat /\ n = Cardinality(FullPlaces(D))
  /\ IsFiniteSet(KeysIn(D)) /\ n = Cardinality(KeysIn(D))

(* The arrays of a table and the places of a probing sequence.              *)
LEMMA DictFacts ==
  ASSUME NEW D, IsDict(D)
  PROVE  /\ D.alloc_size \in Sizes /\ D.alloc_size \in Nat /\ D.alloc_size > 2
         /\ IsFiniteSet(FullPlaces(D)) /\ Cardinality(FullPlaces(D)) \in Nat
         /\ FullPlaces(D) \subseteq Places(D) /\ Places(D) \subseteq Nat
         /\ \A k \in Keys : \A idx \in Places(D) :
              Place(k, idx, D.alloc_size) \in Places(D)
<1>1. D.alloc_size \in Sizes /\ D.alloc_size \in Nat /\ D.alloc_size > 2
  BY SizeFacts DEF IsDict
<1>2. FullPlaces(D) \subseteq Places(D)
  BY DEF FullPlaces
<1>3. IsFiniteSet(Places(D)) /\ Places(D) \subseteq Nat
  <2>1. D.alloc_size - 1 \in Int /\ 0 \in Int
    BY <1>1
  <2> QED
    BY <2>1, <1>1, FS_Interval DEF Places
<1>4. IsFiniteSet(FullPlaces(D)) /\ Cardinality(FullPlaces(D)) \in Nat
  BY <1>2, <1>3, FS_Subset, FS_CardinalityType
<1>5. ASSUME NEW k \in Keys, NEW idx \in Places(D)
      PROVE  Place(k, idx, D.alloc_size) \in Places(D)
  <2>1. idx \in Nat
    BY <1>3
  <2> QED
    BY <2>1, <1>1, PlaceType DEF Places
<1> QED
  BY <1>1, <1>2, <1>3, <1>4, <1>5

(* In a table that is less than half full set() and dict_query() meet an    *)
(* empty bucket, and before it the key if it is there.                      *)
LEMMA SearchEnds ==
  ASSUME NoWrap, NEW D, NEW n, HasKeys(D, n), n * 2 < D.alloc_size, NEW k \in Keys
  PROVE  /\ Empties(D, k) # {}
         /\ FirstEmpty(D, k) \in Places(D)
         /\ D.flag[Place(k, FirstEmpty(D, k), D.alloc_size)] = BUCKET_EMPTY
         /\ \A idx \in 0..FirstEmpty(D, k)-1 :
              D.flag[Place(k, idx, D.alloc_size)] = BUCKET_FULL
         /\ Has(D, k) <=> k \in KeysIn(D)
<1> DEFINE at(idx) == Place(k, idx, D.alloc_size)
           E       == Empties(D, k)
           f       == FirstEmpty(D, k)
<1>0. IsDict(D) /\ Reached(D) /\ n = Cardinality(FullPlaces(D))
  BY DEF HasKeys
<1>1. /\ D.alloc_size \in Sizes /\ D.alloc_size \in Nat
      /\ FullPlaces(D) \subseteq Places(D) /\ Places(D) \subseteq Nat
      /\ \A idx \in Places(D) : at(idx) \in Places(D)
      /\ \A p \in Places(D) : D.flag[p] \in {BUCKET_EMPTY, BUCKET_FULL}
  BY <1>0, DictFacts DEF IsDict
<1>2. E # {}
  <2>1. FullPlaces(D) \in SUBSET (0..D.alloc_size - 1)
    BY <1>1 DEF Places
  <2>2. PICK idx \in 0..D.alloc_size - 1 : at(idx) \notin FullPlaces(D)
    BY <2>1, <1>0, <1>1, ProbingEnds
  <2>3. idx \in Places(D) /\ D.flag[at(idx)] = BUCKET_EMPTY
    BY <2>2, <1>1 DEF Places, FullPlaces
  <2> QED
    BY <2>3 DEF Empties
<1>3. f = Least(E) /\ E \in SUBSET Nat
  BY <1>1, <1>2 DEF FirstEmpty, Empties
<1>4. f \in E /\ \A idx \in E : f <= idx
  BY <1>2, <1>3, LeastElement
<1>5. /\ \A idx \in E : idx \in Places(D) /\ D.flag[at(idx)] = BUCKET_EMPTY
      /\ \A idx \in Places(D) : D.flag[at(idx)] = BUCKET_EMPTY => idx \in E
  BY DEF Empties
<1>6. f \in Places(D) /\ f \in Nat /\ f < D.alloc_size /\ D.flag[at(f)] = BUCKET_EMPTY
  BY <1>1, <1>4, <1>5 DEF Places
<1> HIDE DEF f, E
<1>7. ASSUME NEW idx \in 0..f-1
      PROVE  idx \in Places(D) /\ at(idx) \in Places(D) /\ D.flag[at(idx)] = BUCKET_FULL
  <2>1. idx \in Places(D) /\ idx \in Nat /\ idx < f
    BY <1>1, <1>6 DEF Places
  <2>2. idx \notin E
    BY <2>1, <1>4, <1>6
  <2> QED
    BY <2>1, <2>2, <1>1, <1>5
<1>8. ASSUME Has(D, k) PROVE k \in KeysIn(D)
  <2>1. PICK idx \in 0..f-1 : D.key[at(idx)] = k
    BY <1>8 DEF Has, Hits, f
  <2> QED
    BY <2>1, <1>7 DEF KeysIn, FullPlaces
<1>9. ASSUME k \in KeysIn(D) PROVE Has(D, k)
  <2>1. PICK p \in FullPlaces(D) : D.key[p] = k
    BY <1>9 DEF KeysIn
  <2>2. PICK idx \in Places(D) :
          at(idx) = p /\ \A j \in 0..idx-1 : D.flag[at(j)] = BUCKET_FULL
    BY <2>1, <1>0 DEF Reached
  <2>3. D.flag[at(idx)] = BUCKET_FULL
    BY <2>1, <2>2 DEF FullPlaces
  <2>4. idx < f
    <3>1. idx \in Nat
      BY <2>2, <1>1
    <3>2. f # idx
      BY <2>3, <1>6 DEF BUCKET_EMPTY, BUCKET_FULL
    <3>3. ~(f < idx)
      BY <3>1, <2>2, <1>6 DEF BUCKET_EMPTY, BUCKET_FULL
    <3> QED
      BY <3>1, <3>2, <3>3, <1>6
  <2>5. idx \in 0..f-1
    BY <2>4, <2>2, <1>1, <1>6
  <2> QED
    BY <2>1, <2>2, <2>5 DEF Has, Hits, f
<1> QED
  BY <1>2, <1>6, <1>7, <1>8, <1>9 DEF f, E

(* set() of a key that is not there.                                        *)
LEMMA SetAdds ==
  ASSUME NoWrap, NEW D, NEW n, HasKeys(D, n), n * 2 < D.alloc_size,
         NEW k \in Keys, k \notin KeysIn(D), NEW v, NEW U, U = set(D, k, v)
  PROVE  /\ HasKeys(U, n + 1) /\ U.alloc_size = D.alloc_size
         /\ KeysIn(U) = KeysIn(D) \union {k}
<1> DEFINE f == FirstEmpty(D, k)
           p == Place(k, f, D.alloc_size)
<1>0. /\ IsDict(D) /\ Reached(D) /\ n \in Nat /\ n = Cardinality(FullPlaces(D))
      /\ IsFiniteSet(KeysIn(D)) /\ n = Cardinality(KeysIn(D))
  BY DEF HasKeys
<1>1. /\ f \in Places(D) /\ D.flag[p] = BUCKET_EMPTY
      /\ \A idx \in 0..f-1 : D.flag[Place(k, idx, D.alloc_size)] = BUCKET_FULL
  BY SearchEnds
<1>2. /\ D.alloc_size \in Nat /\ Places(D) \subseteq Nat
      /\ IsFiniteSet(FullPlaces(D)) /\ FullPlaces(D) \subseteq Places(D)
      /\ \A x \in Keys : \A idx \in Places(D) :
           Place(x, idx, D.alloc_size) \in Places(D)
  BY <1>0, DictFacts
<1>3. p \in Places(D)
  BY <1>1, <1>2
<1>4. /\ D = [alloc_size |-> D.alloc_size, flag |-> D.flag, key |-> D.key, value |-> D.value]
      /\ D.flag \in [Places(D) -> {BUCKET_EMPTY, BUCKET_FULL}]
      /\ DOMAIN D.key = Places(D) /\ KeysIn(D) \subseteq Keys
      /\ D.alloc_size \in Sizes
  BY <1>0 DEF IsDict
<1>5. PICK w : U = [D EXCEPT !.flag[p] = BUCKET_FULL, !.key[p] = k, !.value = w]
  BY DEF set
<1> HIDE DEF f, p
<1>6. /\ U.alloc_size = D.alloc_size /\ U.flag = [D.flag EXCEPT ![p] = BUCKET_FULL]
      /\ U.key = [D.key EXCEPT ![p] = k]
      /\ U = [alloc_size |-> U.alloc_size, flag |-> U.flag, key |-> U.key, value |-> U.value]
  BY <1>4, <1>5
<1>7. Places(U) = Places(D)
  BY <1>6 DEF Places
<1>8. p \notin FullPlaces(D) /\ FullPlaces(U) = FullPlaces(D) \union {p}
  BY <1>1, <1>3, <1>4, <1>6, <1>7 DEF FullPlaces, BUCKET_EMPTY, BUCKET_FULL, p
<1>9. U.key[p] = k /\ \A q \in FullPlaces(D) : U.key[q] = D.key[q]
  BY <1>2, <1>3, <1>4, <1>6, <1>8
<1>10. KeysIn(U) = KeysIn(D) \union {k}
  BY <1>8, <1>9 DEF KeysIn
<1>11. IsDict(U)
  BY <1>4, <1>6, <1>7, <1>10 DEF IsDict
<1>12. /\ Cardinality(FullPlaces(U)) = n + 1
       /\ IsFiniteSet(KeysIn(U)) /\ Cardinality(KeysIn(U)) = n + 1
  <2>1. Cardinality(FullPlaces(D) \union {p}) = n + 1
    BY <1>0, <1>2, <1>8, FS_AddElement
  <2>2. /\ IsFiniteSet(KeysIn(D) \union {k})
        /\ Cardinality(KeysIn(D) \union {k}) = n + 1
    BY <1>0, FS_AddElement
  <2> QED
    BY <2>1, <2>2, <1>8, <1>10
<1>13. ASSUME NEW x \in Keys, NEW idx \in Places(D),
              \A j \in 0..idx-1 : D.flag[Place(x, j, D.alloc_size)] = BUCKET_FULL
       PROVE  \A j \in 0..idx-1 : U.flag[Place(x, j, U.alloc_size)] = BUCKET_FULL
  <2>1. \A j \in 0..idx-1 : j \in Places(D)
    BY <1>2 DEF Places
  <2> QED
    BY <2>1, <1>2, <1>4, <1>6, <1>13
<1>14. Reached(U)
  <2>1. SUFFICES ASSUME NEW q \in FullPlaces(U)
                 PROVE  /\ \A r \in FullPlaces(U) : U.key[r] = U.key[q] => r = q
                        /\ \E idx \in Places(U) :
                             /\ Place(U.key[q], idx, U.alloc_size) = q
                             /\ \A j \in 0..idx-1 :
                                  U.flag[Place(U.key[q], j, U.alloc_size)] = BUCKET_FULL
    BY DEF Reached
  <2>2. \A r \in FullPlaces(D) : D.key[r] # k
    BY DEF KeysIn
  <2>3. \A r \in FullPlaces(U) : U.key[r] = U.key[q] => r = q
    BY <2>1, <2>2, <1>0, <1>8, <1>9 DEF Reached
  <2>4. CASE q = p
    <3>1. \A j \in 0..f-1 : U.flag[Place(k, j, U.alloc_size)] = BUCKET_FULL
      BY <1>1, <1>13
    <3> QED
      BY <2>3, <2>4, <3>1, <1>1, <1>6, <1>7, <1>9 DEF p
  <2>5. CASE q \in FullPlaces(D)
    <3>1. U.key[q] = D.key[q] /\ D.key[q] \in Keys
      BY <2>5, <1>4, <1>9 DEF KeysIn
    <3>2. PICK idx \in Places(D) :
            /\ Place(D.key[q], idx, D.alloc_size) = q
            /\ \A j \in 0..idx-1 : D.flag[Place(D.key[q], j, D.alloc_size)] = BUCKET_FULL
      BY <2>5, <1>0 DEF Reached
    <3> QED
      BY <3>1, <3>2, <2>3, <1>6, <1>7, <1>13
  <2> QED
    BY <2>1, <2>4, <2>5, <1>8
<1> QED
  BY <1>0, <1>6, <1>10, <1>11, <1>12, <1>14 DEF HasKeys

(* mem_calloc() of new buckets.                                             *)
LEMMA ZeroedDict ==
  ASSUME NEW n \in Sizes
  PROVE  HasKeys(Zeroed(n), 0) /\ Zeroed(n).alloc_size = n /\ KeysIn(Zeroed(n)) = {}
<1> DEFINE D == Zeroed(n)
<1>1. /\ D.alloc_size = n
      /\ D.flag = [p \in 0..n-1 |-> BUCKET_EMPTY]
      /\ D.key = [p \in 0..n-1 |-> NIL]
      /\ D = [alloc_size |-> D.alloc_size, flag |-> D.flag,
              key |-> D.key, value |-> D.value]
  BY DEF Zeroed
<1> HIDE DEF D
<1>2. FullPlaces(D) = {}
  BY <1>1 DEF FullPlaces, Places, BUCKET_EMPTY, BUCKET_FULL
<1>3. KeysIn(D) = {}
  BY <1>2 DEF KeysIn
<1>4. IsDict(D)
  BY <1>1, <1>3 DEF IsDict, Places
<1>5. Reached(D)
  BY <1>2 DEF Reached
<1>6. HasKeys(D, 0)
  BY <1>2, <1>3, <1>4, <1>5, FS_EmptySet DEF HasKeys
<1> QED
  BY <1>1, <1>3, <1>6 DEF D

-----------------------------------------------------------------------------
(***************************************************************************)
(* The inductive invariant: what holds until some key is set twice, and how*)
(* far the loop that expands has come.                                     *)
(***************************************************************************)
Copied == {p \in FullPlaces(data) : p < i}

Expanding ==
  /\ arg.key \in Keys /\ arg.key \notin KeysIn(data)
  /\ i \in 0..data.alloc_size
  /\ (size + 1) * 2 < new.alloc_size
  /\ HasKeys(new, Cardinality(Copied))
  /\ KeysIn(new) = {data.key[p] : p \in Copied}

OnceInv ==
  /\ pc \in {"idle", "expand"}
  /\ HasKeys(data, size) /\ size * 2 < data.alloc_size
  /\ pc = "expand" => Expanding

DictInv == again \in BOOLEAN /\ (~again => OnceInv)

(* A primed table is a table of primed parts.                               *)
LEMMA Primed ==
  /\ HasKeys(data, size)' <=> HasKeys(data', size')
  /\ HasKeys(new, Cardinality(Copied))' <=> HasKeys(new', Cardinality(Copied'))
  /\ KeysIn(data)' = KeysIn(data') /\ KeysIn(new)' = KeysIn(new')
  /\ Copied' = {p \in FullPlaces(data') : p < i'}
<1>1. /\ KeysIn(data)' = KeysIn(data') /\ KeysIn(new)' = KeysIn(new')
      /\ FullPlaces(data)' = FullPlaces(data') /\ FullPlaces(new)' = FullPlaces(new')
  BY DEF KeysIn, FullPlaces, Places
<1>2. /\ IsDict(data)' <=> IsDict(data')
      /\ IsDict(new)' <=> IsDict(new')
  BY <1>1 DEF IsDict, Places
<1>3. /\ Reached(data)' <=> Reached(data')
      /\ Reached(new)' <=> Reached(new')
  BY <1>1 DEF Reached, Places
<1> QED
  BY <1>1, <1>2, <1>3 DEF HasKeys, Copied

(* A new dictionary.                                                        *)
LEMMA InitInv == Init => DictInv
<1> SUFFICES ASSUME Init PROVE DictInv
  OBVIOUS
<1>1. map_prime(0) \in Sizes
  <2>1. LargestSize \in Sizes
    BY SizesAssumption DEF LargestSize, Sizes
  <2> QED
    BY <2>1, SizeFacts, MapPrime
<1>2. map_prime(0) \in Nat /\ map_prime(0) > 2
  BY <1>1, SizeFacts
<1>3. HasKeys(data, size) /\ data.alloc_size = map_prime(0)
  BY <1>1, ZeroedDict DEF Init
<1>4. pc = "idle" /\ size = 0 /\ again = FALSE
  BY DEF Init
<1>5. size * 2 < data.alloc_size
  BY <1>2, <1>3, <1>4
<1> QED
  BY <1>3, <1>4, <1>5 DEF DictInv, OnceInv

(* As long as no key was set twice every search ends.                       *)
LEMMA Searches ==
  ASSUME NoWrap, OnceInv, NEW k \in Keys
  PROVE  /\ ~QueryFails(data, k) /\ ~SetFails(data, k)
         /\ Has(data, k) <=> k \in KeysIn(data)
<1>1. HasKeys(data, size) /\ size * 2 < data.alloc_size
  BY DEF OnceInv
<1>2. Empties(data, k) # {} /\ (Has(data, k) <=> k \in KeysIn(data))
  BY <1>1, SearchEnds
<1> QED
  BY <1>2 DEF QueryFails, SetFails

(* dict_set() of a new key when the table is large enough.                  *)
LEMMA SetStep ==
  ASSUME NoWrap, DictInv, NEW k \in Keys, NEW v \in Values, Set(k, v)
  PROVE  DictInv'
<1>1. again' = (again \/ Has(data, k))
  BY DEF Set, SetsAgain
<1>2. CASE again'
  BY <1>1, <1>2 DEF DictInv
<1>3. CASE ~again'
  <2>1. OnceInv /\ ~Has(data, k) /\ again' = FALSE
    BY <1>1, <1>3 DEF DictInv
  <2>2. /\ pc = "idle" /\ pc' = "idle" /\ size' = size + 1
        /\ ~((size + 1) * 2 >= data.alloc_size)
        /\ data' = set(data, k, v)
    BY <2>1 DEF Set, MustExpand, Overwritten
  <2>3. /\ HasKeys(data, size) /\ size * 2 < data.alloc_size
        /\ size \in Nat /\ data.alloc_size \in Nat
    BY <2>1, DictFacts DEF OnceInv, HasKeys
  <2>4. k \notin KeysIn(data)
    BY <2>1, Searches
  <2>5. HasKeys(data', size + 1) /\ data'.alloc_size = data.alloc_size
    BY <2>2, <2>3, <2>4, SetAdds
  <2>6. OnceInv'
    BY <2>2, <2>3, <2>5, Primed DEF OnceInv
  <2> QED
    BY <2>1, <2>6 DEF DictInv
<1> QED
  BY <1>2, <1>3

(* dict_set() of a new key when the table is too small.                     *)
LEMMA StartStep ==
  ASSUME NoWrap, DictInv, NEW k \in Keys, NEW v \in Values, StartExpand(k, v)
  PROVE  DictInv'
<1>1. again' = (again \/ Has(data, k))
  BY DEF StartExpand, SetsAgain
<1>2. CASE again'
  BY <1>1, <1>2 DEF DictInv
<1>3. CASE ~again'
  <2> DEFINE n == map_prime(2 * (size + 1))
  <2>1. OnceInv /\ ~Has(data, k) /\ again' = FALSE
    BY <1>1, <1>3 DEF DictInv
  <2>2. /\ pc' = "expand" /\ size' = size /\ data' = data /\ i' = 0
        /\ 2 * (size + 1) < LargestSize /\ new' = Zeroed(n) /\ arg'.key = k
    BY <2>1 DEF StartExpand, Overwritten
  <2>3. /\ HasKeys(data, size) /\ size * 2 < data.alloc_size
        /\ size \in Nat /\ data.alloc_size \in Nat /\ IsDict(data)
    BY <2>1, DictFacts DEF OnceInv, HasKeys
  <2>4. k \notin KeysIn(data)
    BY <2>1, Searches
  <2>5. n \in Sizes /\ 2 * (size + 1) < n
    BY <2>2, <2>3, MapPrime
  <2>6. n \in Nat
    BY <2>5, SizeFacts
  <2> HIDE DEF n
  <2>7. HasKeys(new', 0) /\ new'.alloc_size = n /\ KeysIn(new') = {}
    BY <2>2, <2>5, ZeroedDict
  <2>8. Copied' = {} /\ Cardinality(Copied') = 0
    <3>1. \A p \in FullPlaces(data) : p \in Nat
      BY <2>3, DictFacts
    <3>2. Copied' = {p \in FullPlaces(data) : p < 0}
      BY <2>2, Primed
    <3>3. Copied' = {}
      BY <3>1, <3>2
    <3> QED
      BY <3>3, FS_EmptySet
  <2>9. Expanding'
    <3>1. KeysIn(new)' = {data'.key[p] : p \in Copied'}
      BY <2>7, <2>8, Primed
    <3>2. HasKeys(new, Cardinality(Copied))'
      BY <2>7, <2>8, Primed
    <3>3. (size' + 1) * 2 < new'.alloc_size /\ i' \in 0..data'.alloc_size
      BY <2>2, <2>3, <2>5, <2>6, <2>7
    <3>4. arg'.key \in Keys /\ arg'.key \notin KeysIn(data)'
      BY <2>2, <2>4, Primed
    <3> QED
      BY <3>1, <3>2, <3>3, <3>4 DEF Expanding
  <2>10. OnceInv'
    BY <2>2, <2>3, <2>9, Primed DEF OnceInv
  <2> QED
    BY <2>1, <2>10 DEF DictInv
<1> QED
  BY <1>2, <1>3

(* The old buckets that have been copied are some of them.                  *)
LEMMA CopiedFacts ==
  ASSUME OnceInv
  PROVE  /\ IsFiniteSet(Copied) /\ Cardinality(Copied) \in Nat
         /\ Copied \subseteq FullPlaces(data)
         /\ \A S \in SUBSET FullPlaces(data) : IsFiniteSet(S) /\ Cardinality(S) <= size
         /\ size \in Nat /\ data.alloc_size \in Nat
         /\ \A p \in FullPlaces(data) : p \in Nat /\ p < data.alloc_size
<1>1. /\ IsDict(data) /\ size \in Nat /\ size = Cardinality(FullPlaces(data))
  BY DEF OnceInv, HasKeys
<1>2. /\ IsFiniteSet(FullPlaces(data)) /\ data.alloc_size \in Nat
      /\ FullPlaces(data) \subseteq Places(data)
  BY <1>1, DictFacts
<1>3. \A p \in FullPlaces(data) : p \in Nat /\ p < data.alloc_size
  BY <1>2 DEF Places
<1>4. Copied \in SUBSET FullPlaces(data)
  BY DEF Copied
<1>5. ASSUME NEW S \in SUBSET FullPlaces(data)
      PROVE  IsFiniteSet(S) /\ Cardinality(S) <= size
  BY <1>1, <1>2, FS_Subset
<1> QED
  BY <1>1, <1>2, <1>3, <1>4, <1>5, FS_CardinalityType

(* One turn of the loop that expands.                                       *)
LEMMA ExpandStep ==
  ASSUME NoWrap, DictInv, Expand
  PROVE  DictInv'
<1>0. again' = again /\ again \in BOOLEAN
  BY DEF Expand, DictInv
<1>1. CASE again
  BY <1>0, <1>1 DEF DictInv
<1>2. CASE ~again
  <2> DEFINE k == data.key[i]
             n == Cardinality(Copied)
  <2>1. OnceInv
    BY <1>2 DEF DictInv
  <2>2. /\ pc = "expand" /\ pc' = pc /\ data' = data /\ size' = size /\ arg' = arg
        /\ i < data.alloc_size /\ i' = i + 1
        /\ new' = IF data.flag[i] = BUCKET_FULL THEN set(new, k, data.value[i]) ELSE new
    BY DEF Expand
  <2>3. /\ arg.key \in Keys /\ arg.key \notin KeysIn(data) /\ i \in 0..data.alloc_size
        /\ (size + 1) * 2 < new.alloc_size /\ HasKeys(new, n)
        /\ KeysIn(new) = {data.key[p] : p \in Copied}
    BY <2>1, <2>2 DEF OnceInv, Expanding
  <2>4. /\ IsFiniteSet(Copied) /\ n \in Nat /\ Copied \subseteq FullPlaces(data)
        /\ \A S \in SUBSET FullPlaces(data) : IsFiniteSet(S) /\ Cardinality(S) <= size
        /\ size \in Nat /\ data.alloc_size \in Nat
        /\ \A p \in FullPlaces(data) : p \in Nat /\ p < data.alloc_size
    BY <2>1, CopiedFacts
  <2>5. i \in Nat /\ i \in Places(data)
    BY <2>2, <2>3, <2>4 DEF Places
  <2>6. /\ HasKeys(data, size) /\ size * 2 < data.alloc_size
        /\ IsDict(data) /\ Reached(data)
    BY <2>1 DEF OnceInv, HasKeys
  <2>7. Copied' = {p \in FullPlaces(data) : p < i + 1}
    BY <2>2, Primed
  <2>8. SUFFICES /\ HasKeys(new', Cardinality(Copied'))
                 /\ new'.alloc_size = new.alloc_size
                 /\ KeysIn(new') = {data.key[p] : p \in Copied'}
    <3>1. HasKeys(new, Cardinality(Copied))' /\ KeysIn(new)' = KeysIn(new')
      BY <2>8, Primed
    <3>2. arg'.key \notin KeysIn(data)' /\ HasKeys(data, size)'
      BY <2>2, <2>3, <2>6, Primed
    <3>3. i' \in 0..data'.alloc_size
      BY <2>2, <2>4, <2>5
    <3>4. Expanding'
      BY <2>2, <2>3, <2>8, <3>1, <3>2, <3>3 DEF Expanding
    <3>5. OnceInv'
      BY <2>2, <2>6, <3>2, <3>4 DEF OnceInv
    <3> QED
      BY <1>0, <3>5 DEF DictInv
  <2>9. CASE data.flag[i] # BUCKET_FULL
    <3>1. new' = new /\ i \notin FullPlaces(data)
      BY <2>2, <2>9 DEF FullPlaces
    <3>2. \A p \in FullPlaces(data) : p < i + 1 <=> p < i
      BY <3>1, <2>4, <2>5
    <3>3. Copied' = Copied
      BY <3>2, <2>7 DEF Copied
    <3> QED
      BY <3>1, <3>3, <2>3
  <2>10. CASE data.flag[i] = BUCKET_FULL
    <3>1. i \in FullPlaces(data) /\ new' = set(new, k, data.value[i])
      BY <2>2, <2>5, <2>10 DEF FullPlaces
    <3>2. \A p \in FullPlaces(data) : p < i + 1 <=> p < i \/ p = i
      BY <2>4, <2>5
    <3>3. Copied' = Copied \union {i} /\ i \notin Copied
      <4>1. Copied' = {p \in FullPlaces(data) : p < i \/ p = i}
        BY <3>2, <2>7
      <4>2. ~(i < i)
        BY <2>5
      <4> QED
        BY <4>1, <4>2, <3>1, Zenon DEF Copied
    <3>4. Cardinality(Copied') = n + 1
      BY <3>3, <2>4, FS_AddElement
    <3>5. n + 1 <= size
      <4>1. Copied' \in SUBSET FullPlaces(data)
        BY <3>1, <3>3, <2>4
      <4> QED
        BY <4>1, <3>4, <2>4
    <3>6. k \in Keys
      BY <3>1, <2>6 DEF IsDict, KeysIn
    <3>7. k \notin KeysIn(new)
      <4>1. \A p \in Copied : data.key[p] # k
        BY <3>1, <3>3, <2>4, <2>6 DEF Reached
      <4> QED
        BY <4>1, <2>3
    <3>8. n * 2 < new.alloc_size /\ new.alloc_size \in Nat
      <4>1. new.alloc_size \in Nat
        BY <2>3, DictFacts DEF HasKeys
      <4> QED
        BY <4>1, <3>5, <2>3, <2>4
    <3> HIDE DEF k, n
    <3>9. /\ HasKeys(new', n + 1) /\ new'.alloc_size = new.alloc_size
          /\ KeysIn(new') = KeysIn(new) \union {k}
      BY <3>1, <3>6, <3>7, <3>8, <2>3, SetAdds
    <3>10. KeysIn(new') = {data.key[p] : p \in Copied'}
      BY <3>3, <3>9, <2>3 DEF k
    <3> QED
      BY <3>4, <3>9, <3>10
  <2> QED
    BY <2>9, <2>10
<1> QED
  BY <1>0, <1>1, <1>2

(* The end of dict_set() after it has expanded the table.                   *)
LEMMA EndStep ==
  ASSUME NoWrap, DictInv, EndExpand
  PROVE  DictInv'
<1>0. again' = again /\ again \in BOOLEAN
  BY DEF EndExpand, DictInv
<1>1. CASE again
  BY <1>0, <1>1 DEF DictInv
<1>2. CASE ~again
  <2>1. OnceInv
    BY <1>2 DEF DictInv
  <2>2. /\ pc = "expand" /\ pc' = "idle" /\ size' = size + 1 /\ i = data.alloc_size
        /\ data' = set(new, arg.key, arg.value)
    BY DEF EndExpand
  <2>3. /\ arg.key \in Keys /\ arg.key \notin KeysIn(data)
        /\ (size + 1) * 2 < new.alloc_size /\ HasKeys(new, Cardinality(Copied))
        /\ KeysIn(new) = {data.key[p] : p \in Copied}
    BY <2>1, <2>2 DEF OnceInv, Expanding
  <2>4. Copied = FullPlaces(data)
    <3>1. \A p \in FullPlaces(data) : p < data.alloc_size
      BY <2>1, CopiedFacts
    <3> QED
      BY <3>1, <2>2 DEF Copied
  <2>5. size \in Nat /\ size = Cardinality(FullPlaces(data))
    BY <2>1 DEF OnceInv, HasKeys
  <2>6. HasKeys(new, size) /\ arg.key \notin KeysIn(new)
    BY <2>3, <2>4, <2>5 DEF KeysIn
  <2>7. new.alloc_size \in Nat
    BY <2>6, DictFacts DEF HasKeys
  <2>8. size * 2 < new.alloc_size
    BY <2>3, <2>5, <2>7
  <2>9. HasKeys(data', size + 1) /\ data'.alloc_size = new.alloc_size
    BY <2>2, <2>3, <2>6, <2>8, SetAdds
  <2>10. OnceInv'
    BY <2>2, <2>3, <2>9, Primed DEF OnceInv
  <2> QED
    BY <1>0, <2>10 DEF DictInv
<1> QED
  BY <1>0, <1>1, <1>2

(* A step that changes nothing of the table.                                *)
LEMMA SameTable ==
  ASSUME DictInv, UNCHANGED <<pc, data, size, new, i, arg, again>>
  PROVE  DictInv'
<1>1. CASE again
  BY <1>1 DEF DictInv
<1>2. CASE ~again
  <2>1. OnceInv
    BY <1>2 DEF DictInv
  <2>2. Copied' = Copied
    BY Primed DEF Copied
  <2>3. Expanding => Expanding'
    BY <2>2, Primed DEF Expanding
  <2> QED
    BY <2>1, <2>3, Primed DEF OnceInv, DictInv
<1> QED
  BY <1>1, <1>2 DEF DictInv

(* Every step keeps the invariant.                                          *)
LEMMA NextInv ==
  ASSUME NoWrap, DictInv, [Next]_vars
  PROVE  DictInv'
<1>1. ASSUME NEW k \in Keys, dict_query(k) PROVE DictInv'
  BY <1>1, SameTable DEF dict_query
<1>2. ASSUME NEW k \in Keys, QueryAborts(k) PROVE DictInv'
  <2>1. again' = again /\ again
    BY <1>2, Searches DEF QueryAborts, DictInv
  <2> QED
    BY <2>1 DEF DictInv
<1>3. ASSUME NEW k \in Keys, NEW v \in Values, SetAborts(k, v) PROVE DictInv'
  <2>1. again' = (again \/ Has(data, k)) /\ Fails(k, v)
    BY <1>3 DEF SetAborts, SetsAgain
  <2>2. again'
    <3>1. SUFFICES ASSUME ~again, ~Has(data, k) PROVE FALSE
      BY <2>1
    <3>2. ~QueryFails(data, k) /\ ~SetFails(data, k)
      BY <3>1, Searches DEF DictInv
    <3> QED
      BY <2>1, <3>1, <3>2 DEF Fails, Overwritten
  <2> QED
    BY <2>1, <2>2 DEF DictInv
<1>4. ASSUME NEW k \in Keys, NEW v \in Values, Set(k, v) PROVE DictInv'
  BY <1>4, SetStep
<1>5. ASSUME NEW k \in Keys, NEW v \in Values, StartExpand(k, v) PROVE DictInv'
  BY <1>5, StartStep
<1>6. CASE Expand
  BY <1>6, ExpandStep
<1>7. CASE EndExpand
  BY <1>7, EndStep
<1>8. CASE UNCHANGED vars
  BY <1>8, SameTable DEF vars
<1> QED
  BY <1>1, <1>2, <1>3, <1>4, <1>5, <1>6, <1>7, <1>8 DEF Next

(* The invariant holds of every behaviour.                                  *)
THEOREM Invariance == NoWrap => (Spec => []DictInv)
<1>1. CASE NoWrap
  <2>1. Init => DictInv
    BY InitInv
  <2>2. DictInv /\ [Next]_vars => DictInv'
    BY <1>1, NextInv
  <2> QED
    BY <2>1, <2>2, PTL DEF Spec
<1> QED
  BY <1>1

(* dict_set() and dict_query() do not run into assert_never() as long as no *)
(* key is set twice.                                                        *)
THEOREM OnceNeverAbortsCorrect == NoWrap => (Spec => []OnceNeverAborts)
<1>1. DictInv => OnceNeverAborts
  BY DEF DictInv, OnceInv, OnceNeverAborts, NeverAborts
<1> QED
  BY <1>1, Invariance, PTL

(* d->size is then the number of keys, and of buckets in use.               *)
THEOREM SizeCorrect == NoWrap => (Spec => []SizeCounts)
<1>1. DictInv => SizeCounts
  BY DEF DictInv, OnceInv, HasKeys, KeysIn, SizeCounts
<1> QED
  BY <1>1, Invariance, PTL
-----------------------------------------------------------------------------
(***************************************************************************)
(* Copies of a key agree, and the dictionary is a map, for every set of    *)
(* keys, every hash function and every list of sizes: whether the hashes   *)
(* wrap around and whether searches end does not matter here.              *)
(***************************************************************************)

(* Probing for the key of a bucket gets to the bucket.                      *)
Met(D) ==
  \A p \in FullPlaces(D) : \E idx \in Places(D) :
    /\ Place(D.key[p], idx, D.alloc_size) = p
    /\ \A j \in 0..idx-1 : D.flag[Place(D.key[p], j, D.alloc_size)] = BUCKET_FULL

Agree(D) ==
  \A p, q \in FullPlaces(D) : D.key[p] = D.key[q] => D.value[p] = D.value[q]

GoodDict(D) == IsDict(D) /\ DOMAIN D.value = Places(D) /\ Met(D) /\ Agree(D)

(* What probing for k meets: all of its copies, whose value is the answer.  *)
Probed(D, k) ==
  /\ FirstEmpty(D, k) \in 0..D.alloc_size
  /\ \A idx \in 0..FirstEmpty(D, k)-1 :
       D.flag[Place(k, idx, D.alloc_size)] = BUCKET_FULL
  /\ ~SetFails(D, k) =>
       /\ FirstEmpty(D, k) \in Places(D)
       /\ D.flag[Place(k, FirstEmpty(D, k), D.alloc_size)] = BUCKET_EMPTY
  /\ \A p : p \in Copies(D, k) <=> p \in FullPlaces(D) /\ D.key[p] = k
  /\ Has(D, k) <=> k \in KeysIn(D)
  /\ \A p \in FullPlaces(D) : D.key[p] = k => Found(D, k) = D.value[p]

LEMMA ProbeFacts ==
  ASSUME NEW D, GoodDict(D), NEW k \in Keys
  PROVE  Probed(D, k)
<1> DEFINE at(idx) == Place(k, idx, D.alloc_size)
           E       == Empties(D, k)
<1>0. PICK f, n : f = FirstEmpty(D, k) /\ n = D.alloc_size
  OBVIOUS
<1>1. /\ n \in Nat /\ n > 2 /\ Places(D) \subseteq Nat /\ Places(D) = 0..n-1
      /\ \A idx \in Places(D) : at(idx) \in Places(D)
      /\ \A p \in Places(D) : D.flag[p] \in {BUCKET_EMPTY, BUCKET_FULL}
      /\ FullPlaces(D) \subseteq Places(D)
  BY <1>0, DictFacts DEF GoodDict, IsDict, Places
<1>2. /\ \A idx \in E : idx \in Places(D) /\ D.flag[at(idx)] = BUCKET_EMPTY
      /\ \A idx \in Places(D) : D.flag[at(idx)] = BUCKET_EMPTY => idx \in E
  BY DEF Empties
<1>3. /\ E # {} => f \in E /\ \A idx \in E : f <= idx
      /\ E = {} => f = n
  <2>1. CASE E # {}
    <3>1. f = Least(E) /\ E \in SUBSET Nat
      BY <1>0, <1>1, <1>2, <2>1 DEF FirstEmpty
    <3> QED
      BY <2>1, <3>1, LeastElement
  <2>2. CASE E = {}
    BY <1>0, <2>2 DEF FirstEmpty
  <2> QED
    BY <2>1, <2>2
<1>4. f \in 0..n /\ f \in Nat
  BY <1>1, <1>2, <1>3
<1>5. ASSUME NEW idx \in 0..f-1
      PROVE  idx \in Places(D) /\ at(idx) \in Places(D) /\ D.flag[at(idx)] = BUCKET_FULL
  <2>1. idx \in Places(D) /\ idx \in Nat /\ idx < f
    BY <1>1, <1>4
  <2>2. idx \notin E
    BY <1>3, <1>4, <2>1
  <2> QED
    BY <1>1, <1>2, <2>1, <2>2
<1>6. ~SetFails(D, k) => f \in Places(D) /\ D.flag[at(f)] = BUCKET_EMPTY
  BY <1>2, <1>3 DEF SetFails
<1>7. ASSUME NEW p \in FullPlaces(D), D.key[p] = k
      PROVE  \E idx \in Hits(D, k) : at(idx) = p
  <2>1. PICK idx \in Places(D) :
          at(idx) = p /\ \A j \in 0..idx-1 : D.flag[at(j)] = BUCKET_FULL
    BY <1>7 DEF GoodDict, Met
  <2>2. D.flag[at(idx)] = BUCKET_FULL
    BY <2>1 DEF FullPlaces
  <2>3. idx < f
    <3> SUFFICES ASSUME ~(idx < f) PROVE FALSE
      OBVIOUS
    <3>1. idx \in Nat /\ idx < n
      BY <1>1, <2>1
    <3>2. E # {}
      BY <1>1, <1>3, <3>1
    <3>3. f \in E /\ f <= idx
      BY <1>3, <1>4, <3>1, <3>2
    <3>4. D.flag[at(f)] = BUCKET_EMPTY
      BY <1>2, <3>3
    <3>5. f # idx
      BY <2>2, <3>4 DEF BUCKET_EMPTY, BUCKET_FULL
    <3>6. f \in 0..idx-1
      BY <1>4, <3>1, <3>3, <3>5
    <3> QED
      BY <2>1, <3>4, <3>6 DEF BUCKET_EMPTY, BUCKET_FULL
  <2>4. idx \in 0..f-1
    BY <1>1, <1>4, <2>1, <2>3
  <2> QED
    BY <1>0, <1>7, <2>1, <2>4 DEF Hits
<1>8. ASSUME NEW idx \in Hits(D, k)
      PROVE  at(idx) \in FullPlaces(D) /\ D.key[at(idx)] = k /\ idx \in Nat
  <2>1. idx \in 0..f-1 /\ D.key[at(idx)] = k
    BY <1>0 DEF Hits
  <2> QED
    BY <1>4, <1>5, <2>1 DEF FullPlaces
<1>9. \A p : p \in Copies(D, k) <=> p \in FullPlaces(D) /\ D.key[p] = k
  BY <1>7, <1>8 DEF Copies
<1>10. Has(D, k) <=> k \in KeysIn(D)
  <2>1. Has(D, k) => k \in KeysIn(D)
    BY <1>8 DEF Has, KeysIn
  <2>2. k \in KeysIn(D) => Has(D, k)
    BY <1>7 DEF Has, KeysIn
  <2> QED
    BY <2>1, <2>2
<1>11. ASSUME NEW p \in FullPlaces(D), D.key[p] = k
       PROVE  Found(D, k) = D.value[p]
  <2>1. Hits(D, k) # {} /\ Hits(D, k) \in SUBSET Nat
    BY <1>7, <1>8, <1>11
  <2>2. Least(Hits(D, k)) \in Hits(D, k)
    BY <2>1, LeastElement
  <2>3. PICK q : q = at(Least(Hits(D, k)))
    OBVIOUS
  <2>4. q \in FullPlaces(D) /\ D.key[q] = k
    BY <1>8, <2>2, <2>3
  <2>5. Found(D, k) = D.value[q]
    BY <2>3 DEF Found
  <2> QED
    BY <1>11, <2>4, <2>5 DEF GoodDict, Agree
<1> QED
  BY <1>0, <1>4, <1>5, <1>6, <1>9, <1>10, <1>11 DEF Probed

(* set() that does not fail: the key has the value, and no other changes.   *)
Updated(D, k, v, U) ==
  /\ GoodDict(U) /\ U.alloc_size = D.alloc_size
  /\ KeysIn(U) = KeysIn(D) \union {k}
  /\ Found(U, k) = v
  /\ \A x \in KeysIn(D) : x # k => Found(U, x) = Found(D, x)

LEMMA SetUpdates ==
  ASSUME NEW D, GoodDict(D), NEW k \in Keys, ~SetFails(D, k), NEW v, NEW U, U = set(D, k, v)
  PROVE  Updated(D, k, v, U)
<1>0. PICK f, n : f = FirstEmpty(D, k) /\ n = D.alloc_size
  OBVIOUS
<1>a. PICK p : p = Place(k, f, n)
  OBVIOUS
<1>b. PICK C : C = Copies(D, k) \union {p}
  OBVIOUS
<1>1. Probed(D, k)
  BY ProbeFacts
<1>2. /\ f \in Places(D) /\ D.flag[p] = BUCKET_EMPTY
      /\ \A idx \in 0..f-1 : D.flag[Place(k, idx, n)] = BUCKET_FULL
      /\ \A q : q \in C <=> (q \in FullPlaces(D) /\ D.key[q] = k) \/ q = p
  BY <1>0, <1>1, <1>a, <1>b DEF Probed
<1>3. /\ n \in Nat /\ Places(D) \subseteq Nat /\ Places(D) = 0..n-1
      /\ FullPlaces(D) \subseteq Places(D)
      /\ \A x \in Keys : \A idx \in Places(D) : Place(x, idx, n) \in Places(D)
  BY <1>0, DictFacts DEF GoodDict, Places
<1>4. p \in Places(D)
  BY <1>2, <1>3, <1>a
<1>5. /\ D = [alloc_size |-> D.alloc_size, flag |-> D.flag, key |-> D.key, value |-> D.value]
      /\ D.flag \in [Places(D) -> {BUCKET_EMPTY, BUCKET_FULL}]
      /\ DOMAIN D.key = Places(D) /\ KeysIn(D) \subseteq Keys
      /\ n \in Sizes /\ DOMAIN D.value = Places(D)
  BY <1>0 DEF GoodDict, IsDict
<1>6. PICK w : w = [q \in Places(D) |-> IF q \in C THEN v ELSE D.value[q]]
  OBVIOUS
<1>7. U = [D EXCEPT !.flag[p] = BUCKET_FULL, !.key[p] = k, !.value = w]
  BY <1>0, <1>6, <1>a, <1>b DEF set
<1>c. D = [alloc_size |-> D.alloc_size, flag |-> D.flag, key |-> D.key, value |-> D.value]
  BY <1>5
<1>8. /\ U.alloc_size = n /\ U.flag = [D.flag EXCEPT ![p] = BUCKET_FULL]
      /\ U.key = [D.key EXCEPT ![p] = k] /\ U.value = w
      /\ U = [alloc_size |-> U.alloc_size, flag |-> U.flag, key |-> U.key, value |-> U.value]
  BY <1>0, <1>7, <1>c
<1>9. Places(U) = Places(D)
  BY <1>0, <1>8 DEF Places
<1>10. p \notin FullPlaces(D) /\ FullPlaces(U) = FullPlaces(D) \union {p}
  BY <1>2, <1>4, <1>5, <1>8, <1>9 DEF FullPlaces, BUCKET_EMPTY, BUCKET_FULL
<1>11. U.key[p] = k /\ \A q \in FullPlaces(D) : U.key[q] = D.key[q]
  BY <1>3, <1>4, <1>5, <1>8, <1>10
<1>12. KeysIn(U) = KeysIn(D) \union {k}
  BY <1>10, <1>11 DEF KeysIn
<1>13. IsDict(U) /\ DOMAIN U.value = Places(U)
  BY ZenonT(60), <1>5, <1>6, <1>8, <1>9, <1>12 DEF IsDict
<1>14. \A q \in FullPlaces(U) : U.value[q] = IF U.key[q] = k THEN v ELSE D.value[q]
  <2> SUFFICES ASSUME NEW q \in FullPlaces(U)
               PROVE  U.value[q] = IF U.key[q] = k THEN v ELSE D.value[q]
    OBVIOUS
  <2>1. q \in Places(D) /\ U.value[q] = IF q \in C THEN v ELSE D.value[q]
    BY <1>3, <1>4, <1>6, <1>8, <1>10
  <2>2. q \in C <=> U.key[q] = k
    BY <1>2, <1>10, <1>11
  <2> QED
    BY <2>1, <2>2
<1>15. Agree(U)
  <2> SUFFICES ASSUME NEW q \in FullPlaces(U), NEW r \in FullPlaces(U), U.key[q] = U.key[r]
               PROVE  U.value[q] = U.value[r]
    BY DEF Agree
  <2>1. CASE U.key[q] = k
    BY <1>14, <2>1
  <2>2. CASE U.key[q] # k
    <3>1. q \in FullPlaces(D) /\ r \in FullPlaces(D) /\ D.key[q] = D.key[r]
      BY <1>10, <1>11, <2>2
    <3>2. D.value[q] = D.value[r]
      BY <3>1 DEF GoodDict, Agree
    <3> QED
      BY <1>14, <2>2, <3>2
  <2> QED
    BY <2>1, <2>2
<1>16. ASSUME NEW x \in Keys, NEW idx \in Places(D),
              \A j \in 0..idx-1 : D.flag[Place(x, j, n)] = BUCKET_FULL
       PROVE  \A j \in 0..idx-1 : U.flag[Place(x, j, n)] = BUCKET_FULL
  <2>1. \A j \in 0..idx-1 : j \in Places(D)
    BY <1>3
  <2> QED
    BY <1>3, <1>5, <1>8, <1>16, <2>1
<1>17. Met(U)
  <2> SUFFICES ASSUME NEW q \in FullPlaces(U)
               PROVE  \E idx \in Places(D) :
                        /\ Place(U.key[q], idx, n) = q
                        /\ \A j \in 0..idx-1 : U.flag[Place(U.key[q], j, n)] = BUCKET_FULL
    BY <1>8, <1>9 DEF Met
  <2>1. CASE q = p
    <3>1. \A j \in 0..f-1 : U.flag[Place(k, j, n)] = BUCKET_FULL
      BY <1>2, <1>16
    <3> QED
      BY <1>2, <1>11, <1>a, <2>1, <3>1
  <2>2. CASE q \in FullPlaces(D)
    <3>1. U.key[q] = D.key[q] /\ D.key[q] \in Keys
      BY <1>5, <1>11, <2>2 DEF KeysIn
    <3>2. PICK idx \in Places(D) :
            /\ Place(D.key[q], idx, n) = q
            /\ \A j \in 0..idx-1 : D.flag[Place(D.key[q], j, n)] = BUCKET_FULL
      BY <1>0, <2>2 DEF GoodDict, Met
    <3> QED
      BY <1>16, <3>1, <3>2
  <2> QED
    BY <1>10, <2>1, <2>2
<1>18. GoodDict(U)
  BY <1>13, <1>15, <1>17 DEF GoodDict
<1>19. Found(U, k) = v
  <2>1. Probed(U, k)
    BY <1>18, ProbeFacts
  <2>2. Found(U, k) = U.value[p]
    BY <1>10, <1>11, <2>1 DEF Probed
  <2> QED
    BY <1>10, <1>11, <1>14, <2>2
<1>20. ASSUME NEW x \in KeysIn(D), x # k
       PROVE  Found(U, x) = Found(D, x)
  <2>1. PICK q \in FullPlaces(D) : D.key[q] = x
    BY DEF KeysIn
  <2>2. x \in Keys /\ q \in FullPlaces(U) /\ U.key[q] = x
    BY <1>5, <1>10, <1>11, <2>1
  <2>3. Probed(U, x) /\ Probed(D, x)
    BY <1>18, <2>2, ProbeFacts
  <2>4. Found(U, x) = U.value[q] /\ Found(D, x) = D.value[q]
    BY <2>1, <2>2, <2>3 DEF Probed
  <2> QED
    BY <1>14, <1>20, <2>2, <2>4
<1> QED
  BY <1>0, <1>8, <1>12, <1>18, <1>19, <1>20 DEF Updated

LEMMA ZeroedGood ==
  ASSUME NEW n \in Sizes
  PROVE  GoodDict(Zeroed(n)) /\ KeysIn(Zeroed(n)) = {}
<1>1. PICK D : D = Zeroed(n)
  OBVIOUS
<1>2. IsDict(D) /\ KeysIn(D) = {} /\ D.alloc_size = n
  BY <1>1, ZeroedDict DEF HasKeys
<1>3. DOMAIN D.value = Places(D)
  <2>1. D.value = [p \in 0..n-1 |-> NIL]
    BY <1>1 DEF Zeroed
  <2> QED
    BY <1>2, <2>1 DEF Places
<1>4. FullPlaces(D) = {}
  BY <1>2 DEF KeysIn
<1> QED
  BY <1>1, <1>2, <1>3, <1>4 DEF GoodDict, Met, Agree

-----------------------------------------------------------------------------
(* The inductive invariant: the table is good, and while it expands the new *)
(* one is, and has what has been moved.                                     *)
Moving ==
  /\ GoodDict(new) /\ i \in 0..data.alloc_size
  /\ arg.key \in Keys /\ arg.value \in Values
  /\ KeysIn(new) = {data.key[p] : p \in Copied}
  /\ \A x \in KeysIn(new) : Found(new, x) = Found(data, x)

CopyInv == GoodDict(data) /\ (pc = "expand" => Moving)

LEMMA PrimedGood ==
  /\ GoodDict(data)' <=> GoodDict(data')
  /\ GoodDict(new)' <=> GoodDict(new')
  /\ KeysIn(data)' = KeysIn(data') /\ KeysIn(new)' = KeysIn(new')
  /\ Copied' = {p \in FullPlaces(data') : p < i'}
<1>1. /\ KeysIn(data)' = KeysIn(data') /\ KeysIn(new)' = KeysIn(new')
      /\ FullPlaces(data)' = FullPlaces(data') /\ FullPlaces(new)' = FullPlaces(new')
  BY DEF KeysIn, FullPlaces, Places
<1>2. IsDict(data)' <=> IsDict(data')
  BY <1>1 DEF IsDict, Places
<1>3. IsDict(new)' <=> IsDict(new')
  BY <1>1 DEF IsDict, Places
<1>4. /\ Met(data)' <=> Met(data')
      /\ Met(new)' <=> Met(new')
  BY <1>1 DEF Met, Places
<1>5. /\ Agree(data)' <=> Agree(data')
      /\ Agree(new)' <=> Agree(new')
  BY <1>1 DEF Agree
<1> QED
  BY <1>1, <1>2, <1>3, <1>4, <1>5 DEF GoodDict, Copied, Places

LEMMA PrimedFound ==
  ASSUME NEW x
  PROVE  Found(data, x)' = Found(data', x) /\ Found(new, x)' = Found(new', x)
BY DEF Found, Hits, FirstEmpty, Empties, Places

LEMMA PrimedMoving ==
  ASSUME GoodDict(new'), i' \in 0..data'.alloc_size,
         arg'.key \in Keys, arg'.value \in Values,
         KeysIn(new') = {data'.key[p] : p \in Copied'},
         \A x \in KeysIn(new') : Found(new', x) = Found(data', x)
  PROVE  Moving'
BY PrimedGood, PrimedFound DEF Moving

(* dict_set() of a key that is there gives it the value, in the table that  *)
(* is used.                                                                 *)
LEMMA OverwrittenGood ==
  ASSUME GoodDict(data), NEW k \in Keys, NEW v, ~Fails(k, v)
  PROVE  /\ GoodDict(Overwritten(k, v))
         /\ Has(data, k) => Updated(data, k, v, Overwritten(k, v))
<1>1. CASE Has(data, k)
  <2>1. ~SetFails(data, k) /\ Overwritten(k, v) = set(data, k, v)
    BY <1>1 DEF Fails, Overwritten
  <2>2. Updated(data, k, v, Overwritten(k, v))
    BY <2>1, SetUpdates
  <2> QED
    BY <2>2 DEF Updated
<1>2. CASE ~Has(data, k)
  BY <1>2 DEF Overwritten
<1> QED
  BY <1>1, <1>2

(* Set(k, v): what the table is after it.                                   *)
LEMMA SetGives ==
  ASSUME GoodDict(data), NEW k \in Keys, NEW v \in Values, Set(k, v)
  PROVE  Updated(data, k, v, data')
<1>1. /\ ~Fails(k, v) /\ ~MustExpand /\ data' = set(Overwritten(k, v), k, v)
  BY DEF Set
<1>2. PICK O : O = Overwritten(k, v)
  OBVIOUS
<1>3. ~SetFails(O, k) /\ GoodDict(O)
  BY <1>1, <1>2, OverwrittenGood DEF Fails
<1>4. Updated(O, k, v, data')
  BY <1>1, <1>2, <1>3, SetUpdates
<1>5. CASE Has(data, k)
  <2>1. Updated(data, k, v, O)
    BY <1>1, <1>2, <1>5, OverwrittenGood
  <2> QED
    BY <1>4, <2>1 DEF Updated
<1>6. CASE ~Has(data, k)
  <2>1. O = data
    BY <1>2, <1>6 DEF Overwritten
  <2> QED
    BY <1>4, <2>1
<1> QED
  BY <1>5, <1>6

(* One turn of the loop that expands.                                       *)
LEMMA ExpandMoves ==
  ASSUME CopyInv, Expand
  PROVE  CopyInv'
<1>1. /\ pc = "expand" /\ pc' = pc /\ data' = data /\ arg' = arg
      /\ i < data.alloc_size /\ i' = i + 1
      /\ data.flag[i] = BUCKET_FULL => ~SetFails(new, data.key[i])
      /\ new' = IF data.flag[i] = BUCKET_FULL
                THEN set(new, data.key[i], data.value[i]) ELSE new
  BY DEF Expand
<1>2. /\ GoodDict(data) /\ GoodDict(new) /\ i \in 0..data.alloc_size
      /\ arg.key \in Keys /\ arg.value \in Values
      /\ KeysIn(new) = {data.key[p] : p \in Copied}
      /\ \A x \in KeysIn(new) : Found(new, x) = Found(data, x)
  BY <1>1 DEF CopyInv, Moving
<1>3. /\ data.alloc_size \in Nat /\ \A p \in FullPlaces(data) : p \in Nat
  BY <1>2, DictFacts DEF GoodDict
<1>4. i \in Nat /\ i \in Places(data) /\ i' \in 0..data'.alloc_size
  BY <1>1, <1>2, <1>3 DEF Places
<1>5. Copied' = {p \in FullPlaces(data) : p < i + 1}
  BY <1>1, PrimedGood
<1>6. SUFFICES /\ GoodDict(new')
               /\ KeysIn(new') = {data.key[p] : p \in Copied'}
               /\ \A x \in KeysIn(new') : Found(new', x) = Found(data, x)
  <2>1. Moving'
    BY <1>1, <1>2, <1>4, <1>6, PrimedMoving
  <2>2. GoodDict(data)'
    BY <1>1, <1>2, PrimedGood
  <2> QED
    BY <2>1, <2>2 DEF CopyInv
<1>7. CASE data.flag[i] # BUCKET_FULL
  <2>1. new' = new /\ i \notin FullPlaces(data)
    BY <1>1, <1>7 DEF FullPlaces
  <2>2. \A p \in FullPlaces(data) : p < i + 1 <=> p < i
    BY <1>3, <1>4, <2>1
  <2>3. Copied' = Copied
    BY <1>5, <2>2 DEF Copied
  <2> QED
    BY <1>2, <2>1, <2>3
<1>8. CASE data.flag[i] = BUCKET_FULL
  <2>1. PICK k, v : k = data.key[i] /\ v = data.value[i]
    OBVIOUS
  <2>2. i \in FullPlaces(data) /\ new' = set(new, k, v) /\ ~SetFails(new, k)
    BY <1>1, <1>4, <1>8, <2>1 DEF FullPlaces
  <2>3. k \in KeysIn(data) /\ k \in Keys
    BY <1>2, <2>1, <2>2 DEF GoodDict, IsDict, KeysIn
  <2>4. \A p \in FullPlaces(data) : p < i + 1 <=> p < i \/ p = i
    BY <1>3, <1>4
  <2>5. Copied' = Copied \union {i}
    <3>1. Copied' = {p \in FullPlaces(data) : p < i \/ p = i}
      BY <1>5, <2>4
    <3> QED
      BY <2>2, <3>1, Zenon DEF Copied
  <2>6. Updated(new, k, v, new')
    BY <1>2, <2>2, <2>3, SetUpdates
  <2>7. /\ GoodDict(new') /\ KeysIn(new') = KeysIn(new) \union {k} /\ Found(new', k) = v
        /\ \A x \in KeysIn(new) : x # k => Found(new', x) = Found(new, x)
    BY <2>6 DEF Updated
  <2>8. Found(data, k) = v
    <3>1. Probed(data, k)
      BY <1>2, <2>3, ProbeFacts
    <3> QED
      BY <2>1, <2>2, <3>1 DEF Probed
  <2>9. KeysIn(new') = {data.key[p] : p \in Copied'}
    BY <1>2, <2>1, <2>5, <2>7
  <2>10. \A x \in KeysIn(new') : Found(new', x) = Found(data, x)
    BY <1>2, <2>7, <2>8
  <2> QED
    BY <2>7, <2>9, <2>10
<1> QED
  BY <1>7, <1>8

(* At the end the new table has what the old one has, and the key.          *)
LEMMA EndGives ==
  ASSUME CopyInv, EndExpand
  PROVE  /\ arg.key \in Keys /\ arg.value \in Values
         /\ Updated(new, arg.key, arg.value, data')
         /\ KeysIn(new) = KeysIn(data)
         /\ \A x \in KeysIn(data) : Found(new, x) = Found(data, x)
<1>1. /\ pc = "expand" /\ i = data.alloc_size
      /\ ~SetFails(new, arg.key) /\ data' = set(new, arg.key, arg.value)
  BY DEF EndExpand
<1>2. /\ GoodDict(data) /\ GoodDict(new)
      /\ arg.key \in Keys /\ arg.value \in Values
      /\ KeysIn(new) = {data.key[p] : p \in Copied}
      /\ \A x \in KeysIn(new) : Found(new, x) = Found(data, x)
  BY <1>1 DEF CopyInv, Moving
<1>3. Copied = FullPlaces(data)
  <2>1. \A p \in FullPlaces(data) : p < data.alloc_size
    <3>1. data.alloc_size \in Nat /\ FullPlaces(data) \subseteq Places(data)
      BY <1>2, DictFacts DEF GoodDict
    <3> QED
      BY <3>1 DEF Places
  <2> QED
    BY <1>1, <2>1 DEF Copied
<1>4. KeysIn(new) = KeysIn(data)
  BY <1>2, <1>3 DEF KeysIn
<1>5. Updated(new, arg.key, arg.value, data')
  BY <1>1, <1>2, SetUpdates
<1> QED
  BY <1>2, <1>4, <1>5

LEMMA CopyInvInit == Init => CopyInv
<1> SUFFICES ASSUME Init PROVE CopyInv
  OBVIOUS
<1>1. map_prime(0) \in Sizes
  <2>1. LargestSize \in Sizes
    BY SizesAssumption DEF LargestSize, Sizes
  <2> QED
    BY <2>1, SizeFacts, MapPrime
<1>2. pc = "idle" /\ data = Zeroed(map_prime(0))
  BY DEF Init
<1> QED
  BY <1>1, <1>2, ZeroedGood DEF CopyInv

LEMMA SameCopies ==
  ASSUME CopyInv, UNCHANGED data, pc' # "expand" \/ UNCHANGED <<pc, new, i, arg>>
  PROVE  CopyInv'
<1>1. GoodDict(data)'
  BY PrimedGood DEF CopyInv
<1>2. CASE pc' # "expand"
  BY <1>1, <1>2 DEF CopyInv
<1>3. CASE UNCHANGED <<pc, new, i, arg>>
  <2>1. Copied' = Copied
    BY <1>3, PrimedGood DEF Copied
  <2>2. Moving => Moving'
    BY <1>3, <2>1, PrimedMoving DEF Moving
  <2> QED
    BY <1>1, <1>3, <2>2 DEF CopyInv
<1> QED
  BY <1>2, <1>3

LEMMA StartMoves ==
  ASSUME CopyInv, size \in Nat, NEW k \in Keys, NEW v \in Values, StartExpand(k, v)
  PROVE  CopyInv'
<1>1. PICK n : n = map_prime(2 * (size + 1))
  OBVIOUS
<1>2. /\ ~Fails(k, v) /\ 2 * (size + 1) < LargestSize /\ data' = Overwritten(k, v)
      /\ new' = Zeroed(n) /\ i' = 0 /\ arg' = [key |-> k, value |-> v]
  BY <1>1 DEF StartExpand
<1>3. n \in Sizes
  BY <1>1, <1>2, MapPrime
<1>4. GoodDict(data')
  BY <1>2, OverwrittenGood DEF CopyInv
<1>5. GoodDict(new') /\ KeysIn(new') = {}
  BY <1>2, <1>3, ZeroedGood
<1>6. data'.alloc_size \in Nat /\ \A p \in FullPlaces(data') : p \in Nat
  BY <1>4, DictFacts DEF GoodDict
<1>7. Copied' = {}
  <2>1. Copied' = {p \in FullPlaces(data') : p < 0}
    BY <1>2, PrimedGood
  <2> QED
    BY <1>6, <2>1
<1>8. i' \in 0..data'.alloc_size /\ arg'.key \in Keys /\ arg'.value \in Values
  BY <1>2, <1>6
<1>9. Moving'
  BY <1>5, <1>7, <1>8, PrimedMoving
<1> QED
  BY <1>4, <1>9, PrimedGood DEF CopyInv

(* size is a number: with it, the invariant is inductive.                   *)
CountedInv == CopyInv /\ size \in Nat

LEMMA CopyInvNext ==
  ASSUME CountedInv, [Next]_vars
  PROVE  CountedInv'
<1>0. CopyInv /\ size \in Nat
  BY DEF CountedInv
<1>1. ASSUME NEW k \in Keys, dict_query(k) PROVE CountedInv'
  BY <1>0, <1>1, SameCopies DEF dict_query, CountedInv
<1>2. ASSUME NEW k \in Keys, QueryAborts(k) PROVE CountedInv'
  BY <1>0, <1>2, SameCopies DEF QueryAborts, Abort, CountedInv
<1>3. ASSUME NEW k \in Keys, NEW v \in Values, SetAborts(k, v) PROVE CountedInv'
  BY <1>0, <1>3, SameCopies DEF SetAborts, Abort, CountedInv
<1>4. ASSUME NEW k \in Keys, NEW v \in Values, Set(k, v) PROVE CountedInv'
  <2>1. GoodDict(data')
    BY <1>0, <1>4, SetGives DEF CopyInv, Updated
  <2>2. pc' = "idle" /\ size' = size + 1
    BY <1>4 DEF Set
  <2> QED
    BY <1>0, <2>1, <2>2, PrimedGood DEF CopyInv, CountedInv
<1>5. ASSUME NEW k \in Keys, NEW v \in Values, StartExpand(k, v) PROVE CountedInv'
  <2>1. CopyInv'
    BY <1>0, <1>5, StartMoves
  <2> QED
    BY <1>0, <1>5, <2>1 DEF StartExpand, CountedInv
<1>6. CASE Expand
  <2>1. CopyInv'
    BY <1>0, <1>6, ExpandMoves
  <2> QED
    BY <1>0, <1>6, <2>1 DEF Expand, CountedInv
<1>7. CASE EndExpand
  <2>1. GoodDict(data')
    BY <1>0, <1>7, EndGives DEF Updated
  <2>2. pc' = "idle" /\ size' = size + 1
    BY <1>7 DEF EndExpand
  <2> QED
    BY <1>0, <2>1, <2>2, PrimedGood DEF CopyInv, CountedInv
<1>8. CASE UNCHANGED vars
  BY <1>0, <1>8, SameCopies DEF vars, CountedInv
<1> QED
  BY <1>1, <1>2, <1>3, <1>4, <1>5, <1>6, <1>7, <1>8 DEF Next

(* The table is good in every state, however often keys are set again.      *)
THEOREM CopiesInvariance == Spec => []CountedInv
<1>1. Init => CountedInv
  BY CopyInvInit DEF CountedInv, Init
<1>2. CountedInv /\ [Next]_vars => CountedInv'
  BY CopyInvNext
<1> QED
  BY <1>1, <1>2, PTL DEF Spec

(* The copies of a key that repeated dict_set()s pile up agree, and each is *)
(* met when the key is probed for: for every set of keys and hashes.        *)
THEOREM CopiesAgreeCorrect == Spec => []CopiesAgree
<1>1. CountedInv => CopiesAgree
  <2> SUFFICES ASSUME GoodDict(data), NEW p \in FullPlaces(data)
               PROVE  /\ p \in Copies(data, data.key[p])
                      /\ data.value[p] = Found(data, data.key[p])
    BY DEF CountedInv, CopyInv, CopiesAgree
  <2>1. data.key[p] \in Keys
    BY DEF GoodDict, IsDict, KeysIn
  <2>2. Probed(data, data.key[p])
    BY <2>1, ProbeFacts
  <2> QED
    BY <2>2 DEF Probed
<1> QED
  BY <1>1, CopiesInvariance, PTL

-----------------------------------------------------------------------------
(* The refinement.                                                          *)
LEMMA ContentsFacts ==
  ASSUME NEW D
  PROVE  /\ DOMAIN Contents(D) = KeysIn(D)
         /\ \A x \in KeysIn(D) : Contents(D)[x] = Found(D, x)
BY DEF Contents, KeysIn

LEMMA PrimedContents == Contents(data)' = Contents(data')
BY DEF Contents, Found, Hits, FirstEmpty, Empties, FullPlaces, Places

(* U has the key with the value, and else what D has.                       *)
Gains(D, k, v, U) ==
  /\ KeysIn(U) = KeysIn(D) \union {k} /\ Found(U, k) = v
  /\ \A x \in KeysIn(D) : x # k => Found(U, x) = Found(D, x)

(* The map m is the map c with the key set.                                 *)
IsSet(c, k, v, m) ==
  m = [x \in DOMAIN c \union {k} |-> IF x = k THEN v ELSE c[x]]

LEMMA UpdatedContents ==
  ASSUME NEW D, NEW U, NEW k, NEW v, Gains(D, k, v, U)
  PROVE  IsSet(Contents(D), k, v, Contents(U))
<1> USE DEF Gains, IsSet
<1>1. Contents(U) = [x \in KeysIn(U) |-> Found(U, x)]
  BY DEF Contents, KeysIn
<1>2. \A x \in KeysIn(U) : Found(U, x) = IF x = k THEN v ELSE Contents(D)[x]
  BY ContentsFacts
<1> QED
  BY <1>1, <1>2, ContentsFacts

LEMMA StepRefines ==
  ASSUME CountedInv, [Next]_vars
  PROVE  [Promise!Next]_<<Contents(data), rv>>
<1> USE DEF NoAnswer, Promise!NoAnswer
<1>0. CopyInv /\ GoodDict(data)
  BY DEF CountedInv, CopyInv
<1>u. ASSUME data' = data, rv' = rv PROVE UNCHANGED <<Contents(data), rv>>
  BY <1>u, PrimedContents
<1>s. ASSUME NEW k \in Keys, NEW v \in Values, rv' = NoAnswer, Gains(data, k, v, data')
      PROVE  Promise!Next
  <2>0. IsSet(Contents(data), k, v, Contents(data'))
    BY <1>s, UpdatedContents
  <2>1. Promise!Set(k, v)
    BY <1>s, <2>0, PrimedContents DEF Promise!Set, IsSet
  <2> QED
    BY <1>s, <2>1 DEF Promise!Next
<1>1. ASSUME NEW k \in Keys, dict_query(k) PROVE Promise!Next
  <2>1. /\ data' = data
        /\ rv' = [key |-> k, found |-> Has(data, k),
                  value |-> IF Has(data, k) THEN Found(data, k) ELSE NIL]
    BY <1>1 DEF dict_query
  <2>2. Probed(data, k)
    BY <1>0, ProbeFacts
  <2>3. Has(data, k) <=> k \in DOMAIN Contents(data)
    BY <2>2, ContentsFacts DEF Probed
  <2>4. Has(data, k) \in BOOLEAN /\ (k \in DOMAIN Contents(data)) \in BOOLEAN
    BY DEF Has
  <2>5. k \in DOMAIN Contents(data) => Contents(data)[k] = Found(data, k)
    BY ContentsFacts
  <2>6. rv' = [key |-> k, found |-> k \in DOMAIN Contents(data),
               value |-> IF k \in DOMAIN Contents(data) THEN Contents(data)[k] ELSE NIL]
    BY <2>1, <2>3, <2>4, <2>5
  <2>7. Promise!Query(k)
    BY <2>1, <2>6, PrimedContents DEF Promise!Query
  <2> QED
    BY <2>7 DEF Promise!Next
<1>2. ASSUME NEW k \in Keys, QueryAborts(k) PROVE UNCHANGED <<Contents(data), rv>>
  BY <1>2, <1>u DEF QueryAborts, Abort
<1>3. ASSUME NEW k \in Keys, NEW v \in Values, SetAborts(k, v)
      PROVE  UNCHANGED <<Contents(data), rv>>
  BY <1>3, <1>u DEF SetAborts, Abort
<1>4. ASSUME NEW k \in Keys, NEW v \in Values, Set(k, v) PROVE Promise!Next
  <2>1. Updated(data, k, v, data') /\ rv' = NoAnswer
    BY <1>0, <1>4, SetGives DEF Set
  <2>2. Gains(data, k, v, data')
    BY <2>1 DEF Updated, Gains
  <2> QED
    BY <1>s, <2>1, <2>2
<1>5. ASSUME NEW k \in Keys, NEW v \in Values, StartExpand(k, v)
      PROVE  [Promise!Next]_<<Contents(data), rv>>
  <2>1. /\ ~Fails(k, v) /\ data' = Overwritten(k, v)
        /\ rv' = IF Has(data, k) THEN NoAnswer ELSE rv
    BY <1>5 DEF StartExpand
  <2>2. CASE Has(data, k)
    <3>1. Updated(data, k, v, data') /\ rv' = NoAnswer
      BY <1>0, <2>1, <2>2, OverwrittenGood
    <3>2. Gains(data, k, v, data')
      BY <3>1 DEF Updated, Gains
    <3> QED
      BY <1>s, <3>1, <3>2
  <2>3. CASE ~Has(data, k)
    BY <1>u, <2>1, <2>3 DEF Overwritten
  <2> QED
    BY <2>2, <2>3
<1>6. ASSUME Expand PROVE UNCHANGED <<Contents(data), rv>>
  BY <1>6, <1>u DEF Expand
<1>7. ASSUME EndExpand PROVE Promise!Next
  <2>1. /\ arg.key \in Keys /\ arg.value \in Values
        /\ Updated(new, arg.key, arg.value, data')
        /\ KeysIn(new) = KeysIn(data)
        /\ \A x \in KeysIn(data) : Found(new, x) = Found(data, x)
    BY <1>0, <1>7, EndGives
  <2>2. Gains(data, arg.key, arg.value, data')
    BY <2>1 DEF Updated, Gains
  <2>3. rv' = NoAnswer
    BY <1>7 DEF EndExpand
  <2> QED
    BY <1>s, <2>1, <2>2, <2>3
<1>8. ASSUME UNCHANGED vars PROVE UNCHANGED <<Contents(data), rv>>
  BY <1>8, <1>u DEF vars
<1> QED
  BY <1>1, <1>2, <1>3, <1>4, <1>5, <1>6, <1>7, <1>8 DEF Next

(* A Dict is a map, whatever its keys hash to and however many copies of    *)
(* them there are: as long as it has not run into assert_never(),           *)
(* dict_query() answers the value last set, across expanding too.           *)
THEOREM MapRefinement == Spec => ImplementsMap
<1>1. Init => Promise!Init
  <2> SUFFICES ASSUME Init PROVE Promise!Init
    OBVIOUS
  <2>1. map_prime(0) \in Sizes
    <3>1. LargestSize \in Sizes
      BY SizesAssumption DEF LargestSize, Sizes
    <3> QED
      BY <3>1, SizeFacts, MapPrime
  <2>2. KeysIn(data) = {} /\ rv = NoAnswer
    BY <2>1, ZeroedGood DEF Init
  <2>3. Contents(data) = [k \in {} |-> NIL]
    BY <2>2 DEF Contents, KeysIn
  <2> QED
    BY <2>2, <2>3 DEF Promise!Init, NoAnswer, Promise!NoAnswer
<1>2. CountedInv /\ [Next]_vars => [Promise!Next]_<<Contents(data), rv>>
  BY StepRefines
<1> QED
  BY <1>1, <1>2, CopiesInvariance, PTL DEF Spec, ImplementsMap, Promise!Spec

-----------------------------------------------------------------------------
(* Until some key is set twice, every set() of an expansion finds an empty  *)
(* bucket.                                                                  *)
OnceExpandEnds == ~again => ExpandEnds

(* Expanding always succeeds until some key is set twice, in tables of any  *)
(* sizes.  ExpandEndsCorrect, below, is about Dicts with copies.            *)
THEOREM OnceExpandEndsCorrect == NoWrap => (Spec => []OnceExpandEnds)
<1>1. CASE NoWrap
  <2>1. DictInv => OnceExpandEnds
    <3> SUFFICES ASSUME OnceInv, pc = "expand"
                 PROVE  /\ i < data.alloc_size /\ data.flag[i] = BUCKET_FULL =>
                             ~SetFails(new, data.key[i])
                        /\ ~SetFails(new, arg.key)
      BY DEF DictInv, OnceExpandEnds, ExpandEnds
    <3>1. /\ arg.key \in Keys /\ i \in 0..data.alloc_size
          /\ (size + 1) * 2 < new.alloc_size /\ HasKeys(new, Cardinality(Copied))
      BY DEF OnceInv, Expanding
    <3>2. /\ Cardinality(Copied) \in Nat /\ Copied \in SUBSET FullPlaces(data)
          /\ \A S \in SUBSET FullPlaces(data) : IsFiniteSet(S) /\ Cardinality(S) <= size
          /\ size \in Nat /\ data.alloc_size \in Nat
      BY CopiedFacts
    <3>3. Cardinality(Copied) * 2 < new.alloc_size
      <4>1. new.alloc_size \in Nat /\ Cardinality(Copied) <= size
        BY <3>1, <3>2, DictFacts DEF HasKeys
      <4> QED
        BY <3>1, <3>2, <4>1
    <3>4. \A k \in Keys : ~SetFails(new, k)
      BY <1>1, <3>1, <3>3, SearchEnds DEF SetFails
    <3>5. ASSUME i < data.alloc_size, data.flag[i] = BUCKET_FULL
          PROVE  data.key[i] \in Keys
      <4>1. i \in FullPlaces(data)
        BY <3>1, <3>2, <3>5 DEF FullPlaces, Places
      <4> QED
        BY <4>1 DEF OnceInv, HasKeys, IsDict, KeysIn
    <3> QED
      BY <3>1, <3>4, <3>5
  <2> QED
    BY <1>1, <2>1, Invariance, PTL
<1> QED
  BY <1>1

-----------------------------------------------------------------------------
(***************************************************************************)
(* Room for the copies.  Of each key a dict_set() leaves one bucket more,  *)
(* or two if the key was there, so the buckets and the keys together are   *)
(* twice the number of dict_set()s.                                        *)
(***************************************************************************)
Full(D) == Cardinality(FullPlaces(D))

(* The keys of the table and the one that is being set.                     *)
Wanted == KeysIn(data) \union {arg.key}

Doubled(D, n) == Full(D) + Cardinality(KeysIn(D)) = 2 * n

Growing ==
  /\ Full(data) + Cardinality(Wanted) = 2 * size + 1
  /\ data.alloc_size < new.alloc_size
  /\ 2 * (size + 1) < new.alloc_size
  /\ Full(new) = Cardinality(Copied)

RoomInv ==
  /\ pc # "abort" => 2 * size < data.alloc_size
  /\ pc = "idle" => Doubled(data, size)
  /\ pc = "expand" => Growing

(* The keys of a table are finitely many.                                   *)
LEMMA KeysFinite ==
  ASSUME NEW D, IsDict(D)
  PROVE  /\ IsFiniteSet(FullPlaces(D)) /\ Full(D) \in Nat
         /\ IsFiniteSet(KeysIn(D)) /\ Cardinality(KeysIn(D)) \in Nat
<1>1. IsFiniteSet(FullPlaces(D)) /\ Full(D) \in Nat
  BY DictFacts DEF Full
<1> DEFINE f == [p \in FullPlaces(D) |-> D.key[p]]
<1>2. f \in Surjection(FullPlaces(D), KeysIn(D))
  BY DEF Surjection, KeysIn
<1> HIDE DEF f
<1>3. IsFiniteSet(KeysIn(D))
  BY <1>1, <1>2, FS_Surjection
<1> QED
  BY <1>1, <1>3, FS_CardinalityType

(* A set() that does not fail fills one bucket.                             *)
LEMMA SetFills ==
  ASSUME NEW D, GoodDict(D), NEW k \in Keys, ~SetFails(D, k), NEW v, NEW U, U = set(D, k, v)
  PROVE  Full(U) = Full(D) + 1
<1>1. PICK p, w : /\ p = Place(k, FirstEmpty(D, k), D.alloc_size)
                  /\ U = [D EXCEPT !.flag[p] = BUCKET_FULL, !.key[p] = k, !.value = w]
  BY DEF set
<1>2. p \in Places(D) /\ D.flag[p] = BUCKET_EMPTY
  <2>1. Probed(D, k)
    BY ProbeFacts
  <2>2. FirstEmpty(D, k) \in Places(D)
    BY <2>1 DEF Probed
  <2> QED
    BY <1>1, <2>1, <2>2, DictFacts DEF Probed, GoodDict
<1>3. /\ D = [alloc_size |-> D.alloc_size, flag |-> D.flag, key |-> D.key, value |-> D.value]
      /\ D.flag \in [Places(D) -> {BUCKET_EMPTY, BUCKET_FULL}]
  BY DEF GoodDict, IsDict
<1>4. U.alloc_size = D.alloc_size /\ U.flag = [D.flag EXCEPT ![p] = BUCKET_FULL]
  BY <1>1, <1>3
<1>5. p \notin FullPlaces(D) /\ FullPlaces(U) = FullPlaces(D) \union {p}
  <2>1. Places(U) = Places(D)
    BY <1>4 DEF Places
  <2> QED
    BY <1>2, <1>3, <1>4, <2>1 DEF FullPlaces, BUCKET_EMPTY, BUCKET_FULL
<1>6. IsFiniteSet(FullPlaces(D))
  BY KeysFinite DEF GoodDict
<1>7. Cardinality(FullPlaces(D) \union {p}) = Cardinality(FullPlaces(D)) + 1
  BY <1>5, <1>6, FS_AddElement
<1> QED
  BY <1>5, <1>7 DEF Full

(* So an Overwritten() table has one bucket more, or a key less.            *)
LEMMA OverwrittenFills ==
  ASSUME GoodDict(data), NEW k \in Keys, NEW v, ~Fails(k, v), NEW O, O = Overwritten(k, v)
  PROVE  /\ GoodDict(O) /\ O.alloc_size = data.alloc_size
         /\ KeysIn(O) \union {k} = KeysIn(data) \union {k}
         /\ Full(O) + Cardinality(KeysIn(O) \union {k})
              = Full(data) + Cardinality(KeysIn(data)) + 1
<1>1. GoodDict(O)
  BY OverwrittenGood
<1>2. /\ IsFiniteSet(KeysIn(data)) /\ Cardinality(KeysIn(data)) \in Nat
      /\ Full(data) \in Nat
  BY KeysFinite DEF GoodDict
<1>3. Has(data, k) <=> k \in KeysIn(data)
  BY ProbeFacts DEF Probed
<1>4. CASE Has(data, k)
  <2>1. ~SetFails(data, k) /\ O = set(data, k, v)
    BY <1>4 DEF Fails, Overwritten
  <2>2. Full(O) = Full(data) + 1
    BY <2>1, SetFills
  <2>3. Updated(data, k, v, O)
    BY <2>1, SetUpdates
  <2>4. KeysIn(O) \union {k} = KeysIn(data) /\ O.alloc_size = data.alloc_size
    BY <1>3, <1>4, <2>3 DEF Updated
  <2>5. KeysIn(data) \union {k} = KeysIn(data)
    BY <1>3, <1>4
  <2>6. Cardinality(KeysIn(O) \union {k}) = Cardinality(KeysIn(data))
    BY <2>4
  <2> QED
    BY <1>1, <1>2, <2>2, <2>4, <2>5, <2>6
<1>5. CASE ~Has(data, k)
  <2>1. O = data
    BY <1>5 DEF Overwritten
  <2>2. Cardinality(KeysIn(data) \union {k}) = Cardinality(KeysIn(data)) + 1
    BY <1>2, <1>3, <1>5, FS_AddElement
  <2> QED
    BY <1>1, <1>2, <2>1, <2>2
<1> QED
  BY <1>4, <1>5

(* A search ends in a table that is less than half full, copies or not.     *)
LEMMA SearchStops ==
  ASSUME NoWrap, NEW D, IsDict(D), NEW k \in Keys, Full(D) * 2 < D.alloc_size
  PROVE  ~SetFails(D, k)
<1>1. PICK n : n = D.alloc_size
  OBVIOUS
<1>2. n \in Sizes /\ FullPlaces(D) \in SUBSET (0..n - 1)
  BY <1>1 DEF IsDict, FullPlaces, Places
<1>3. PICK idx \in 0..n - 1 : Place(k, idx, n) \notin FullPlaces(D)
  BY <1>1, <1>2, ProbingEnds DEF Full
<1>4. idx \in Places(D) /\ Place(k, idx, n) \in Places(D)
  BY <1>1, <1>3, DictFacts DEF Places
<1>5. D.flag[Place(k, idx, n)] \in {BUCKET_EMPTY, BUCKET_FULL}
  BY <1>4 DEF IsDict
<1>6. idx \in Empties(D, k)
  BY <1>1, <1>3, <1>4, <1>5 DEF Empties, FullPlaces
<1> QED
  BY <1>6 DEF SetFails

(* A primed table is a table of primed parts.                               *)
LEMMA PrimedRoom ==
  /\ Full(data)' = Full(data') /\ Full(new)' = Full(new')
  /\ Doubled(data, size)' <=> Doubled(data', size')
  /\ Wanted' = KeysIn(data') \union {arg'.key}
<1>1. Full(data)' = Full(data') /\ Full(new)' = Full(new')
  BY DEF Full, FullPlaces, Places
<1> QED
  BY <1>1, PrimedGood DEF Doubled, Wanted

(* A new dictionary ...                                                     *)
LEMMA RoomInit == Init => RoomInv
<1> SUFFICES ASSUME Init PROVE RoomInv
  OBVIOUS
<1>1. map_prime(0) \in Sizes
  <2>1. LargestSize \in Sizes
    BY SizesAssumption DEF LargestSize, Sizes
  <2> QED
    BY <2>1, SizeFacts, MapPrime
<1>2. pc = "idle" /\ data = Zeroed(map_prime(0)) /\ size = 0
  BY DEF Init
<1>3. HasKeys(data, 0) /\ data.alloc_size = map_prime(0) /\ KeysIn(data) = {}
  BY <1>1, <1>2, ZeroedDict
<1>4. Full(data) = 0 /\ Cardinality(KeysIn(data)) = 0
  BY <1>3, FS_EmptySet DEF HasKeys, Full
<1>5. map_prime(0) \in Nat /\ map_prime(0) > 2
  BY <1>1, SizeFacts
<1> QED
  BY <1>2, <1>3, <1>4, <1>5 DEF RoomInv, Doubled

(* ... dict_set() when the table is large enough ...                        *)
LEMMA SetRoom ==
  ASSUME CountedInv, RoomInv, NEW k \in Keys, NEW v \in Values, Set(k, v)
  PROVE  RoomInv'
<1>1. /\ pc = "idle" /\ pc' = "idle" /\ ~Fails(k, v) /\ ~MustExpand
      /\ data' = set(Overwritten(k, v), k, v) /\ size' = size + 1
  BY DEF Set
<1>2. GoodDict(data) /\ size \in Nat /\ Doubled(data, size)
  BY <1>1 DEF CountedInv, CopyInv, RoomInv
<1>3. PICK O : O = Overwritten(k, v)
  OBVIOUS
<1>4. /\ GoodDict(O) /\ O.alloc_size = data.alloc_size
      /\ Full(O) + Cardinality(KeysIn(O) \union {k}) = Full(data) + Cardinality(KeysIn(data)) + 1
  BY <1>1, <1>2, <1>3, OverwrittenFills
<1>5. ~SetFails(O, k)
  BY <1>1, <1>3 DEF Fails
<1>6. Full(data') = Full(O) + 1
  BY <1>1, <1>3, <1>4, <1>5, SetFills
<1>7. KeysIn(data') = KeysIn(O) \union {k} /\ data'.alloc_size = O.alloc_size /\ IsDict(data')
  BY <1>1, <1>3, <1>4, <1>5, SetUpdates DEF Updated, GoodDict
<1>8. /\ Full(O) \in Nat /\ Cardinality(KeysIn(data')) \in Nat /\ data.alloc_size \in Nat
      /\ Full(data) \in Nat /\ Cardinality(KeysIn(data)) \in Nat
  BY <1>2, <1>4, <1>7, KeysFinite, DictFacts DEF GoodDict
<1>9. Doubled(data', size')
  <2>1. Full(data) + Cardinality(KeysIn(data)) = 2 * size
    BY <1>2 DEF Doubled
  <2>2. Full(O) + Cardinality(KeysIn(data')) = Full(data) + Cardinality(KeysIn(data)) + 1
    BY <1>4, <1>7
  <2> QED
    BY <1>1, <1>2, <1>6, <1>8, <2>1, <2>2 DEF Doubled
<1>10. 2 * size' < data'.alloc_size
  BY <1>1, <1>2, <1>4, <1>7, <1>8 DEF MustExpand
<1> QED
  BY <1>1, <1>9, <1>10, PrimedRoom DEF RoomInv

(* ... and when it is not: no later table than the next is too small for it. *)
LEMMA StartRoom ==
  ASSUME CountedInv, RoomInv, NEW k \in Keys, NEW v \in Values, StartExpand(k, v)
  PROVE  RoomInv'
<1>1. PICK n : n = map_prime(2 * (size + 1))
  OBVIOUS
<1>2. /\ pc = "idle" /\ pc' = "expand" /\ ~Fails(k, v) /\ MustExpand
      /\ 2 * (size + 1) < LargestSize /\ data' = Overwritten(k, v)
      /\ new' = Zeroed(n) /\ i' = 0 /\ arg' = [key |-> k, value |-> v] /\ size' = size
  BY <1>1 DEF StartExpand
<1>3. GoodDict(data) /\ size \in Nat /\ Doubled(data, size) /\ 2 * size < data.alloc_size
  BY <1>2 DEF CountedInv, CopyInv, RoomInv
<1>4. n \in Sizes /\ n \in Nat /\ 2 * (size + 1) < n
  BY <1>1, <1>2, <1>3, MapPrime, SizeFacts
<1>5. /\ GoodDict(data') /\ data'.alloc_size = data.alloc_size
      /\ Full(data') + Cardinality(KeysIn(data') \union {k})
           = Full(data) + Cardinality(KeysIn(data)) + 1
  BY <1>2, <1>3, OverwrittenFills
<1>6. HasKeys(new', 0) /\ new'.alloc_size = n
  BY <1>2, <1>4, ZeroedDict
<1>7. Copied' = {}
  <2>1. Copied' = {p \in FullPlaces(data') : p < 0}
    BY <1>2, PrimedGood
  <2>2. \A p \in FullPlaces(data') : p \in Nat
    BY <1>5, DictFacts DEF GoodDict
  <2> QED
    BY <2>1, <2>2
<1>8. Full(new') = Cardinality(Copied')
  BY <1>6, <1>7, FS_EmptySet DEF HasKeys, Full
<1>9. data.alloc_size \in Nat /\ data.alloc_size <= 2 * (size + 1)
  BY <1>2, <1>3, DictFacts DEF MustExpand, GoodDict
<1>10. Full(data') + Cardinality(Wanted') = 2 * size' + 1
  <2>1. Wanted' = KeysIn(data') \union {k}
    BY <1>2, PrimedRoom
  <2> QED
    BY <1>2, <1>3, <1>5, <2>1 DEF Doubled
<1>11. /\ data'.alloc_size < new'.alloc_size /\ 2 * (size' + 1) < new'.alloc_size
       /\ 2 * size' < data'.alloc_size
  BY <1>2, <1>3, <1>4, <1>5, <1>6, <1>9
<1>12. Growing'
  BY <1>8, <1>10, <1>11, PrimedRoom DEF Growing
<1> QED
  BY <1>2, <1>11, <1>12 DEF RoomInv

(* One turn of the loop that expands, ...                                   *)
LEMMA ExpandRoom ==
  ASSUME CountedInv, RoomInv, Expand
  PROVE  RoomInv'
<1>1. /\ pc = "expand" /\ pc' = pc /\ data' = data /\ arg' = arg /\ size' = size
      /\ i < data.alloc_size /\ i' = i + 1
      /\ data.flag[i] = BUCKET_FULL => ~SetFails(new, data.key[i])
      /\ new' = IF data.flag[i] = BUCKET_FULL
                THEN set(new, data.key[i], data.value[i]) ELSE new
  BY DEF Expand
<1>2. /\ GoodDict(data) /\ GoodDict(new) /\ i \in 0..data.alloc_size
      /\ Growing /\ 2 * size < data.alloc_size
  BY <1>1 DEF CountedInv, CopyInv, Moving, RoomInv
<1>3. /\ data.alloc_size \in Nat /\ \A p \in FullPlaces(data) : p \in Nat
      /\ IsFiniteSet(FullPlaces(data))
  BY <1>2, DictFacts DEF GoodDict
<1>4. i \in Nat /\ i \in Places(data)
  BY <1>1, <1>2, <1>3 DEF Places
<1>5. Copied' = {p \in FullPlaces(data) : p < i + 1}
  BY <1>1, PrimedGood
<1>6. IsFiniteSet(Copied) /\ Cardinality(Copied) \in Nat
  <2>1. Copied \in SUBSET FullPlaces(data)
    BY DEF Copied
  <2> QED
    BY <1>3, <2>1, FS_Subset, FS_CardinalityType
<1>7. SUFFICES Full(new') = Cardinality(Copied') /\ new'.alloc_size = new.alloc_size
  <2>1. Wanted' = Wanted
    BY <1>1, PrimedGood, PrimedRoom DEF Wanted
  <2>2. Growing'
    BY <1>1, <1>2, <1>7, <2>1, PrimedRoom DEF Growing
  <2> QED
    BY <1>1, <1>2, <2>2 DEF RoomInv
<1>8. CASE data.flag[i] # BUCKET_FULL
  <2>1. new' = new /\ i \notin FullPlaces(data)
    BY <1>1, <1>8 DEF FullPlaces
  <2>2. \A p \in FullPlaces(data) : p < i + 1 <=> p < i
    BY <1>3, <1>4, <2>1
  <2>3. Copied' = Copied
    BY <1>5, <2>2 DEF Copied
  <2> QED
    BY <1>2, <2>1, <2>3 DEF Growing
<1>9. CASE data.flag[i] = BUCKET_FULL
  <2>1. PICK k, v : k = data.key[i] /\ v = data.value[i]
    OBVIOUS
  <2>2. i \in FullPlaces(data) /\ new' = set(new, k, v) /\ ~SetFails(new, k)
    BY <1>1, <1>4, <1>9, <2>1 DEF FullPlaces
  <2>3. k \in Keys
    BY <1>2, <2>1, <2>2 DEF GoodDict, IsDict, KeysIn
  <2>4. Full(new') = Full(new) + 1
    BY <1>2, <2>2, <2>3, SetFills
  <2>5. \A p \in FullPlaces(data) : p < i + 1 <=> p < i \/ p = i
    BY <1>3, <1>4
  <2>6. Copied' = Copied \union {i} /\ i \notin Copied
    <3>1. Copied' = {p \in FullPlaces(data) : p < i \/ p = i}
      BY <1>5, <2>5
    <3>2. i \notin Copied
      BY <1>4 DEF Copied
    <3> QED
      BY <2>2, <3>1, <3>2, Zenon DEF Copied
  <2>7. Cardinality(Copied') = Cardinality(Copied) + 1
    BY <1>6, <2>6, FS_AddElement
  <2>8. new'.alloc_size = new.alloc_size
    BY <1>2, <2>2, <2>3, SetUpdates DEF Updated
  <2> QED
    BY <1>2, <2>4, <2>7, <2>8 DEF Growing
<1> QED
  BY <1>8, <1>9

(* ... and what follows it.                                                 *)
LEMMA EndRoom ==
  ASSUME CountedInv, RoomInv, EndExpand
  PROVE  RoomInv'
<1>1. /\ pc = "expand" /\ pc' = "idle" /\ i = data.alloc_size
      /\ ~SetFails(new, arg.key) /\ data' = set(new, arg.key, arg.value) /\ size' = size + 1
  BY DEF EndExpand
<1>2. /\ GoodDict(data) /\ GoodDict(new) /\ size \in Nat /\ Growing
  BY <1>1 DEF CountedInv, CopyInv, Moving, RoomInv
<1>3. /\ arg.key \in Keys /\ Updated(new, arg.key, arg.value, data')
      /\ KeysIn(new) = KeysIn(data)
  BY EndGives DEF CountedInv
<1>4. Full(data') = Full(new) + 1
  BY <1>1, <1>2, <1>3, SetFills
<1>5. Full(new) = Full(data)
  <2>1. \A p \in FullPlaces(data) : p < data.alloc_size
    <3>1. data.alloc_size \in Nat /\ FullPlaces(data) \subseteq Places(data)
      BY <1>2, DictFacts DEF GoodDict
    <3> QED
      BY <3>1 DEF Places
  <2>2. Copied = FullPlaces(data)
    BY <1>1, <2>1 DEF Copied
  <2> QED
    BY <1>2, <2>2 DEF Growing, Full
<1>6. KeysIn(data') = Wanted /\ data'.alloc_size = new.alloc_size
  BY <1>3 DEF Updated, Wanted
<1>7. Full(data) \in Nat /\ Cardinality(Wanted) \in Nat
  BY <1>2, <1>3, <1>6, KeysFinite DEF Updated, GoodDict
<1>8. Doubled(data', size')
  <2>1. Full(data) + Cardinality(Wanted) = 2 * size + 1
    BY <1>2 DEF Growing
  <2>2. Full(data') + Cardinality(KeysIn(data')) = 2 * (size + 1)
    BY <1>2, <1>4, <1>5, <1>6, <1>7, <2>1
  <2> QED
    BY <1>1, <2>2 DEF Doubled
<1>9. 2 * size' < data'.alloc_size
  BY <1>1, <1>2, <1>6 DEF Growing
<1> QED
  BY <1>1, <1>8, <1>9, PrimedRoom DEF RoomInv

LEMMA RoomNext ==
  ASSUME CountedInv, RoomInv, [Next]_vars
  PROVE  RoomInv'
<1>s. ASSUME UNCHANGED <<data, size, new, i, arg>>, pc' = pc \/ pc' = "abort"
      PROVE  RoomInv'
  <2>1. Copied' = Copied /\ Wanted' = Wanted /\ (Doubled(data, size)' <=> Doubled(data, size))
        /\ Full(new)' = Full(new) /\ Full(data)' = Full(data)
    BY <1>s, PrimedRoom, PrimedGood DEF Copied, Wanted
  <2>2. Growing => Growing'
    BY <1>s, <2>1 DEF Growing
  <2> QED
    BY <1>s, <2>1, <2>2 DEF RoomInv
<1>1. ASSUME NEW k \in Keys, dict_query(k) PROVE RoomInv'
  BY <1>1, <1>s DEF dict_query
<1>2. ASSUME NEW k \in Keys, QueryAborts(k) PROVE RoomInv'
  BY <1>2, <1>s DEF QueryAborts, Abort
<1>3. ASSUME NEW k \in Keys, NEW v \in Values, SetAborts(k, v) PROVE RoomInv'
  BY <1>3, <1>s DEF SetAborts, Abort
<1>4. CASE UNCHANGED vars
  BY <1>4, <1>s DEF vars
<1> QED
  BY <1>1, <1>2, <1>3, <1>4, SetRoom, StartRoom, ExpandRoom, EndRoom DEF Next

(* The buckets in use and the keys are together twice the dict_set()s.      *)
THEOREM RoomInvariance == Spec => [](CountedInv /\ RoomInv)
<1>1. Init => CountedInv /\ RoomInv
  BY CopyInvInit, RoomInit DEF CountedInv, Init
<1>2. CountedInv /\ RoomInv /\ [Next]_vars => CountedInv' /\ RoomInv'
  BY CopyInvNext, RoomNext
<1> QED
  BY <1>1, <1>2, PTL DEF Spec

(* The next table, of m buckets, is wide enough for the copies of d keys in *)
(* one of n.                                                                *)
Wide(n, m, d) == d = 1 \/ 2 * (n - d) < m

(* No set() of an expansion fails if the next table is wide enough.         *)
LEMMA WideEnough ==
  ASSUME NoWrap, CountedInv, RoomInv, pc = "expand",
         Wide(data.alloc_size, new.alloc_size, Cardinality(Wanted)),
         NEW k \in Wanted
  PROVE  ~SetFails(new, k)
<1>1. PICK n, m, d : n = data.alloc_size /\ m = new.alloc_size /\ d = Cardinality(Wanted)
  OBVIOUS
<1>2. /\ GoodDict(data) /\ GoodDict(new) /\ arg.key \in Keys /\ size \in Nat
      /\ Growing /\ 2 * size < n
  BY <1>1 DEF CountedInv, CopyInv, Moving, RoomInv
<1>3. /\ n \in Sizes /\ m \in Sizes /\ n < m
      /\ FullPlaces(new) \in SUBSET (0..m - 1) /\ Wanted \subseteq Keys
  BY <1>1, <1>2 DEF Growing, GoodDict, IsDict, FullPlaces, Places, Wanted
<1>4. /\ IsFiniteSet(FullPlaces(data)) /\ Full(data) \in Nat /\ Full(new) \in Nat
      /\ IsFiniteSet(Wanted) /\ d \in Nat
  BY <1>1, <1>2, KeysFinite, FS_AddElement, FS_CardinalityType DEF GoodDict, Wanted
<1>5. Full(new) <= Full(data)
  <2>1. Copied \in SUBSET FullPlaces(data)
    BY DEF Copied
  <2>2. Cardinality(Copied) <= Cardinality(FullPlaces(data))
    BY <1>4, <2>1, FS_Subset
  <2> QED
    BY <1>2, <2>2 DEF Growing, Full
<1>6. Full(new) * 2 < m
  <2>1. CASE d = 1
    <3>1. \A x \in Wanted : x = arg.key
      <4>1. PICK x : Wanted = {x}
        BY <1>1, <1>4, <2>1, FS_Singleton
      <4> QED
        BY <4>1 DEF Wanted
    <3>2. \A p \in FullPlaces(data) : \E idx \in 0..n - 1 : p = Place(arg.key, idx, n)
      <4> TAKE p \in FullPlaces(data)
      <4>1. data.key[p] = arg.key
        BY <3>1 DEF Wanted, KeysIn
      <4>2. \E idx \in Places(data) : Place(data.key[p], idx, n) = p
        BY <1>1, <1>2 DEF GoodDict, Met
      <4> QED
        BY <1>1, <4>1, <4>2 DEF Places
    <3>3. Full(data) * 2 <= n + 1
      BY <1>2, <1>3, <3>2, HalfAtMost DEF Full
    <3>4. n + 1 < m /\ n \in Nat /\ m \in Nat
      BY <1>3, SizeGap, SizeFacts
    <3> QED
      BY <1>4, <1>5, <3>3, <3>4
  <2>2. CASE d # 1
    <3>1. 2 * (n - d) < m /\ n \in Nat /\ m \in Nat
      BY <1>1, <1>3, <2>2, SizeFacts DEF Wide
    <3>2. Full(data) + d = 2 * size + 1
      BY <1>1, <1>2 DEF Growing
    <3>3. Full(data) <= n - d
      BY <1>2, <1>4, <3>1, <3>2
    <3> QED
      BY <1>4, <1>5, <3>1, <3>3
  <2> QED
    BY <2>1, <2>2
<1> QED
  BY <1>1, <1>2, <1>3, <1>6, SearchStops DEF GoodDict

(* Expanding succeeds if the next table is wide enough for the copies.      *)
WideExpandEnds ==
  pc = "expand" /\ Wide(data.alloc_size, new.alloc_size, Cardinality(Wanted)) => ExpandEnds

(* Of one key only, or of as many as the next size falls short of twice the *)
(* old one by half, any number of copies finds room when a Dict expands.    *)
THEOREM WideExpandEndsCorrect == NoWrap => (Spec => []WideExpandEnds)
<1>1. CASE NoWrap
  <2>1. CountedInv /\ RoomInv => WideExpandEnds
    <3> SUFFICES ASSUME CountedInv, RoomInv, pc = "expand",
                        Wide(data.alloc_size, new.alloc_size, Cardinality(Wanted))
                 PROVE  ExpandEnds
      BY DEF WideExpandEnds
    <3>1. \A k \in Wanted : ~SetFails(new, k)
      BY <1>1, WideEnough
    <3>2. i \in Nat /\ data.alloc_size \in Nat
      <4>1. IsDict(data) /\ i \in 0..data.alloc_size
        BY DEF CountedInv, CopyInv, Moving, GoodDict
      <4> QED
        BY <4>1, DictFacts
    <3>3. ASSUME i < data.alloc_size, data.flag[i] = BUCKET_FULL
          PROVE  data.key[i] \in Wanted
      BY <3>2, <3>3 DEF Wanted, KeysIn, FullPlaces, Places
    <3>4. arg.key \in Wanted
      BY DEF Wanted
    <3> QED
      BY <3>1, <3>3, <3>4 DEF ExpandEnds
  <2> QED
    BY <1>1, <2>1, RoomInvariance, PTL
<1> QED
  BY <1>1

LEMMA DoublingWide ==
  ASSUME Doubling, NEW n \in Sizes, NEW m \in Sizes, n < m, NEW d \in Nat \ {0}
  PROVE  Wide(n, m, d)
<1>1. PICK j, k \in 1..Len(sizes) : n = sizes[j] /\ m = sizes[k]
  BY DEF Sizes
<1>0. /\ Len(sizes) \in Nat /\ \A a \in 1..Len(sizes) : sizes[a] \in Nat
      /\ \A a, b \in 1..Len(sizes) : a < b => sizes[a] < sizes[b]
  BY SizesAssumption
<1>2. j < k
  BY <1>0, <1>1
<1>3. j \in 1..Len(sizes) - 1 /\ j + 1 \in 1..Len(sizes) /\ (j + 1 = k \/ j + 1 < k)
  BY <1>0, <1>2
<1>4. n \in Nat /\ m \in Nat /\ sizes[j + 1] \in Nat
  BY <1>0, <1>1, <1>3
<1>5. sizes[j + 1] <= m
  BY <1>0, <1>1, <1>3, <1>4
<1>6. 2 * n - 3 <= sizes[j + 1]
  BY <1>1, <1>3 DEF Doubling, Doubles
<1> QED
  BY <1>4, <1>5, <1>6 DEF Wide

(* Expanding always succeeds, however often keys are set again, in tables   *)
(* whose sizes about double, as those of map_prime() do up to 16381.        *)
THEOREM ExpandEndsCorrect == NoWrap /\ Doubling => (Spec => []ExpandEnds)
<1>1. CASE NoWrap /\ Doubling
  <2>1. CountedInv /\ RoomInv /\ WideExpandEnds => ExpandEnds
    <3> SUFFICES ASSUME CountedInv, RoomInv, WideExpandEnds, pc = "expand"
                 PROVE  ExpandEnds
      BY DEF ExpandEnds
    <3>1. GoodDict(data) /\ GoodDict(new) /\ data.alloc_size < new.alloc_size
      BY DEF CountedInv, CopyInv, Moving, RoomInv, Growing
    <3>2. data.alloc_size \in Sizes /\ new.alloc_size \in Sizes
      BY <3>1 DEF GoodDict, IsDict
    <3>3. Cardinality(Wanted) \in Nat \ {0}
      <4>1. IsFiniteSet(Wanted)
        BY <3>1, KeysFinite, FS_AddElement DEF GoodDict, Wanted
      <4>2. Wanted # {}
        BY DEF Wanted
      <4> QED
        BY <4>1, <4>2, FS_EmptySet, FS_CardinalityType
    <3>4. Wide(data.alloc_size, new.alloc_size, Cardinality(Wanted))
      BY <1>1, <3>1, <3>2, <3>3, DoublingWide
    <3> QED
      BY <3>4 DEF WideExpandEnds
  <2> QED
    BY <1>1, <2>1, RoomInvariance, WideExpandEndsCorrect, PTL
<1> QED
  BY <1>1

(* What has to be the case before assert_never() is reached: twice the      *)
(* dict_set()s so far, less the keys, fill half of the table but for one    *)
(* bucket.  Of one key alone in the first table, of 13 buckets, that takes  *)
(* four dict_set()s, and the fifth one aborts.                              *)
AbortsLate ==
  [][pc = "idle" /\ pc' = "abort" =>
       data.alloc_size <= 2 * (2 * size - Cardinality(KeysIn(data)) + 1)]_vars

(* A search that fails has met a table that is half full, or is when the    *)
(* key that is set again has got its first new bucket.                      *)
LEMMA FailsCrowded ==
  ASSUME NoWrap, GoodDict(data), NEW k \in Keys, NEW v,
         QueryFails(data, k) \/ Fails(k, v)
  PROVE  data.alloc_size <= 2 * (Full(data) + 1)
<1>1. Full(data) \in Nat /\ data.alloc_size \in Nat
  BY KeysFinite, DictFacts DEF GoodDict
<1>2. CASE SetFails(data, k)
  <2>1. ~(Full(data) * 2 < data.alloc_size)
    BY <1>2, SearchStops DEF GoodDict
  <2> QED
    BY <1>1, <2>1
<1>3. CASE ~SetFails(data, k)
  <2>1. PICK O : O = Overwritten(k, v)
    OBVIOUS
  <2>2. Has(data, k) /\ SetFails(O, k)
    BY <1>3, <2>1 DEF QueryFails, SetFails, Fails, Overwritten
  <2>3. O = set(data, k, v)
    BY <2>1, <2>2 DEF Overwritten
  <2>4. Full(O) = Full(data) + 1
    BY <1>3, <2>3, SetFills
  <2>5. IsDict(O) /\ O.alloc_size = data.alloc_size
    BY <1>3, <2>3, SetUpdates DEF Updated, GoodDict
  <2>6. ~(Full(O) * 2 < O.alloc_size)
    BY <2>2, <2>5, SearchStops
  <2> QED
    BY <1>1, <2>4, <2>5, <2>6
<1> QED
  BY <1>2, <1>3

(* However its keys collide, a Dict does not abort before that many copies. *)
THEOREM AbortsLateCorrect == NoWrap => (Spec => AbortsLate)
<1>1. CASE NoWrap
  <2>1. ASSUME CountedInv, RoomInv, [Next]_vars, pc = "idle", pc' = "abort"
        PROVE  data.alloc_size <= 2 * (2 * size - Cardinality(KeysIn(data)) + 1)
    <3>1. GoodDict(data) /\ size \in Nat /\ Doubled(data, size)
      BY <2>1 DEF CountedInv, CopyInv, RoomInv
    <3>2. \E k \in Keys : QueryFails(data, k) \/ \E v \in Values : Fails(k, v)
      BY <2>1 DEF Next, dict_query, QueryAborts, Set, StartExpand, SetAborts,
                  Expand, EndExpand, vars
    <3>3. data.alloc_size <= 2 * (Full(data) + 1)
      BY <1>1, <3>1, <3>2, FailsCrowded
    <3>4. Full(data) \in Nat /\ Cardinality(KeysIn(data)) \in Nat
      BY <3>1, KeysFinite DEF GoodDict
    <3>5. Full(data) = 2 * size - Cardinality(KeysIn(data))
      BY <3>1, <3>4 DEF Doubled
    <3> QED
      BY <3>3, <3>5
  <2>2. CountedInv /\ RoomInv /\ [Next]_vars =>
          [pc = "idle" /\ pc' = "abort" =>
             data.alloc_size <= 2 * (2 * size - Cardinality(KeysIn(data)) + 1)]_vars
    BY <2>1
  <2> QED
    BY <2>2, RoomInvariance, PTL DEF Spec, AbortsLate
<1> QED
  BY <1>1
=============================================================================
