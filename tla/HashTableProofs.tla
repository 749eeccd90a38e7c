-------------------------- MODULE HashTableProofs ---------------------------
(***************************************************************************)
(* HashTable is correct for every set of keys whose hashes do not wrap     *)
(* around 2^64 in probing, every hash function, and every list of odd      *)
(* primes.                                                                 *)
(***************************************************************************)
EXTENDS HashIter, ProbingProofs

HalfEmpty(T) == Cardinality(Full(T)) * 2 < T.alloc_size

(* What query() finds for a key that is not in T: a bucket that is not full *)
(* and that probing for the key meets before any empty bucket.              *)
Vacant(T, key, p) ==
  /\ p \in Places(T) /\ T.buckets[p] # FULL
  /\ \E idx \in Places(T) :
       /\ Place(key, idx, T.alloc_size) = p
       /\ \A j \in 0..idx-1 : T.buckets[Place(key, j, T.alloc_size)] # EMPTY

(* The arrays of a table and the places of a probing sequence.              *)
LEMMA TableFacts ==
  ASSUME NEW T, IsTable(T)
  PROVE  /\ T.alloc_size \in Sizes /\ T.alloc_size \in Nat /\ T.alloc_size > 2
         /\ IsFiniteSet(Full(T)) /\ Cardinality(Full(T)) \in Nat
         /\ Full(T) \subseteq Places(T)
         /\ \A key \in Keys : \A idx \in Places(T) :
              Place(key, idx, T.alloc_size) \in Places(T)
<1>1. T.alloc_size \in Sizes /\ T.alloc_size \in Nat /\ T.alloc_size > 2
  BY SizeFacts DEF IsTable
<1>2. Full(T) \subseteq Places(T)
  BY DEF Full
<1>3. IsFiniteSet(Places(T))
  <2>1. T.alloc_size - 1 \in Int /\ 0 \in Int
    BY <1>1
  <2> QED
    BY <2>1, FS_Interval DEF Places
<1>4. IsFiniteSet(Full(T)) /\ Cardinality(Full(T)) \in Nat
  BY <1>2, <1>3, FS_Subset, FS_CardinalityType
<1>5. ASSUME NEW key \in Keys, NEW idx \in Places(T)
      PROVE  Place(key, idx, T.alloc_size) \in Places(T)
  <2>1. idx \in Nat
    BY <1>1 DEF Places
  <2> QED
    BY <2>1, <1>1, PlaceType DEF Places
<1> QED
  BY <1>1, <1>2, <1>4, <1>5

(* query() never runs into assert_never(), finds a key that is in the table *)
(* and otherwise a place where it may be put.                               *)
LEMMA QueryAnswers ==
  ASSUME NoWrap, NEW T, IsTable(T), Reachable(T), HalfEmpty(T),
         NEW key \in Keys
  PROVE  /\ query(T, key) \in Places(T)
         /\ \/ /\ Holds(T, key) /\ T.keys[query(T, key)] = key
               /\ query(T, key) \in Full(T)
            \/ /\ ~Holds(T, key) /\ key \notin Held(T)
               /\ Vacant(T, key, query(T, key))
<1> DEFINE n       == T.alloc_size
           at(idx) == Place(key, idx, n)
           S       == Stops(T, key)
           R       == Removed(T, key)
           s       == Least(S)
           r       == Least(R)
<1>1. /\ n \in Nat /\ n > 2 /\ n \in Sizes
      /\ \A idx \in Places(T) : at(idx) \in Places(T)
  BY TableFacts
<1>2. /\ S \subseteq Places(T) /\ R \subseteq Places(T)
      /\ Places(T) \subseteq Nat
  BY <1>1 DEF Stops, Removed, Places
<1>3. S # {} => s \in S /\ \A idx \in S : s <= idx
  BY <1>2, LeastElement
<1>4. R # {} => r \in R /\ \A idx \in R : r <= idx
  BY <1>2, LeastElement
<1>5. \A idx \in Places(T) :
         idx \in S <=> \/ T.buckets[at(idx)] = EMPTY
                       \/ T.buckets[at(idx)] = FULL /\ T.keys[at(idx)] = key
  BY DEF Stops
<1>6. \A idx \in R : T.buckets[at(idx)] = WAS_FULL /\ \A t \in S : idx < t
  BY DEF Removed
<1>7. query(T, key) =
        IF S # {} /\ T.buckets[at(s)] = FULL THEN at(s)
        ELSE IF R # {} THEN at(r)
        ELSE IF S # {} THEN at(s)
        ELSE NoPlace
  BY DEF query
<1>8. \A p \in Places(T) : T.buckets[p] \in {EMPTY, WAS_FULL, FULL}
  BY DEF IsTable
<1>9. EMPTY # FULL /\ WAS_FULL # FULL /\ EMPTY # WAS_FULL
  BY DEF EMPTY, FULL, WAS_FULL
<1>10. CASE S # {} /\ T.buckets[at(s)] = FULL
  <2>1. query(T, key) = at(s) /\ s \in Places(T) /\ at(s) \in Places(T)
    BY <1>10, <1>1, <1>2, <1>3, <1>7
  <2>2. T.keys[at(s)] = key
    BY <2>1, <1>3, <1>5, <1>9, <1>10
  <2> QED
    BY <2>1, <2>2, <1>10 DEF Holds, Full
<1>11. CASE ~(S # {} /\ T.buckets[at(s)] = FULL)
  <2>1. key \notin Held(T)
    <3>1. SUFFICES ASSUME NEW p \in Full(T), T.keys[p] = key
                   PROVE  FALSE
      BY DEF Held
    <3>2. PICK idx \in Places(T) :
             /\ at(idx) = p
             /\ \A j \in 0..idx-1 : T.buckets[at(j)] # EMPTY
      BY <3>1 DEF Reachable
    <3>3. T.buckets[p] = FULL
      BY DEF Full
    <3>4. idx \in S
      BY <1>5, <3>1, <3>2, <3>3
    <3>5. s \in S /\ s <= idx /\ s \in Nat /\ idx \in Nat
      BY <1>2, <1>3, <3>4
    <3>6. T.buckets[at(s)] # EMPTY
      BY <3>2, <3>3, <3>5, <1>9
    <3> QED
      BY <3>4, <3>5, <3>6, <1>2, <1>5, <1>11
  <2>2. CASE R # {}
    <3>1. query(T, key) = at(r) /\ r \in R /\ r \in Places(T)
      BY <2>2, <1>2, <1>4, <1>7, <1>11
    <3>2. T.buckets[at(r)] # FULL /\ at(r) \in Places(T)
      BY <3>1, <1>1, <1>6, <1>9
    <3>3. ASSUME NEW j \in 0..r-1
          PROVE  T.buckets[at(j)] # EMPTY
      <4>1. j \in Places(T) /\ j < r
        BY <3>1, <1>1 DEF Places
      <4>2. j \notin S
        BY <4>1, <3>1, <1>1, <1>2, <1>6
      <4> QED
        BY <4>1, <4>2, <1>5
    <3> QED
      BY <2>1, <3>1, <3>2, <3>3 DEF Holds, Vacant
  <2>3. CASE R = {} /\ S # {}
    <3>1. query(T, key) = at(s) /\ s \in S /\ s \in Places(T)
      BY <2>3, <1>2, <1>3, <1>7, <1>11
    <3>2. T.buckets[at(s)] # FULL /\ at(s) \in Places(T)
      BY <3>1, <2>3, <1>1, <1>11
    <3>3. ASSUME NEW j \in 0..s-1
          PROVE  T.buckets[at(j)] # EMPTY
      <4>1. j \in Places(T) /\ j < s
        BY <3>1, <1>1 DEF Places
      <4>2. j \notin S
        BY <4>1, <3>1, <1>1, <1>2, <1>3
      <4> QED
        BY <4>1, <4>2, <1>5
    <3> QED
      BY <2>1, <3>1, <3>2, <3>3 DEF Holds, Vacant
  <2>4. CASE R = {} /\ S = {}
    <3>1. PICK idx \in 0..n - 1 : at(idx) \notin Full(T)
      <4>1. Full(T) \in SUBSET (0..n - 1)
        BY DEF Full, Places
      <4> QED
        BY <4>1, <1>1, ProbingEnds DEF HalfEmpty
    <3>2. idx \in Places(T) /\ at(idx) \in Places(T)
      BY <3>1, <1>1 DEF Places
    <3>3. T.buckets[at(idx)] = WAS_FULL
      BY <3>1, <3>2, <1>5, <1>8, <2>4 DEF Full
    <3> QED
      BY <3>2, <3>3, <2>4 DEF Removed
  <2> QED
    BY <2>2, <2>3, <2>4
<1> QED
  BY <1>10, <1>11

-----------------------------------------------------------------------------
LEMMA BucketKinds == EMPTY # FULL /\ WAS_FULL # FULL /\ EMPTY # WAS_FULL
BY DEF EMPTY, FULL, WAS_FULL

(* A key is put where query() found it missing.                             *)
LEMMA PutKeeps ==
  ASSUME NEW T, IsTable(T), Reachable(T), NEW key \in Keys, key \notin Held(T),
         NEW value \in Values \union {NIL}, NEW p, Vacant(T, key, p),
         NEW U, U = Put(T, p, key, value)
  PROVE  /\ IsTable(U) /\ Reachable(U) /\ U.alloc_size = T.alloc_size
         /\ p \notin Full(T) /\ Full(U) = Full(T) \union {p}
         /\ Cardinality(Full(U)) = Cardinality(Full(T)) + 1
         /\ U.keys[p] = key /\ U.values[p] = value
         /\ \A q \in Full(T) : U.keys[q] = T.keys[q] /\ U.values[q] = T.values[q]
         /\ Held(U) = Held(T) \union {key}
<1>1. /\ U.alloc_size = T.alloc_size
      /\ U.buckets = [T.buckets EXCEPT ![p] = FULL]
      /\ U.keys = [T.keys EXCEPT ![p] = key]
      /\ U.values = IF do_values THEN [T.values EXCEPT ![p] = value] ELSE T.values
  BY DEF Put
<1>2. /\ Places(U) = Places(T) /\ p \in Places(T)
      /\ T.buckets \in [Places(T) -> {EMPTY, WAS_FULL, FULL}]
      /\ T.keys \in [Places(T) -> Keys \union {NIL}]
      /\ T.values \in [Places(T) -> Values \union {NIL}]
      /\ T.buckets[p] # FULL
  BY <1>1 DEF Places, IsTable, Vacant
<1>3. p \notin Full(T) /\ Full(U) = Full(T) \union {p}
  BY <1>1, <1>2 DEF Full
<1>4. Cardinality(Full(U)) = Cardinality(Full(T)) + 1
  BY <1>3, TableFacts, FS_AddElement
<1>5. U.keys[p] = key /\ \A q \in Full(T) : U.keys[q] = T.keys[q]
  BY <1>1, <1>2, <1>3, TableFacts
<1>6. U.values[p] = value
  BY <1>1, <1>2, ValuesAssumption
<1>7. \A q \in Full(T) : U.values[q] = T.values[q]
  BY <1>1, <1>2, <1>3, TableFacts
<1>8. Held(U) = Held(T) \union {key}
  BY <1>3, <1>5 DEF Held
<1>9. IsTable(U)
  <2>1. U = [alloc_size |-> U.alloc_size, buckets |-> U.buckets,
             keys |-> U.keys, values |-> U.values]
    BY <1>1 DEF Put
  <2>2. U.buckets \in [Places(U) -> {EMPTY, WAS_FULL, FULL}]
    BY <1>1, <1>2
  <2>3. U.keys \in [Places(U) -> Keys \union {NIL}]
    BY <1>1, <1>2
  <2>4. U.values \in [Places(U) -> Values \union {NIL}]
    BY <1>1, <1>2
  <2>5. \A q \in Full(U) : U.keys[q] \in Keys
    BY <1>3, <1>5 DEF IsTable
  <2>6. U.alloc_size \in Sizes
    BY <1>1 DEF IsTable
  <2> QED
    BY <2>1, <2>2, <2>3, <2>4, <2>5, <2>6 DEF IsTable
<1>10. \A q \in Places(T) : T.buckets[q] # EMPTY => U.buckets[q] # EMPTY
  BY <1>1, <1>2, BucketKinds
<1>11. ASSUME NEW k \in Keys, NEW idx \in Places(T),
              \A j \in 0..idx-1 : T.buckets[Place(k, j, T.alloc_size)] # EMPTY
       PROVE  \A j \in 0..idx-1 : U.buckets[Place(k, j, U.alloc_size)] # EMPTY
  <2>1. \A j \in 0..idx-1 : j \in Places(T)
    BY TableFacts DEF Places
  <2> QED
    BY <2>1, <1>1, <1>10, <1>11, TableFacts
<1>12. Reachable(U)
  <2>1. SUFFICES ASSUME NEW q \in Full(U)
                 PROVE  /\ \A w \in Full(U) : U.keys[w] = U.keys[q] => w = q
                        /\ \E idx \in Places(U) :
                             /\ Place(U.keys[q], idx, U.alloc_size) = q
                             /\ \A j \in 0..idx-1 :
                                  U.buckets[Place(U.keys[q], j, U.alloc_size)] # EMPTY
    BY DEF Reachable
  <2>2. \A w \in Full(T) : T.keys[w] # key
    BY DEF Held
  <2>3. \A w \in Full(U) : U.keys[w] = U.keys[q] => w = q
    BY <2>1, <2>2, <1>3, <1>5 DEF Reachable
  <2>4. CASE q = p
    BY <2>3, <2>4, <1>1, <1>2, <1>5, <1>11 DEF Vacant
  <2>5. CASE q \in Full(T)
    <3>1. U.keys[q] = T.keys[q] /\ T.keys[q] \in Keys
      BY <2>5, <1>5 DEF IsTable
    <3>2. PICK idx \in Places(T) :
            /\ Place(T.keys[q], idx, T.alloc_size) = q
            /\ \A j \in 0..idx-1 : T.buckets[Place(T.keys[q], j, T.alloc_size)] # EMPTY
      BY <2>5 DEF Reachable
    <3> QED
      BY <3>1, <3>2, <2>3, <1>1, <1>2, <1>11
  <2> QED
    BY <2>1, <2>4, <2>5, <1>3
<1> QED
  BY <1>1, <1>3, <1>4, <1>5, <1>6, <1>7, <1>8, <1>9, <1>12

(* A bucket that is removed is not empty: nothing gets out of reach.        *)
LEMMA RemoveKeeps ==
  ASSUME NEW T, IsTable(T), Reachable(T), NEW p \in Full(T),
         NEW U, U = Drop(T, p)
  PROVE  /\ IsTable(U) /\ Reachable(U) /\ U.alloc_size = T.alloc_size
         /\ Full(U) = Full(T) \ {p}
         /\ Cardinality(Full(U)) = Cardinality(Full(T)) - 1
         /\ \A q \in Full(U) : U.keys[q] = T.keys[q] /\ U.values[q] = T.values[q]
         /\ Held(U) = Held(T) \ {T.keys[p]}
<1>0. T = [alloc_size |-> T.alloc_size, buckets |-> T.buckets,
           keys |-> T.keys, values |-> T.values]
  BY DEF IsTable
<1>1. /\ U.alloc_size = T.alloc_size
      /\ U.buckets = [T.buckets EXCEPT ![p] = WAS_FULL]
      /\ U.keys = [T.keys EXCEPT ![p] = NIL]
      /\ U.values = T.values
      /\ U = [alloc_size |-> U.alloc_size, buckets |-> U.buckets,
              keys |-> U.keys, values |-> U.values]
  BY <1>0 DEF Drop
<1>2. /\ Places(U) = Places(T) /\ p \in Places(T)
      /\ T.buckets \in [Places(T) -> {EMPTY, WAS_FULL, FULL}]
      /\ T.keys \in [Places(T) -> Keys \union {NIL}]
      /\ T.values \in [Places(T) -> Values \union {NIL}]
  BY <1>1 DEF Places, IsTable, Full
<1>3. Full(U) = Full(T) \ {p}
  BY <1>1, <1>2, BucketKinds DEF Full
<1>4. Cardinality(Full(U)) = Cardinality(Full(T)) - 1
  BY <1>3, TableFacts, FS_RemoveElement
<1>5. \A q \in Full(U) : U.keys[q] = T.keys[q] /\ U.values[q] = T.values[q]
  BY <1>1, <1>2, <1>3, TableFacts
<1>6. Held(U) = Held(T) \ {T.keys[p]}
  <2>1. \A q \in Full(T) : q # p => T.keys[q] # T.keys[p]
    BY DEF Reachable
  <2> QED
    BY <2>1, <1>3, <1>5 DEF Held
<1>7. IsTable(U)
  <2>1. U.buckets \in [Places(U) -> {EMPTY, WAS_FULL, FULL}]
    BY <1>1, <1>2
  <2>2. U.keys \in [Places(U) -> Keys \union {NIL}]
    BY <1>1, <1>2
  <2>3. \A q \in Full(U) : U.keys[q] \in Keys
    BY <1>3, <1>5 DEF IsTable
  <2>4. U.alloc_size \in Sizes
    BY <1>1 DEF IsTable
  <2> QED
    BY <2>1, <2>2, <2>3, <2>4, <1>1, <1>2 DEF IsTable
<1>8. \A q \in Places(T) : T.buckets[q] # EMPTY => U.buckets[q] # EMPTY
  BY <1>1, <1>2, BucketKinds
<1>9. ASSUME NEW q \in Full(U)
      PROVE  /\ \A w \in Full(U) : U.keys[w] = U.keys[q] => w = q
             /\ \E idx \in Places(U) :
                  /\ Place(U.keys[q], idx, U.alloc_size) = q
                  /\ \A j \in 0..idx-1 :
                       U.buckets[Place(U.keys[q], j, U.alloc_size)] # EMPTY
  <2>1. q \in Full(T) /\ U.keys[q] = T.keys[q] /\ T.keys[q] \in Keys
    BY <1>3, <1>5 DEF IsTable
  <2>2. \A w \in Full(U) : U.keys[w] = U.keys[q] => w = q
    BY <2>1, <1>3, <1>5 DEF Reachable
  <2>3. PICK idx \in Places(T) :
          /\ Place(T.keys[q], idx, T.alloc_size) = q
          /\ \A j \in 0..idx-1 : T.buckets[Place(T.keys[q], j, T.alloc_size)] # EMPTY
    BY <2>1 DEF Reachable
  <2>4. \A j \in 0..idx-1 : j \in Places(T)
    BY TableFacts DEF Places
  <2>5. \A j \in 0..idx-1 : U.buckets[Place(T.keys[q], j, T.alloc_size)] # EMPTY
    BY <2>1, <2>3, <2>4, <1>8, TableFacts
  <2> QED
    BY <2>1, <2>2, <2>3, <2>5, <1>1, <1>2
<1>10. Reachable(U)
  BY <1>9 DEF Reachable
<1> QED
  BY <1>1, <1>3, <1>4, <1>5, <1>6, <1>7, <1>10

(* Only a value changes.                                                    *)
LEMMA OverwriteKeeps ==
  ASSUME NEW T, IsTable(T), Reachable(T), NEW p \in Full(T),
         NEW value \in Values,
         NEW U, U = Assign(T, p, value)
  PROVE  /\ IsTable(U) /\ Reachable(U) /\ U.alloc_size = T.alloc_size
         /\ Full(U) = Full(T) /\ U.keys = T.keys /\ Held(U) = Held(T)
         /\ U.values[p] = value
         /\ \A q \in Full(T) : q # p => U.values[q] = T.values[q]
<1>0. /\ T = [alloc_size |-> T.alloc_size, buckets |-> T.buckets,
              keys |-> T.keys, values |-> T.values]
      /\ T.values \in [Places(T) -> Values \union {NIL}]
      /\ p \in Places(T)
  BY DEF IsTable, Full
<1>1. /\ U.alloc_size = T.alloc_size
      /\ U.buckets = T.buckets /\ U.keys = T.keys
      /\ U.values = IF do_values THEN [T.values EXCEPT ![p] = value] ELSE T.values
      /\ U = [alloc_size |-> U.alloc_size, buckets |-> U.buckets,
              keys |-> U.keys, values |-> U.values]
  BY <1>0 DEF Assign
<1>2. Places(U) = Places(T) /\ Full(U) = Full(T) /\ Held(U) = Held(T)
  BY <1>1 DEF Places, Full, Held
<1>3. U.values \in [Places(U) -> Values \union {NIL}]
  BY <1>0, <1>1, <1>2
<1>4. U.values[p] = value
  BY <1>0, <1>1, ValuesAssumption
<1>5. \A q \in Full(T) : q # p => U.values[q] = T.values[q]
  BY <1>0, <1>1, TableFacts
<1>6. IsTable(U)
  BY <1>1, <1>2, <1>3 DEF IsTable
<1>7. Reachable(U)
  BY <1>1, <1>2 DEF Reachable
<1> QED
  BY <1>1, <1>2, <1>4, <1>5, <1>6, <1>7

LEMMA ZeroedTable ==
  ASSUME NEW n \in Sizes
  PROVE  /\ IsTable(Zeroed(n)) /\ Reachable(Zeroed(n))
         /\ Zeroed(n).alloc_size = n
         /\ Full(Zeroed(n)) = {} /\ Held(Zeroed(n)) = {}
         /\ Cardinality(Full(Zeroed(n))) = 0
<1> DEFINE T == Zeroed(n)
<1>1. /\ T.alloc_size = n
      /\ T.buckets = [p \in 0..n-1 |-> EMPTY]
      /\ T.keys = [p \in 0..n-1 |-> NIL]
      /\ T.values = [p \in 0..n-1 |-> NIL]
      /\ T = [alloc_size |-> T.alloc_size, buckets |-> T.buckets,
              keys |-> T.keys, values |-> T.values]
  BY DEF Zeroed
<1> HIDE DEF T
<1>2. Full(T) = {}
  BY <1>1, BucketKinds DEF Full, Places
<1>3. Held(T) = {} /\ Cardinality(Full(T)) = 0
  BY <1>2, FS_EmptySet DEF Held
<1>4. IsTable(T)
  BY <1>1, <1>2 DEF IsTable, Places
<1>5. Reachable(T)
  BY <1>2 DEF Reachable
<1> QED
  BY <1>1, <1>2, <1>3, <1>4, <1>5 DEF T

-----------------------------------------------------------------------------
(***************************************************************************)
(* The inductive invariant.  What is missing in the properties is how far  *)
(* the loop of rehash() has come.                                          *)
(***************************************************************************)
Moved == {p \in Full(ht) : p < i}

RehashInv ==
  pc = "rehash" =>
    /\ arg.key \notin Held(ht)
    /\ Held(new) = {ht.keys[p] : p \in Moved}
    /\ Cardinality(Full(new)) = Cardinality(Moved)
    /\ \A p \in Moved : \E q \in Full(new) :
         new.keys[q] = ht.keys[p] /\ new.values[q] = ht.values[p]

IInv == TypeOK /\ SizeCounts /\ AllReachable /\ RehashInv

(* Before every call of query() the table that it searches is fit for it.   *)
LEMMA Searchable ==
  ASSUME IInv
  PROVE  /\ pc = "idle" => IsTable(ht) /\ Reachable(ht) /\ HalfEmpty(ht)
         /\ pc = "rehash" =>
              /\ IsTable(new) /\ Reachable(new) /\ HalfEmpty(new)
              /\ IsFiniteSet(Moved) /\ Cardinality(Moved) \in Nat
              /\ Cardinality(Moved) < size
<1>1. CASE pc = "idle"
  BY <1>1 DEF IInv, TypeOK, SizeCounts, AllReachable, HalfEmpty
<1>2. CASE pc = "rehash"
  <2>1. IsTable(ht) /\ IsTable(new) /\ Reachable(new) /\ size \in Nat
    BY <1>2 DEF IInv, TypeOK, AllReachable
  <2>2. /\ IsFiniteSet(Full(ht)) /\ Cardinality(Full(ht)) \in Nat
        /\ new.alloc_size \in Nat
    BY <2>1, TableFacts
  <2>3. Moved \in SUBSET Full(ht)
    BY DEF Moved
  <2>4. /\ IsFiniteSet(Moved) /\ Cardinality(Moved) \in Nat
        /\ Cardinality(Moved) <= Cardinality(Full(ht))
    BY <2>2, <2>3, FS_Subset, FS_CardinalityType
  <2>5. size = Cardinality(Full(ht)) + 1 /\ size * 2 < new.alloc_size
    BY <1>2 DEF IInv, SizeCounts
  <2>6. Cardinality(Full(new)) = Cardinality(Moved)
    BY <1>2 DEF IInv, RehashInv
  <2> QED
    BY <1>2, <2>1, <2>2, <2>4, <2>5, <2>6 DEF HalfEmpty
<1> QED
  BY <1>1, <1>2 DEF IInv, TypeOK

LEMMA InitInv == Init => IInv
<1> SUFFICES ASSUME Init PROVE IInv
  OBVIOUS
<1>1. PICK n \in Sizes : ht = Zeroed(n)
  BY DEF Init
<1>2. /\ IsTable(ht) /\ Reachable(ht) /\ ht.alloc_size = n
      /\ Cardinality(Full(ht)) = 0
  BY <1>1, ZeroedTable
<1>3. n > 2 /\ n \in Nat
  BY SizeFacts
<1>4. TypeOK
  BY <1>2 DEF Init, TypeOK, NoAnswer, Answers
<1>5. SizeCounts
  BY <1>2, <1>3 DEF Init, SizeCounts
<1> QED
  BY <1>2, <1>4, <1>5 DEF Init, IInv, AllReachable, RehashInv

(* A step that stays in pc = "idle" and leaves a table with size keys.      *)
LEMMA IdleStep ==
  ASSUME IInv, pc = "idle", pc' = pc,
         IsTable(ht'), Reachable(ht'),
         size' \in Nat, size' = Cardinality(Full(ht')), size' * 2 < ht'.alloc_size,
         rv' \in Answers
  PROVE  IInv'
<1>1. TypeOK'
  BY DEF TypeOK, IsTable, Places, Full
<1>2. SizeCounts'
  BY DEF SizeCounts, Full, Places
<1>3. AllReachable'
  BY DEF AllReachable, Reachable, Places, Full
<1>4. RehashInv'
  BY DEF RehashInv
<1> QED
  BY <1>1, <1>2, <1>3, <1>4 DEF IInv

LEMMA QueryStep ==
  ASSUME NoWrap, IInv, NEW key \in Keys, ht_query(key)
  PROVE  IInv'
<1>1. /\ pc = "idle" /\ pc' = pc /\ ht' = ht /\ size' = size
      /\ IsTable(ht) /\ Reachable(ht) /\ HalfEmpty(ht)
  BY Searchable DEF ht_query, NotRehashing
<1>2. size \in Nat /\ size = Cardinality(Full(ht)) /\ size * 2 < ht.alloc_size
  BY <1>1 DEF IInv, TypeOK, SizeCounts
<1>3. ht.values[query(ht, key)] \in Values \union {NIL}
  BY <1>1, QueryAnswers DEF IsTable
<1>4. rv' \in Answers
  <2>1. Holds(ht, key) \in BOOLEAN
    BY DEF Holds
  <2>2. (IF Holds(ht, key) THEN ht.values[query(ht, key)] ELSE NIL)
          \in Values \union {NIL}
    BY <1>3
  <2> QED
    BY <2>1, <2>2 DEF ht_query, Answers
<1> QED
  BY <1>1, <1>2, <1>4, IdleStep

LEMMA RemoveStep ==
  ASSUME NoWrap, IInv, NEW key \in Keys, ht_remove(key)
  PROVE  IInv'
<1> DEFINE p == query(ht, key)
<1>1. /\ pc = "idle" /\ pc' = pc
      /\ IsTable(ht) /\ Reachable(ht) /\ HalfEmpty(ht)
  BY Searchable DEF ht_remove, NotRehashing
<1>2. /\ size \in Nat /\ size = Cardinality(Full(ht)) /\ size * 2 < ht.alloc_size
      /\ ht.alloc_size \in Nat
  BY <1>1, TableFacts DEF IInv, TypeOK, SizeCounts
<1>3. rv' \in Answers
  BY DEF ht_remove, Holds, Answers
<1>4. CASE ~Holds(ht, key)
  <2>1. ht' = ht /\ size' = size
    BY <1>4 DEF ht_remove
  <2> QED
    BY <2>1, <1>1, <1>2, <1>3, IdleStep
<1>5. CASE Holds(ht, key)
  <2>1. p \in Full(ht)
    BY <1>1, <1>5, QueryAnswers
  <2>2. /\ size' = size - 1
        /\ ht' = Drop(ht, p)
    BY <1>5 DEF ht_remove
  <2> HIDE DEF p
  <2>3. /\ IsTable(ht') /\ Reachable(ht') /\ ht'.alloc_size = ht.alloc_size
        /\ Cardinality(Full(ht')) = Cardinality(Full(ht)) - 1
    BY <2>1, <2>2, <1>1, RemoveKeeps
  <2>4. size' \in Nat
    <3>1. Full(ht) # {}
      BY <2>1
    <3>2. size # 0
      BY <3>1, <1>1, <1>2, TableFacts, FS_EmptySet
    <3> QED
      BY <3>2, <2>2, <1>2
  <2>5. size' * 2 < ht'.alloc_size
    BY <2>2, <2>3, <1>2
  <2>6. size' = Cardinality(Full(ht'))
    BY <2>2, <2>3, <1>2
  <2> QED
    BY <2>3, <2>4, <2>5, <2>6, <1>1, <1>3, IdleStep
<1> QED
  BY <1>4, <1>5

LEMMA ClearStep ==
  ASSUME IInv, ht_clear
  PROVE  IInv'
<1>1. pc = "idle" /\ pc' = pc /\ ht' = Zeroed(map_prime(0)) /\ size' = 0
  BY DEF ht_clear, NotRehashing
<1>2. map_prime(0) \in Sizes
  <2>1. LargestSize \in Sizes
    BY SizesAssumption DEF LargestSize, Sizes
  <2> QED
    BY <2>1, SizeFacts, MapPrime
<1>3. /\ IsTable(ht') /\ Reachable(ht') /\ Cardinality(Full(ht')) = 0
      /\ ht'.alloc_size > 2
  BY <1>1, <1>2, ZeroedTable, SizeFacts
<1>4. rv' \in Answers
  BY DEF ht_clear, NoAnswer, Answers
<1>5. size' * 2 < ht'.alloc_size
  <2>1. ht'.alloc_size \in Nat
    BY <1>3, TableFacts
  <2> QED
    BY <2>1, <1>1, <1>3
<1> QED
  BY <1>1, <1>3, <1>4, <1>5, IdleStep

LEMMA OverwriteStep ==
  ASSUME NoWrap, IInv, NEW key \in Keys, NEW value \in Values,
         Overwrite(key, value)
  PROVE  IInv'
<1> DEFINE p == query(ht, key)
<1>1. /\ pc = "idle" /\ pc' = pc /\ size' = size /\ Holds(ht, key)
      /\ IsTable(ht) /\ Reachable(ht) /\ HalfEmpty(ht)
  BY Searchable DEF Overwrite, NotRehashing
<1>2. size \in Nat /\ size = Cardinality(Full(ht)) /\ size * 2 < ht.alloc_size
  BY <1>1 DEF IInv, TypeOK, SizeCounts
<1>3. rv' \in Answers
  BY DEF Overwrite, NoAnswer, Answers
<1>4. p \in Full(ht)
  BY <1>1, QueryAnswers
<1>5. ht' = Assign(ht, p, value)
  BY DEF Overwrite
<1> HIDE DEF p
<1>6. /\ IsTable(ht') /\ Reachable(ht') /\ ht'.alloc_size = ht.alloc_size
      /\ Full(ht') = Full(ht)
  BY <1>1, <1>4, <1>5, OverwriteKeeps
<1> QED
  BY <1>1, <1>2, <1>3, <1>6, IdleStep

LEMMA AddStep ==
  ASSUME NoWrap, IInv, NEW key \in Keys, NEW value \in Values, Add(key, value)
  PROVE  IInv'
<1> DEFINE p == query(ht, key)
<1>1. /\ pc = "idle" /\ pc' = pc /\ ~Holds(ht, key) /\ HasRoom
      /\ IsTable(ht) /\ Reachable(ht) /\ HalfEmpty(ht)
  BY Searchable DEF Add, NotRehashing
<1>2. size \in Nat /\ size = Cardinality(Full(ht))
  BY <1>1 DEF IInv, TypeOK, SizeCounts
<1>3. rv' \in Answers
  BY DEF Add, NoAnswer, Answers
<1>4. key \notin Held(ht) /\ Vacant(ht, key, p)
  BY <1>1, QueryAnswers
<1>5. ht' = Put(ht, p, key, value) /\ size' = size + 1
  BY DEF Add
<1> HIDE DEF p
<1>6. /\ IsTable(ht') /\ Reachable(ht') /\ ht'.alloc_size = ht.alloc_size
      /\ Cardinality(Full(ht')) = Cardinality(Full(ht)) + 1
  BY <1>1, <1>4, <1>5, PutKeeps
<1>7. /\ size' \in Nat /\ size' * 2 < ht'.alloc_size
      /\ size' = Cardinality(Full(ht'))
  BY <1>1, <1>2, <1>5, <1>6 DEF HasRoom
<1> QED
  BY <1>1, <1>3, <1>6, <1>7, IdleStep

LEMMA StartRehashStep ==
  ASSUME NoWrap, IInv, NEW key \in Keys, NEW value \in Values,
         StartRehash(key, value)
  PROVE  IInv'
<1>1. /\ pc = "idle" /\ pc' = "rehash" /\ ~Holds(ht, key)
      /\ ht' = ht /\ size' = size + 1 /\ rv' = rv /\ i' = 0
      /\ arg' = [key |-> key, value |-> value]
      /\ new' = Zeroed(map_prime(ht.alloc_size))
      /\ ht.alloc_size < LargestSize
      /\ IsTable(ht) /\ Reachable(ht) /\ HalfEmpty(ht)
  BY Searchable DEF StartRehash
<1>2. /\ size \in Nat /\ size = Cardinality(Full(ht)) /\ size * 2 < ht.alloc_size
      /\ ht.alloc_size \in Nat /\ ht.alloc_size \in Sizes
      /\ rv \in Answers
  BY <1>1, TableFacts DEF IInv, TypeOK, SizeCounts
<1>3. map_prime(ht.alloc_size) \in Sizes /\ ht.alloc_size < map_prime(ht.alloc_size)
  BY <1>1, <1>2, MapPrime
<1>4. /\ IsTable(new') /\ Reachable(new') /\ new'.alloc_size = map_prime(ht.alloc_size)
      /\ Full(new') = {} /\ Held(new') = {} /\ Cardinality(Full(new')) = 0
  BY <1>1, <1>3, ZeroedTable
<1>5. ht.alloc_size + 1 < new'.alloc_size /\ new'.alloc_size \in Nat
  BY <1>2, <1>3, <1>4, SizeGap, TableFacts
<1>6. key \notin Held(ht)
  BY <1>1, QueryAnswers
<1>7. TypeOK'
  <2>1. 0 \in 0..ht.alloc_size
    BY <1>2
  <2>2. IsTable(ht)' /\ IsTable(new)'
    BY <1>1, <1>4 DEF IsTable, Places, Full
  <2> QED
    BY <2>1, <2>2, <1>1, <1>2 DEF TypeOK
<1>8. SizeCounts'
  <2>1. (size + 1) * 2 < new'.alloc_size
    BY <1>2, <1>5
  <2> QED
    BY <2>1, <1>1, <1>2 DEF SizeCounts, Full, Places
<1>9. AllReachable'
  <2>1. Reachable(ht)'
    BY <1>1 DEF Reachable, Places, Full
  <2>2. Reachable(new)'
    BY <1>4 DEF Reachable, Places, Full
  <2> QED
    BY <2>1, <2>2 DEF AllReachable
<1>10. RehashInv'
  <2>1. Moved' = {}
    <3>1. \A p \in Full(ht) : ~(p < 0)
      BY <1>2 DEF Full, Places
    <3> QED
      BY <3>1, <1>1 DEF Moved, Full, Places
  <2>2. Held(new)' = {} /\ Full(new)' = {}
    BY <1>4 DEF Held, Full, Places
  <2>3. arg'.key \notin Held(ht)'
    BY <1>1, <1>6 DEF Held, Full, Places
  <2> QED
    BY <2>1, <2>2, <2>3 DEF RehashInv
<1> QED
  BY <1>7, <1>8, <1>9, <1>10 DEF IInv

LEMMA RehashStep ==
  ASSUME NoWrap, IInv, Rehash
  PROVE  IInv'
<1> DEFINE k == ht.keys[i]
           v == ht.values[i]
           p == query(new, k)
<1>1. /\ pc = "rehash" /\ pc' = pc /\ i < ht.alloc_size /\ i' = i + 1
      /\ ht' = ht /\ size' = size /\ arg' = arg /\ rv' = rv
      /\ IsTable(new) /\ Reachable(new) /\ HalfEmpty(new)
      /\ IsFiniteSet(Moved) /\ Cardinality(Moved) \in Nat
  BY Searchable DEF Rehash
<1>2. /\ IsTable(ht) /\ Reachable(ht) /\ i \in 0..ht.alloc_size
      /\ ht.alloc_size \in Nat /\ i \in Places(ht) /\ i \in Nat
  <2>1. IsTable(ht) /\ Reachable(ht) /\ i \in 0..ht.alloc_size
    BY <1>1 DEF IInv, TypeOK, AllReachable
  <2> QED
    BY <2>1, <1>1, TableFacts DEF Places
<1>3. \A q \in Full(ht) : q \in Nat
  BY <1>2 DEF Full, Places
<1>4. SUFFICES
        /\ IsTable(new') /\ Reachable(new') /\ new'.alloc_size = new.alloc_size
        /\ Held(new') = {ht.keys[q] : q \in Moved'}
        /\ Cardinality(Full(new')) = Cardinality(Moved')
        /\ \A q \in Moved' : \E r \in Full(new') :
             new'.keys[r] = ht.keys[q] /\ new'.values[r] = ht.values[q]
  <2>1. TypeOK'
    <3>1. IsTable(ht)' /\ IsTable(new)'
      BY <1>1, <1>2, <1>4 DEF IsTable, Places, Full
    <3>2. i + 1 \in 0..ht.alloc_size
      BY <1>1, <1>2
    <3> QED
      BY <3>1, <3>2, <1>1 DEF IInv, TypeOK
  <2>2. SizeCounts'
    BY <1>1, <1>4 DEF IInv, SizeCounts, Full, Places
  <2>3. AllReachable'
    BY <1>1, <1>2, <1>4 DEF AllReachable, Reachable, Places, Full
  <2>4. RehashInv'
    <3>1. arg'.key \notin Held(ht)'
      BY <1>1 DEF IInv, RehashInv, Held, Full, Places
    <3>2. Held(new)' = Held(new') /\ Full(new)' = Full(new')
      BY DEF Held, Full, Places
    <3> QED
      BY <3>1, <3>2, <1>1, <1>4 DEF RehashInv
  <2> QED
    BY <2>1, <2>2, <2>3, <2>4 DEF IInv
<1>5. CASE ht.buckets[i] # FULL
  <2>1. new' = new /\ i \notin Full(ht)
    BY <1>5 DEF Rehash, Full
  <2>2. Moved' = Moved
    <3>1. \A q \in Full(ht) : q < i + 1 <=> q < i
      BY <2>1, <1>2, <1>3
    <3> QED
      BY <3>1, <1>1 DEF Moved, Full, Places
  <2> QED
    BY <2>1, <2>2, <1>1 DEF IInv, RehashInv
<1>6. CASE ht.buckets[i] = FULL
  <2>1. new' = Put(new, p, k, v) /\ i \in Full(ht)
    BY <1>2, <1>6 DEF Rehash, Full
  <2>2. Moved' = Moved \union {i} /\ i \notin Moved
    <3>1. \A q \in Full(ht) : q < i + 1 <=> q < i \/ q = i
      BY <1>2, <1>3
    <3>2. Moved' = {q \in Full(ht) : q < i + 1}
      BY <1>1 DEF Moved, Full, Places
    <3> QED
      BY <3>1, <3>2, <2>1, <1>2 DEF Moved
  <2>3. k \in Keys /\ v \in Values \union {NIL}
    BY <2>1, <1>2 DEF IsTable
  <2>4. Held(new) = {ht.keys[q] : q \in Moved} /\ Cardinality(Full(new)) = Cardinality(Moved)
    BY <1>1 DEF IInv, RehashInv
  <2>5. k \notin Held(new)
    <3>1. Moved \subseteq Full(ht)
      BY DEF Moved
    <3>2. \A q \in Moved : ht.keys[q] # k
      BY <3>1, <2>1, <2>2, <1>2 DEF Reachable
    <3> QED
      BY <3>2, <2>4
  <2>6. Vacant(new, k, p)
    <3>1. ~(p \in Full(new) /\ new.keys[p] = k)
      BY <2>5 DEF Held
    <3> QED
      BY <3>1, <2>3, <1>1, QueryAnswers
  <2> HIDE DEF k, v, p
  <2>7. /\ IsTable(new') /\ Reachable(new') /\ new'.alloc_size = new.alloc_size
        /\ Full(new') = Full(new) \union {p}
        /\ Cardinality(Full(new')) = Cardinality(Full(new)) + 1
        /\ new'.keys[p] = k /\ new'.values[p] = v
        /\ \A q \in Full(new) :
             new'.keys[q] = new.keys[q] /\ new'.values[q] = new.values[q]
        /\ Held(new') = Held(new) \union {k}
    BY <2>1, <2>3, <2>5, <2>6, <1>1, PutKeeps
  <2>8. Cardinality(Moved') = Cardinality(Moved) + 1
    BY <2>2, <1>1, FS_AddElement
  <2>9. Held(new') = {ht.keys[q] : q \in Moved'}
    BY <2>2, <2>4, <2>7 DEF k
  <2>10. ASSUME NEW q \in Moved'
         PROVE  \E r \in Full(new') :
                  new'.keys[r] = ht.keys[q] /\ new'.values[r] = ht.values[q]
    <3>1. CASE q = i
      BY <3>1, <2>7 DEF k, v
    <3>2. CASE q \in Moved
      <4>1. PICK r \in Full(new) :
              new.keys[r] = ht.keys[q] /\ new.values[r] = ht.values[q]
        BY <3>2, <1>1 DEF IInv, RehashInv
      <4> QED
        BY <4>1, <2>7
    <3> QED
      BY <3>1, <3>2, <2>2
  <2> QED
    BY <2>4, <2>7, <2>8, <2>9, <2>10
<1> QED
  BY <1>2, <1>5, <1>6 DEF IsTable

LEMMA EndRehashStep ==
  ASSUME NoWrap, IInv, EndRehash
  PROVE  IInv'
<1> DEFINE k == arg.key
           v == arg.value
           p == query(new, k)
<1>1. /\ pc = "rehash" /\ pc' = "idle" /\ i = ht.alloc_size
      /\ size' = size /\ rv' = NoAnswer
      /\ IsTable(new) /\ Reachable(new) /\ HalfEmpty(new)
      /\ ht' = Put(new, p, k, v)
  BY Searchable DEF EndRehash
<1>2. k \in Keys /\ v \in Values /\ size \in Nat /\ IsTable(ht) /\ Reachable(ht)
  BY <1>1 DEF IInv, TypeOK, AllReachable
<1>3. Moved = Full(ht)
  <2>1. ht.alloc_size \in Nat
    BY <1>2, TableFacts
  <2>2. \A q \in Full(ht) : q < i
    BY <2>1, <1>1 DEF Full, Places
  <2> QED
    BY <2>2 DEF Moved
<1>4. /\ Held(new) = Held(ht) /\ k \notin Held(ht)
      /\ size = Cardinality(Full(new)) + 1 /\ size * 2 < new.alloc_size
  BY <1>1, <1>3 DEF IInv, RehashInv, SizeCounts, Held
<1>5. Vacant(new, k, p)
  <2>1. ~(p \in Full(new) /\ new.keys[p] = k)
    BY <1>4 DEF Held
  <2> QED
    BY <2>1, <1>1, <1>2, QueryAnswers
<1> HIDE DEF k, v, p
<1>6. /\ IsTable(ht') /\ Reachable(ht') /\ ht'.alloc_size = new.alloc_size
      /\ Cardinality(Full(ht')) = Cardinality(Full(new)) + 1
  BY <1>1, <1>2, <1>4, <1>5, PutKeeps
<1>7. TypeOK'
  <2>1. IsTable(ht)'
    BY <1>6 DEF IsTable, Places, Full
  <2> QED
    BY <2>1, <1>1, <1>2 DEF TypeOK, NoAnswer, Answers
<1>8. SizeCounts'
  BY <1>1, <1>4, <1>6 DEF SizeCounts, Full, Places
<1>9. AllReachable'
  BY <1>1, <1>6 DEF AllReachable, Reachable, Places, Full
<1>10. RehashInv'
  BY <1>1 DEF RehashInv
<1> QED
  BY <1>7, <1>8, <1>9, <1>10 DEF IInv

LEMMA NextInv ==
  ASSUME NoWrap, IInv, [Next]_vars
  PROVE  IInv'
<1>1. ASSUME NEW key \in Keys, ht_query(key) PROVE IInv'
  BY <1>1, QueryStep
<1>2. ASSUME NEW key \in Keys, ht_remove(key) PROVE IInv'
  BY <1>2, RemoveStep
<1>3. ASSUME NEW key \in Keys, NEW value \in Values, Overwrite(key, value)
      PROVE  IInv'
  BY <1>3, OverwriteStep
<1>4. ASSUME NEW key \in Keys, NEW value \in Values, Add(key, value)
      PROVE  IInv'
  BY <1>4, AddStep
<1>5. ASSUME NEW key \in Keys, NEW value \in Values, StartRehash(key, value)
      PROVE  IInv'
  BY <1>5, StartRehashStep
<1>6. CASE ht_clear
  BY <1>6, ClearStep
<1>7. CASE Rehash
  BY <1>7, RehashStep
<1>8. CASE EndRehash
  BY <1>8, EndRehashStep
<1>9. CASE UNCHANGED vars
  <2>1. /\ pc' = pc /\ ht' = ht /\ size' = size /\ new' = new /\ i' = i
        /\ arg' = arg /\ rv' = rv
    BY <1>9 DEF vars
  <2>2. Moved' = Moved
    BY <2>1 DEF Moved, Full, Places
  <2>3. TypeOK'
    BY <2>1 DEF IInv, TypeOK, IsTable, Full, Places
  <2>4. SizeCounts'
    BY <2>1 DEF IInv, SizeCounts, Full, Places
  <2>5. AllReachable'
    BY <2>1 DEF IInv, AllReachable, Reachable, Full, Places
  <2>6. RehashInv'
    <3>1. Held(ht)' = Held(ht) /\ Held(new)' = Held(new) /\ Full(new)' = Full(new)
      BY <2>1 DEF Held, Full, Places
    <3> QED
      BY <2>1, <2>2, <3>1 DEF IInv, RehashInv
  <2> QED
    BY <2>3, <2>4, <2>5, <2>6 DEF IInv
<1> QED
  BY <1>1, <1>2, <1>3, <1>4, <1>5, <1>6, <1>7, <1>8, <1>9 DEF Next

(* Every table is well formed, in the middle of rehash() too.               *)
THEOREM Invariance == NoWrap => (Spec => []IInv)
<1>1. CASE NoWrap
  <2>1. Init => IInv
    BY InitInv
  <2>2. IInv /\ [Next]_vars => IInv'
    BY <1>1, NextInv
  <2> QED
    BY <2>1, <2>2, PTL DEF Spec
<1> QED
  BY <1>1

(* The variables keep their types: no array is read or written beyond its   *)
(* alloc_size elements.                                                     *)
THEOREM TypeCorrect == NoWrap => (Spec => []TypeOK)
<1>1. IInv => TypeOK
  BY DEF IInv
<1> QED
  BY <1>1, Invariance, PTL

(* ht->size is the number of full buckets, less than half of all.           *)
THEOREM SizeCorrect == NoWrap => (Spec => []SizeCounts)
<1>1. IInv => SizeCounts
  BY DEF IInv
<1> QED
  BY <1>1, Invariance, PTL

(* No key is in the table twice, and every key in it can be found.          *)
THEOREM ReachableCorrect == NoWrap => (Spec => []AllReachable)
<1>1. IInv => AllReachable
  BY DEF IInv
<1> QED
  BY <1>1, Invariance, PTL

(* The assert_never() at the end of query() is never reached.               *)
THEOREM QueryEndsCorrect == NoWrap => (Spec => []QueryEnds)
<1>1. CASE NoWrap
  <2>1. ASSUME NEW T, IsTable(T), NEW p \in Places(T)
        PROVE  p # NoPlace
    BY <2>1, TableFacts DEF Places, NoPlace
  <2>2. ASSUME IInv, pc = "idle", NEW key \in Keys
        PROVE  query(ht, key) # NoPlace
    BY <1>1, <2>1, <2>2, Searchable, QueryAnswers
  <2>3. ASSUME IInv, pc = "rehash", NEW key \in Keys
        PROVE  query(new, key) # NoPlace
    BY <1>1, <2>1, <2>3, Searchable, QueryAnswers
  <2>4. ASSUME IInv, pc = "rehash"
        PROVE  /\ arg.key \in Keys
               /\ i < ht.alloc_size /\ ht.buckets[i] = FULL => ht.keys[i] \in Keys
    <3>1. IsTable(ht) /\ i \in 0..ht.alloc_size /\ arg.key \in Keys
      BY <2>4 DEF IInv, TypeOK
    <3>2. i < ht.alloc_size => i \in Places(ht)
      BY <3>1, TableFacts DEF Places
    <3> QED
      BY <3>1, <3>2 DEF IsTable, Full
  <2>5. IInv => QueryEnds
    BY <2>2, <2>3, <2>4 DEF QueryEnds
  <2> QED
    BY <1>1, <2>5, Invariance, PTL
<1> QED
  BY <1>1

-----------------------------------------------------------------------------
(* The map that a table stands for is what its full buckets say.            *)
LEMMA ContentsFacts ==
  ASSUME NEW T, Reachable(T)
  PROVE  /\ DOMAIN Contents(T) = Held(T)
         /\ \A p \in Full(T) : Contents(T)[T.keys[p]] = T.values[p]
         /\ Contents(T) = [k \in Held(T) |-> Contents(T)[k]]
<1>1. ASSUME NEW p \in Full(T)
      PROVE  (CHOOSE q \in Full(T) : T.keys[q] = T.keys[p]) = p
  BY DEF Reachable
<1>2. \A k \in Held(T) :
         Contents(T)[k] = T.values[CHOOSE q \in Full(T) : T.keys[q] = k]
  BY DEF Contents
<1>3. ASSUME NEW p \in Full(T)
      PROVE  Contents(T)[T.keys[p]] = T.values[p]
  <2>1. T.keys[p] \in Held(T)
    BY DEF Held
  <2> QED
    BY <2>1, <1>1, <1>2
<1>4. DOMAIN Contents(T) = Held(T) /\ Contents(T) = [k \in Held(T) |-> Contents(T)[k]]
  BY DEF Contents
<1> QED
  BY <1>3, <1>4

LEMMA ContentsAre ==
  ASSUME NEW T, Reachable(T), NEW f, f = [k \in Held(T) |-> f[k]],
         \A p \in Full(T) : f[T.keys[p]] = T.values[p]
  PROVE  Contents(T) = f
<1>1. ASSUME NEW k \in Held(T)
      PROVE  Contents(T)[k] = f[k]
  <2>1. PICK p \in Full(T) : k = T.keys[p]
    BY DEF Held
  <2> QED
    BY <2>1, ContentsFacts
<1> QED
  BY <1>1, ContentsFacts

Updated(m, key, value) ==
  [k \in DOMAIN m \union {key} |-> IF k = key THEN value ELSE m[k]]

(* Putting a key that was missing sets it.                                  *)
LEMMA PutSets ==
  ASSUME NEW T, Reachable(T), NEW U, Reachable(U), NEW key, NEW value, NEW p,
         Full(U) = Full(T) \union {p}, Held(U) = Held(T) \union {key},
         key \notin Held(T),
         U.keys[p] = key, U.values[p] = value,
         \A q \in Full(T) : U.keys[q] = T.keys[q] /\ U.values[q] = T.values[q]
  PROVE  Contents(U) = Updated(Contents(T), key, value)
<1> DEFINE f == [k \in Held(T) \union {key} |->
                   IF k = key THEN value ELSE Contents(T)[k]]
<1>1. f = [k \in Held(U) |-> f[k]]
  OBVIOUS
<1>2. f[key] = value
  OBVIOUS
<1>3. ASSUME NEW q \in Full(T)
      PROVE  f[U.keys[q]] = U.values[q]
  <2>1. T.keys[q] \in Held(T) /\ T.keys[q] # key
    BY DEF Held
  <2> QED
    BY <2>1, ContentsFacts
<1>4. \A q \in Full(U) : f[U.keys[q]] = U.values[q]
  BY <1>2, <1>3
<1>5. Contents(U) = f
  <2> HIDE DEF f
  <2> QED
    BY <1>1, <1>4, ContentsAre
<1> QED
  BY <1>5, ContentsFacts DEF Updated

(* The moves of rehash() are complete at its end.                           *)
LEMMA RehashedContents ==
  ASSUME IInv, pc = "rehash", i = ht.alloc_size
  PROVE  Held(new) = Held(ht) /\ Contents(new) = Contents(ht)
<1>1. IsTable(ht) /\ Reachable(ht) /\ Reachable(new)
  BY DEF IInv, TypeOK, AllReachable
<1>2. ht.alloc_size \in Nat
  BY <1>1, TableFacts
<1>3. \A q \in Full(ht) : q < i
  BY <1>2 DEF Full, Places
<1>4. Moved = Full(ht)
  BY <1>3 DEF Moved
<1>5. /\ Held(new) = Held(ht)
      /\ \A p \in Full(ht) : \E q \in Full(new) :
           new.keys[q] = ht.keys[p] /\ new.values[q] = ht.values[p]
  BY <1>4 DEF IInv, RehashInv, Held
<1>6. ASSUME NEW p \in Full(ht)
      PROVE  Contents(new)[ht.keys[p]] = ht.values[p]
  BY <1>1, <1>5, ContentsFacts
<1>7. Contents(new) = [k \in Held(ht) |-> Contents(new)[k]]
  BY <1>1, <1>5, ContentsFacts
<1>8. Contents(ht) = Contents(new)
  BY <1>1, <1>6, <1>7, ContentsAre
<1> QED
  BY <1>5, <1>8

LEMMA PrimedContents == Contents(ht)' = Contents(ht')
BY DEF Contents, Held, Full, Places

(* Every step of the table is a step of the map, or changes nothing of it.  *)
LEMMA StepRefines ==
  ASSUME NoWrap, IInv, IInv', [Next]_vars
  PROVE  [Promise!Next]_<<Contents(ht), rv>>
<1> DEFINE M == Contents(ht)
<1>0. Promise!NoAnswer = NoAnswer
  BY DEF Promise!NoAnswer, NoAnswer
<1>1. ASSUME NEW key \in Keys, ht_query(key)
      PROVE  Promise!Query(key)
  <2>1. /\ pc = "idle" /\ ht' = ht
        /\ IsTable(ht) /\ Reachable(ht) /\ HalfEmpty(ht)
    BY <1>1, Searchable DEF ht_query
  <2>2. DOMAIN M = Held(ht)
    BY <2>1, ContentsFacts
  <2>3. CASE Holds(ht, key)
    <3>1. query(ht, key) \in Full(ht) /\ ht.keys[query(ht, key)] = key
      BY <2>1, <2>3, QueryAnswers
    <3>2. key \in Held(ht) /\ M[key] = ht.values[query(ht, key)]
      BY <3>1, <2>1, ContentsFacts DEF Held
    <3>3. rv' = [key |-> key, found |-> TRUE, value |-> M[key]]
      BY <3>2, <2>3, <1>1 DEF ht_query, Holds
    <3> QED
      BY <3>2, <3>3, <2>1, <2>2, PrimedContents DEF Promise!Query
  <2>4. CASE ~Holds(ht, key)
    <3>1. key \notin Held(ht)
      BY <2>1, <2>4, QueryAnswers
    <3>2. rv' = [key |-> key, found |-> FALSE, value |-> NIL]
      BY <2>4, <1>1 DEF ht_query, Holds
    <3>3. M' = M /\ key \notin DOMAIN M
      BY <3>1, <2>1, <2>2, PrimedContents
    <3> HIDE DEF M
    <3>4. rv' = [key   |-> key,
                 found |-> key \in DOMAIN M,
                 value |-> IF key \in DOMAIN M THEN M[key] ELSE NIL]
      <4>1. (key \in DOMAIN M) = FALSE
        BY <3>3
      <4>2. (IF key \in DOMAIN M THEN M[key] ELSE NIL) = NIL
        BY <3>3
      <4> QED
        BY <3>2, <4>1, <4>2, Zenon
    <3> QED
      BY <3>3, <3>4 DEF Promise!Query, M
  <2> QED
    BY <2>3, <2>4
<1>2. ASSUME NEW key \in Keys, ht_remove(key)
      PROVE  Promise!Remove(key)
  <2> DEFINE p == query(ht, key)
  <2>1. /\ pc = "idle" /\ rv' = [key |-> key, found |-> Holds(ht, key), value |-> NIL]
        /\ IsTable(ht) /\ Reachable(ht) /\ HalfEmpty(ht)
    BY <1>2, Searchable DEF ht_remove
  <2>2. DOMAIN M = Held(ht) /\ M = [k \in Held(ht) |-> M[k]]
    BY <2>1, ContentsFacts
  <2>3. CASE Holds(ht, key)
    <3>1. p \in Full(ht) /\ ht.keys[p] = key /\ ht' = Drop(ht, p)
      BY <2>1, <2>3, <1>2, QueryAnswers DEF ht_remove
    <3> HIDE DEF p, M
    <3>2. /\ Reachable(ht') /\ Full(ht') = Full(ht) \ {p}
          /\ \A q \in Full(ht') : ht'.keys[q] = ht.keys[q] /\ ht'.values[q] = ht.values[q]
          /\ Held(ht') = Held(ht) \ {key}
      BY <3>1, <2>1, RemoveKeeps
    <3> DEFINE f == [k \in Held(ht) \ {key} |-> M[k]]
    <3>3. f = [k \in Held(ht') |-> f[k]]
      BY <3>2
    <3>4. ASSUME NEW q \in Full(ht')
          PROVE  f[ht'.keys[q]] = ht'.values[q]
      <4>1. q \in Full(ht) /\ ht.keys[q] \in Held(ht) /\ ht.keys[q] # key
        BY <3>1, <3>2, <2>1 DEF Held, Reachable
      <4>2. M[ht.keys[q]] = ht.values[q]
        BY <4>1, <2>1, ContentsFacts DEF M
      <4> QED
        BY <4>1, <4>2, <3>2
    <3>5. Contents(ht') = f
      <4> HIDE DEF f
      <4> QED
        BY <3>2, <3>3, <3>4, ContentsAre
    <3>6. key \in Held(ht)
      BY <3>1 DEF Held
    <3> QED
      BY <3>5, <3>6, <2>1, <2>2, <2>3, PrimedContents DEF Promise!Remove, M
  <2>4. CASE ~Holds(ht, key)
    <3>1. key \notin Held(ht) /\ ht' = ht
      BY <2>1, <2>4, <1>2, QueryAnswers DEF ht_remove
    <3> HIDE DEF M
    <3>2. Held(ht) \ {key} = Held(ht)
      BY <3>1
    <3>3. M = [k \in DOMAIN M \ {key} |-> M[k]] /\ key \notin DOMAIN M
      BY <3>1, <3>2, <2>2
    <3>4. M' = M
      BY <3>1, PrimedContents DEF M
    <3>5. Contents(ht)' = [k \in DOMAIN Contents(ht) \ {key} |-> Contents(ht)[k]]
      BY <3>3, <3>4 DEF M
    <3>6. rv' = [key |-> key, found |-> key \in DOMAIN Contents(ht), value |-> NIL]
      <4>1. Holds(ht, key) = (key \in DOMAIN Contents(ht))
        BY <3>3, <2>4 DEF M, Holds
      <4> QED
        BY <4>1, <2>1
    <3> QED
      BY <3>5, <3>6 DEF Promise!Remove
  <2> QED
    BY <2>3, <2>4
<1>3. ASSUME ht_clear
      PROVE  Promise!Clear
  <2>1. LargestSize \in Sizes
    BY SizesAssumption DEF LargestSize, Sizes
  <2>2. map_prime(0) \in Sizes
    BY <2>1, SizeFacts, MapPrime
  <2>3. Held(ht') = {} /\ Reachable(ht') /\ rv' = NoAnswer
    BY <1>3, <2>2, ZeroedTable DEF ht_clear
  <2>4. Contents(ht') = [k \in {} |-> NIL]
    BY <2>3 DEF Contents
  <2> QED
    BY <2>3, <2>4, <1>0, PrimedContents DEF Promise!Clear
<1>4. ASSUME NEW key \in Keys, NEW value \in Values, Overwrite(key, value)
      PROVE  Promise!Set(key, value)
  <2> DEFINE p == query(ht, key)
  <2>1. /\ pc = "idle" /\ rv' = NoAnswer /\ Holds(ht, key)
        /\ IsTable(ht) /\ Reachable(ht) /\ HalfEmpty(ht)
        /\ ht' = Assign(ht, p, value)
    BY <1>4, Searchable DEF Overwrite
  <2>2. p \in Full(ht) /\ ht.keys[p] = key
    BY <2>1, QueryAnswers
  <2> HIDE DEF p, M
  <2>3. /\ Reachable(ht') /\ Full(ht') = Full(ht) /\ ht'.keys = ht.keys
        /\ Held(ht') = Held(ht) /\ ht'.values[p] = value
        /\ \A q \in Full(ht) : q # p => ht'.values[q] = ht.values[q]
    BY <2>1, <2>2, OverwriteKeeps
  <2>4. key \in Held(ht) /\ DOMAIN M = Held(ht)
    BY <2>1, <2>2, ContentsFacts DEF Held, M
  <2> DEFINE f == [k \in Held(ht) |-> IF k = key THEN value ELSE M[k]]
  <2>5. f = [k \in Held(ht') |-> f[k]]
    BY <2>3
  <2>6. ASSUME NEW q \in Full(ht')
        PROVE  f[ht'.keys[q]] = ht'.values[q]
    <3>1. q \in Full(ht) /\ ht.keys[q] \in Held(ht)
      BY <2>3 DEF Held
    <3>2. M[ht.keys[q]] = ht.values[q] /\ (ht.keys[q] = key <=> q = p)
      BY <3>1, <2>1, <2>2, ContentsFacts DEF Reachable, M
    <3> QED
      BY <3>1, <3>2, <2>3
  <2>7. Contents(ht') = f
    <3> HIDE DEF f
    <3> QED
      BY <2>3, <2>5, <2>6, ContentsAre
  <2>8. Held(ht) \union {key} = Held(ht)
    BY <2>4
  <2> QED
    BY <2>1, <2>4, <2>7, <2>8, <1>0, PrimedContents DEF Promise!Set, M
<1>5. ASSUME NEW key \in Keys, NEW value \in Values, Add(key, value)
      PROVE  Promise!Set(key, value)
  <2> DEFINE p == query(ht, key)
  <2>1. /\ pc = "idle" /\ rv' = NoAnswer /\ ~Holds(ht, key)
        /\ IsTable(ht) /\ Reachable(ht) /\ HalfEmpty(ht)
        /\ ht' = Put(ht, p, key, value)
    BY <1>5, Searchable DEF Add
  <2>2. key \notin Held(ht) /\ Vacant(ht, key, p)
    BY <2>1, QueryAnswers
  <2> HIDE DEF p
  <2>3. /\ Reachable(ht') /\ Full(ht') = Full(ht) \union {p}
        /\ ht'.keys[p] = key /\ ht'.values[p] = value
        /\ \A q \in Full(ht) : ht'.keys[q] = ht.keys[q] /\ ht'.values[q] = ht.values[q]
        /\ Held(ht') = Held(ht) \union {key}
    BY <2>1, <2>2, PutKeeps
  <2>4. Contents(ht') = Updated(M, key, value)
    BY <2>1, <2>2, <2>3, PutSets
  <2> QED
    BY <2>1, <2>4, <1>0, PrimedContents DEF Promise!Set, Updated
<1>6. ASSUME EndRehash
      PROVE  Promise!Set(arg.key, arg.value) /\ arg.key \in Keys /\ arg.value \in Values
  <2> DEFINE p == query(new, arg.key)
             key == arg.key
             value == arg.value
  <2>1. /\ pc = "rehash" /\ i = ht.alloc_size /\ rv' = NoAnswer
        /\ IsTable(new) /\ Reachable(new) /\ HalfEmpty(new)
        /\ ht' = Put(new, p, key, value)
    BY <1>6, Searchable DEF EndRehash
  <2>2. /\ key \in Keys /\ value \in Values /\ Reachable(ht)
        /\ key \notin Held(ht)
    BY <2>1 DEF IInv, TypeOK, RehashInv, AllReachable
  <2>3. Held(new) = Held(ht) /\ Contents(new) = M
    BY <2>1, RehashedContents
  <2>4. Vacant(new, key, p)
    <3>1. ~(p \in Full(new) /\ new.keys[p] = key)
      BY <2>2, <2>3 DEF Held
    <3> QED
      BY <3>1, <2>1, <2>2, QueryAnswers
  <2> HIDE DEF p, key, value
  <2>5. /\ Reachable(ht') /\ Full(ht') = Full(new) \union {p}
        /\ ht'.keys[p] = key /\ ht'.values[p] = value
        /\ \A q \in Full(new) : ht'.keys[q] = new.keys[q] /\ ht'.values[q] = new.values[q]
        /\ Held(ht') = Held(new) \union {key}
    BY <2>1, <2>2, <2>3, <2>4, PutKeeps
  <2>6. Contents(ht') = Updated(Contents(new), key, value)
    BY <2>1, <2>2, <2>3, <2>5, PutSets
  <2> QED
    BY <2>1, <2>2, <2>3, <2>6, <1>0, PrimedContents
       DEF Promise!Set, Updated, key, value
<1>7. ASSUME ht' = ht, rv' = rv
      PROVE  UNCHANGED <<Contents(ht), rv>>
  BY <1>7, PrimedContents
<1>8. ASSUME NEW key \in Keys, NEW value \in Values, StartRehash(key, value)
      PROVE  ht' = ht /\ rv' = rv
  BY <1>8 DEF StartRehash
<1>9. Rehash \/ UNCHANGED vars => ht' = ht /\ rv' = rv
  BY DEF Rehash, vars
<1> QED
  BY <1>1, <1>2, <1>3, <1>4, <1>5, <1>6, <1>7, <1>8, <1>9
     DEF Next, Promise!Next

(* The hash table is a map (and a set), for every key and value: ht_query,  *)
(* ht_set, ht_remove and ht_clear do to the buckets what the operations of  *)
(* the abstract map do to the map, across rehash() too.                     *)
THEOREM Refinement == NoWrap => (Spec => ImplementsMap)
<1>1. CASE NoWrap
  <2>1. Init => Promise!Init
    <3> SUFFICES ASSUME Init PROVE Promise!Init
      OBVIOUS
    <3>1. PICK n \in Sizes : ht = Zeroed(n)
      BY DEF Init
    <3>2. Held(ht) = {}
      BY <3>1, ZeroedTable
    <3>3. Contents(ht) = [k \in {} |-> NIL]
      BY <3>2 DEF Contents
    <3> QED
      BY <3>3 DEF Init, Promise!Init, NoAnswer, Promise!NoAnswer
  <2>2. IInv /\ IInv' /\ [Next]_vars => [Promise!Next]_<<Contents(ht), rv>>
    BY <1>1, StepRefines
  <2> QED
    BY <1>1, <2>1, <2>2, Invariance, PTL DEF Spec, ImplementsMap, Promise!Spec
<1> QED
  BY <1>1

-----------------------------------------------------------------------------
(***************************************************************************)
(* A loop over a table that is changed meanwhile is complete, for every    *)
(* set of keys whose hashes do not wrap around and every hash function.    *)
(***************************************************************************)

(* A table is rehashed only when it is too small.                           *)
Crowded == pc = "rehash" => size * 2 >= ht.alloc_size

(* How far the loop has come: it has met exactly the places before cur.     *)
Progress ==
  cur # NoIter /\ ~resized =>
    \A p \in Full(ht) :
      ht.keys[p] \in stayed => seen[ht.keys[p]] = IF p < cur THEN 1 ELSE 0

IterInv ==
  /\ IInv /\ Crowded
  /\ cur \in Nat \union {NoIter}
  /\ seen \in [Keys -> Nat]
  /\ resized \in BOOLEAN /\ looped \in BOOLEAN
  /\ looped => cur = NoIter
  /\ stayed \subseteq Held(ht)
  /\ Progress
  /\ LoopComplete

(* As long as a table keeps its size, the keys that stay in it stay where   *)
(* they are.                                                                *)
InPlace(T, U) ==
  \A p \in Full(U) : U.keys[p] \in Held(T) => p \in Full(T) /\ T.keys[p] = U.keys[p]

(* What the table does in one step, as a loop over it sees that.            *)
LEMMA StaysInPlace ==
  ASSUME NoWrap, IInv, Crowded, Next
  PROVE  ht'.alloc_size # ht.alloc_size \/ InPlace(ht, ht')
<1>1. CASE ht' = ht
  BY <1>1 DEF InPlace
<1>2. ASSUME NEW key \in Keys, ht_remove(key), ht' # ht
      PROVE  InPlace(ht, ht')
  <2> DEFINE p == query(ht, key)
  <2>1. IsTable(ht) /\ Reachable(ht) /\ HalfEmpty(ht)
    BY <1>2, Searchable DEF ht_remove
  <2>2. Holds(ht, key) /\ ht' = Drop(ht, p)
    BY <1>2 DEF ht_remove
  <2>3. p \in Full(ht)
    BY <2>1, <2>2, QueryAnswers
  <2> HIDE DEF p
  <2>4. /\ Full(ht') = Full(ht) \ {p}
        /\ \A q \in Full(ht') : ht'.keys[q] = ht.keys[q]
    BY <2>1, <2>2, <2>3, RemoveKeeps
  <2> QED BY <2>4 DEF InPlace
<1>3. ASSUME NEW key \in Keys, NEW value \in Values, Overwrite(key, value)
      PROVE  InPlace(ht, ht')
  <2> DEFINE p == query(ht, key)
  <2>1. IsTable(ht) /\ Reachable(ht) /\ HalfEmpty(ht)
    BY <1>3, Searchable DEF Overwrite
  <2>2. Holds(ht, key) /\ ht' = Assign(ht, p, value)
    BY <1>3 DEF Overwrite
  <2>3. p \in Full(ht)
    BY <2>1, <2>2, QueryAnswers
  <2> HIDE DEF p
  <2>4. Full(ht') = Full(ht) /\ ht'.keys = ht.keys
    BY <2>1, <2>2, <2>3, OverwriteKeeps
  <2> QED BY <2>4 DEF InPlace
<1>4. ASSUME NEW key \in Keys, NEW value \in Values, Add(key, value)
      PROVE  InPlace(ht, ht')
  <2> DEFINE p == query(ht, key)
  <2>1. IsTable(ht) /\ Reachable(ht) /\ HalfEmpty(ht)
    BY <1>4, Searchable DEF Add
  <2>2. ~Holds(ht, key) /\ ht' = Put(ht, p, key, value)
    BY <1>4 DEF Add
  <2>3. key \notin Held(ht) /\ Vacant(ht, key, p)
    BY <2>1, <2>2, QueryAnswers
  <2> HIDE DEF p
  <2>4. /\ Full(ht') = Full(ht) \union {p} /\ ht'.keys[p] = key
        /\ \A q \in Full(ht) : ht'.keys[q] = ht.keys[q]
    BY <2>1, <2>2, <2>3, PutKeeps
  <2> QED BY <2>3, <2>4 DEF InPlace
<1>5. CASE ht_clear
  <2>1. map_prime(0) \in Sizes
    <3>1. LargestSize \in Sizes
      BY SizesAssumption DEF LargestSize, Sizes
    <3> QED BY <3>1, SizeFacts, MapPrime
  <2>2. Full(ht') = {}
    BY <1>5, <2>1, ZeroedTable DEF ht_clear
  <2> QED BY <2>2 DEF InPlace
<1>6. CASE EndRehash
  <2> DEFINE p == query(new, arg.key)
  <2>1. pc = "rehash" /\ ht' = Put(new, p, arg.key, arg.value)
    BY <1>6 DEF EndRehash
  <2>2. ht'.alloc_size = new.alloc_size
    BY <2>1 DEF Put
  <2>3. IsTable(ht) /\ IsTable(new) /\ size \in Nat /\ size * 2 < new.alloc_size
    BY <2>1 DEF IInv, TypeOK, SizeCounts
  <2>4. ht.alloc_size \in Nat /\ new.alloc_size \in Nat
    BY <2>3, TableFacts
  <2> QED BY <2>1, <2>2, <2>3, <2>4 DEF Crowded
<1>7. \/ ht' = ht
      \/ \E key \in Keys : ht_remove(key)
      \/ \E key \in Keys, value \in Values : Overwrite(key, value) \/ Add(key, value)
      \/ ht_clear \/ EndRehash
  BY DEF Next, ht_query, StartRehash, Rehash
<1> QED BY <1>1, <1>2, <1>3, <1>4, <1>5, <1>6, <1>7

(* A rehash is only begun when there is no room.                            *)
LEMMA CrowdedStep ==
  ASSUME IInv, Crowded, [Next]_vars
  PROVE  Crowded'
<1>1. ASSUME NEW key \in Keys, NEW value \in Values, StartRehash(key, value)
      PROVE  Crowded'
  <2>1. size \in Nat /\ ht.alloc_size \in Nat
    BY TableFacts DEF IInv, TypeOK
  <2>2. ~HasRoom /\ size' = size + 1 /\ ht' = ht
    BY <1>1 DEF StartRehash
  <2> QED BY <2>1, <2>2 DEF HasRoom, Crowded
<1>2. CASE Rehash
  BY <1>2 DEF Rehash, Crowded
<1>3. CASE EndRehash
  BY <1>3 DEF EndRehash, Crowded
<1>4. CASE ht_clear
  BY <1>4 DEF ht_clear, NotRehashing, Crowded
<1>5. ASSUME NEW key \in Keys, ht_query(key) \/ ht_remove(key) PROVE Crowded'
  BY <1>5 DEF ht_query, ht_remove, NotRehashing, Crowded
<1>6. ASSUME NEW key \in Keys, NEW value \in Values, Overwrite(key, value) \/ Add(key, value)
      PROVE  Crowded'
  BY <1>6 DEF Overwrite, Add, NotRehashing, Crowded
<1>7. CASE UNCHANGED vars
  BY <1>7 DEF vars, Crowded
<1> QED BY <1>1, <1>2, <1>3, <1>4, <1>5, <1>6, <1>7 DEF Next

(* The loop's own steps leave the table alone.                              *)
LEMMA TableUnchanged ==
  ASSUME IInv, Crowded, NoWrap, UNCHANGED vars
  PROVE  IInv' /\ Crowded' /\ ht' = ht /\ pc' = pc
         /\ Full(ht)' = Full(ht) /\ Held(ht)' = Held(ht)
<1>1. IInv' /\ Crowded'
  BY NextInv, CrowdedStep
<1>2. ht' = ht /\ pc' = pc
  BY DEF vars
<1>3. Full(ht)' = Full(ht) /\ Held(ht)' = Held(ht)
  BY <1>2 DEF Full, Held, Places
<1> QED BY <1>1, <1>2, <1>3

(* A loop begins.                                                          *)
LEMMA GetIterStep ==
  ASSUME NoWrap, IterInv, get_iter
  PROVE  IterInv'
<1>1. /\ cur' = 0 /\ seen' = [k \in Keys |-> 0]
      /\ stayed' = Held(ht) /\ resized' = FALSE /\ looped' = FALSE
      /\ IInv' /\ Crowded' /\ ht' = ht
      /\ Full(ht)' = Full(ht) /\ Held(ht)' = Held(ht)
  BY TableUnchanged DEF get_iter, IterInv
<1>2. IsTable(ht) /\ Full(ht) \subseteq Nat /\ \A p \in Full(ht) : ht.keys[p] \in Keys
  <2>1. IsTable(ht)
    BY DEF IterInv, IInv, TypeOK
  <2>2. Full(ht) \subseteq Places(ht) /\ ht.alloc_size \in Nat
    BY <2>1, TableFacts
  <2>3. \A p \in Full(ht) : ht.keys[p] \in Keys
    BY <2>1 DEF IsTable
  <2> QED BY <2>1, <2>2, <2>3 DEF Places
<1>3. Progress'
  BY <1>1, <1>2 DEF Progress
<1>4. LoopComplete'
  BY <1>1 DEF LoopComplete
<1> QED BY <1>1, <1>3, <1>4 DEF IterInv

(* The loop goes on to the next full bucket, or ends.                      *)
LEMMA IterStep ==
  ASSUME NoWrap, IterInv, iter
  PROVE  IterInv'
<1> DEFINE ahead == {p \in Full(ht) : p >= cur}
           q     == Least(ahead)
<1>1. /\ pc = "idle" /\ cur # NoIter /\ UNCHANGED <<stayed, resized>>
      /\ IInv' /\ Crowded' /\ ht' = ht
      /\ Full(ht)' = Full(ht) /\ Held(ht)' = Held(ht)
  BY TableUnchanged DEF iter, IterInv
<1>2. /\ cur \in Nat /\ seen \in [Keys -> Nat] /\ resized \in BOOLEAN
      /\ stayed \subseteq Held(ht) /\ Progress
  BY <1>1 DEF IterInv
<1>3. /\ IsTable(ht) /\ Full(ht) \subseteq Nat
      /\ \A p \in Full(ht) : ht.keys[p] \in Keys
      /\ \A p, r \in Full(ht) : ht.keys[p] = ht.keys[r] => p = r
  <2>1. IsTable(ht) /\ Reachable(ht)
    BY DEF IterInv, IInv, TypeOK, AllReachable
  <2>2. Full(ht) \subseteq Places(ht) /\ ht.alloc_size \in Nat
    BY <2>1, TableFacts
  <2>3. \A p \in Full(ht) : ht.keys[p] \in Keys
    BY <2>1 DEF IsTable
  <2>4. \A p, r \in Full(ht) : ht.keys[p] = ht.keys[r] => p = r
    BY <2>1 DEF Reachable
  <2> QED BY <2>1, <2>2, <2>3, <2>4 DEF Places
<1>4. CASE ahead # {}
  <2>1. /\ cur' = q + 1 /\ looped' = looped
        /\ seen' = [seen EXCEPT ![ht.keys[q]] = @ + 1]
    BY <1>4 DEF iter
  <2>2. q \in ahead /\ \A p \in ahead : q <= p
    <3>1. ahead \in SUBSET Nat
      BY <1>3
    <3> QED BY <3>1, <1>4, LeastElement
  <2> HIDE DEF q
  <2>3. q \in Full(ht) /\ q \in Nat /\ q >= cur /\ ht.keys[q] \in Keys
    BY <2>2, <1>3
  <2>4. \A p \in Full(ht) : p >= cur => q <= p
    BY <2>2
  <2> HIDE DEF ahead
  <2>5. seen' \in [Keys -> Nat] /\ cur' \in Nat /\ cur' # NoIter
    BY <1>2, <2>1, <2>3 DEF NoIter
  <2>6. ASSUME ~resized, NEW p \in Full(ht), ht.keys[p] \in stayed
        PROVE  seen'[ht.keys[p]] = IF p < q + 1 THEN 1 ELSE 0
    <3>1. seen[ht.keys[p]] = IF p < cur THEN 1 ELSE 0
      BY <1>1, <1>2, <2>6 DEF Progress
    <3>2. CASE p = q
      BY <3>1, <3>2, <1>2, <2>1, <2>3
    <3>3. CASE p # q
      <4>1. ht.keys[p] # ht.keys[q] /\ ht.keys[p] \in Keys
        BY <3>3, <1>3, <2>3
      <4>2. seen'[ht.keys[p]] = seen[ht.keys[p]]
        BY <4>1, <1>2, <2>1
      <4>3. p < cur <=> p < q + 1
        BY <3>3, <1>2, <1>3, <2>3, <2>4
      <4> QED BY <3>1, <4>2, <4>3
    <3> QED BY <3>2, <3>3
  <2>7. Progress'
    BY <1>1, <2>1, <2>6 DEF Progress
  <2>8. looped = FALSE
    BY <1>1 DEF IterInv
  <2>9. LoopComplete'
    BY <2>1, <2>8 DEF LoopComplete
  <2> QED BY <1>1, <1>2, <2>1, <2>5, <2>7, <2>8, <2>9 DEF IterInv
<1>5. CASE ahead = {}
  <2>1. cur' = NoIter /\ looped' = TRUE /\ seen' = seen
    BY <1>5 DEF iter
  <2>2. ASSUME ~resized, NEW k \in stayed PROVE seen[k] = 1
    <3>1. PICK p \in Full(ht) : ht.keys[p] = k
      BY <1>2 DEF Held
    <3>2. p < cur
      BY <1>2, <1>3, <1>5
    <3> QED BY <1>1, <1>2, <2>2, <3>1, <3>2 DEF Progress
  <2>3. LoopComplete'
    BY <1>1, <2>1, <2>2 DEF LoopComplete
  <2>4. Progress'
    BY <2>1 DEF Progress
  <2> QED BY <1>1, <1>2, <2>1, <2>3, <2>4 DEF IterInv
<1> QED BY <1>4, <1>5

(* The table is used in the body of the loop or outside of it.              *)
LEMMA OperateStep ==
  ASSUME NoWrap, IterInv, Operate
  PROVE  IterInv'
<1>1. /\ stayed' = stayed \intersect Held(ht') /\ looped' = FALSE
      /\ resized' = (resized \/ ht'.alloc_size # ht.alloc_size)
      /\ cur' = cur /\ seen' = seen
  BY DEF Operate
<1>2. IInv' /\ Crowded'
  BY NextInv, CrowdedStep DEF IterInv, Operate
<1>3. ht'.alloc_size # ht.alloc_size \/ InPlace(ht, ht')
  BY StaysInPlace DEF IterInv, Operate
<1>4. Full(ht)' = Full(ht') /\ Held(ht)' = Held(ht')
  BY DEF Full, Held, Places
<1>5. /\ cur \in Nat \union {NoIter} /\ seen \in [Keys -> Nat]
      /\ resized \in BOOLEAN /\ stayed \subseteq Held(ht) /\ Progress
  BY DEF IterInv
<1>6. Progress'
  <2> SUFFICES ASSUME cur # NoIter, ~resized', NEW p \in Full(ht'),
                      ht'.keys[p] \in stayed'
               PROVE  seen[ht'.keys[p]] = IF p < cur THEN 1 ELSE 0
    BY <1>1, <1>4 DEF Progress
  <2>1. ~resized /\ InPlace(ht, ht')
    BY <1>1, <1>3
  <2>2. ht'.keys[p] \in stayed /\ ht'.keys[p] \in Held(ht)
    BY <1>1, <1>5
  <2>3. p \in Full(ht) /\ ht.keys[p] = ht'.keys[p]
    BY <2>1, <2>2 DEF InPlace
  <2> QED BY <1>5, <2>1, <2>2, <2>3 DEF Progress
<1>7. LoopComplete'
  BY <1>1 DEF LoopComplete
<1>8. stayed' \subseteq Held(ht)' /\ resized' \in BOOLEAN
  BY <1>1, <1>4
<1> QED BY <1>1, <1>2, <1>5, <1>6, <1>7, <1>8 DEF IterInv

(* Every behaviour of a table and of the loops over it keeps IterInv.       *)
LEMMA IterNextInv ==
  ASSUME NoWrap, IterInv, [IterNext]_<<vars, iterVars>>
  PROVE  IterInv'
<1>1. CASE get_iter
  BY <1>1, GetIterStep
<1>2. CASE iter
  BY <1>2, IterStep
<1>3. CASE Operate
  BY <1>3, OperateStep
<1>4. CASE UNCHANGED <<vars, iterVars>>
  <2>1. /\ UNCHANGED iterVars /\ IInv' /\ Crowded' /\ ht' = ht
        /\ Full(ht)' = Full(ht) /\ Held(ht)' = Held(ht)
    BY <1>4, TableUnchanged DEF IterInv
  <2>2. Progress' /\ LoopComplete'
    BY <2>1 DEF IterInv, Progress, LoopComplete, iterVars
  <2> QED BY <2>1, <2>2 DEF IterInv, iterVars
<1> QED BY <1>1, <1>2, <1>3, <1>4 DEF IterNext

(* No loop is under way in a new table.                                     *)
LEMMA IterInitInv == IterInit => IterInv
<1> SUFFICES ASSUME IterInit PROVE IterInv
  OBVIOUS
<1>1. IInv /\ Crowded
  BY InitInv DEF IterInit, Init, Crowded
<1>2. Progress /\ LoopComplete
  BY DEF IterInit, Progress, LoopComplete
<1> QED BY <1>1, <1>2 DEF IterInit, IterInv

(* SetIterator.iter() and MapIterator.iter(): a loop over a table that      *)
(* keeps its size answers every key that was there all along exactly once,  *)
(* whatever the body adds, removes and puts back.                           *)
THEOREM LoopCompleteCorrect == NoWrap => (IterSpec => []LoopComplete)
<1>1. CASE NoWrap
  <2>1. IterInit => IterInv
    BY IterInitInv
  <2>2. IterInv /\ [IterNext]_<<vars, iterVars>> => IterInv'
    BY <1>1, IterNextInv
  <2>3. IterInv => LoopComplete
    BY DEF IterInv
  <2> QED
    BY <2>1, <2>2, <2>3, PTL DEF IterSpec
<1> QED
  BY <1>1
=============================================================================
