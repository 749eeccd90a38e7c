----------------------------- MODULE HashTable ------------------------------
(***************************************************************************)
(* The hash table behind the ripe classes Map and Set:                     *)
(* vm/builtin/HashTable.c, with its users modules/Map/Map.rip and          *)
(* modules/Set/Set.rip.  ht_set() is "almost carbon copy of ht_set2()":    *)
(* a Set is a table whose only value is NIL and whose array values[] is    *)
(* never touched.  Set.rip alone removes and clears.                       *)
(*                                                                         *)
(* rehash() is a loop, modelled one turn at a time, in which the old table *)
(* is still in place.                                                      *)
(***************************************************************************)
EXTENDS Probing

CONSTANTS
  Values,
  NIL,         \* VALUE_NIL, and zeroed memory: both are 0
  do_values    \* TRUE: the table of a Map, FALSE: of a Set

ASSUME ValuesAssumption ==
  /\ do_values \in BOOLEAN
  /\ ~do_values => Values = {NIL}

VARIABLES
  pc,      \* idle, or rehash (in ht_set() or ht_set2())
  ht,      \* the table: alloc_size, buckets, keys, values
  size,    \* ht->size
  new,     \* rehash(): the new table
  i,       \* rehash(): the place of the old table that is moved next
  arg,     \* the key and value of the operation that rehashes
  rv       \* the key the last operation asked for, and its answer

vars == <<pc, ht, size, new, i, arg, rv>>

EMPTY    == "empty"
WAS_FULL == "was_full"
FULL     == "full"

NoAnswer == [key |-> NIL, found |-> FALSE, value |-> NIL]
Nothing  == << >>     \* the value of a variable that is out of scope
NoPlace  == -1        \* query() ran into assert_never()

Places(T) == 0..T.alloc_size - 1

(* mem_calloc() of the arrays.                                              *)
Zeroed(n) ==
  [alloc_size |-> n,
   buckets    |-> [p \in 0..n-1 |-> EMPTY],
   keys       |-> [p \in 0..n-1 |-> NIL],
   values     |-> [p \in 0..n-1 |-> NIL]]

(* Buckets[p] = FULL, keys[p] = key and, in a Map, values[p] = value.       *)
Put(T, p, key, value) ==
  [alloc_size |-> T.alloc_size,
   buckets    |-> [T.buckets EXCEPT ![p] = FULL],
   keys       |-> [T.keys EXCEPT ![p] = key],
   values     |-> IF do_values THEN [T.values EXCEPT ![p] = value] ELSE T.values]

(* Buckets[p] = WAS_FULL and keys[p] = VALUE_NIL.                           *)
Drop(T, p) == [T EXCEPT !.buckets[p] = WAS_FULL, !.keys[p] = NIL]

(* Values[p] = value, in a Map.                                             *)
Assign(T, p, value) == IF do_values THEN [T EXCEPT !.values[p] = value] ELSE T

-----------------------------------------------------------------------------
(* The turns idx of query()'s loop that return: an empty bucket or the key. *)
Stops(T, key) ==
  {idx \in Places(T) :
     LET p == Place(key, idx, T.alloc_size)
     IN  \/ T.buckets[p] = EMPTY
         \/ T.buckets[p] = FULL /\ T.keys[p] = key}

(* The turns before that meet a removed bucket: first_empty becomes true.   *)
Removed(T, key) ==
  {idx \in Places(T) :
     /\ T.buckets[Place(key, idx, T.alloc_size)] = WAS_FULL
     /\ \A s \in Stops(T, key) : idx < s}

(* Mutant: a removed bucket ends the search.                                *)
queryEager(T, key) ==
  LET at(idx) == Place(key, idx, T.alloc_size)
      stops   == Stops(T, key) \union Removed(T, key)
  IN  IF stops # {} THEN at(Least(stops)) ELSE NoPlace

query(T, key) ==
  LET at(idx) == Place(key, idx, T.alloc_size)
      stops   == Stops(T, key)
      removed == Removed(T, key)
  IN  IF stops # {} /\ T.buckets[at(Least(stops))] = FULL THEN at(Least(stops))
      ELSE IF removed # {} THEN at(Least(removed))
      ELSE IF stops # {} THEN at(Least(stops))
      ELSE NoPlace

Holds(T, key) == T.buckets[query(T, key)] = FULL

-----------------------------------------------------------------------------
(* Map.new(), Set.new(), and ht_new_map(), ht_new_set() for a literal with  *)
(* any number of items, before they add the items one by one.               *)
Init ==
  /\ pc = "idle"
  /\ \E n \in Sizes : ht = Zeroed(n)
  /\ size = 0
  /\ new = Nothing /\ i = 0 /\ arg = Nothing
  /\ rv = NoAnswer

NotRehashing == UNCHANGED <<pc, new, i, arg>>

(* ht_query(), ht_query2().                                                 *)
ht_query(key) ==
  /\ pc = "idle"
  /\ rv' = [key   |-> key,
            found |-> Holds(ht, key),
            value |-> IF Holds(ht, key) THEN ht.values[query(ht, key)] ELSE NIL]
  /\ UNCHANGED <<ht, size>> /\ NotRehashing

(* Mutant: the bucket of a removed key is empty again.                      *)
ht_removeToEmpty(key) ==
  /\ pc = "idle" /\ ~do_values
  /\ IF Holds(ht, key)
     THEN /\ size' = size - 1
          /\ ht' = [ht EXCEPT !.buckets[query(ht, key)] = EMPTY,
                              !.keys[query(ht, key)] = NIL]
     ELSE UNCHANGED <<ht, size>>
  /\ rv' = [key |-> key, found |-> Holds(ht, key), value |-> NIL]
  /\ NotRehashing

ht_remove(key) ==
  /\ pc = "idle" /\ ~do_values
  /\ IF Holds(ht, key)
     THEN /\ size' = size - 1
          /\ ht' = Drop(ht, query(ht, key))
     ELSE UNCHANGED <<ht, size>>
  /\ rv' = [key |-> key, found |-> Holds(ht, key), value |-> NIL]
  /\ NotRehashing

ht_clear ==
  /\ pc = "idle" /\ ~do_values
  /\ ht' = Zeroed(map_prime(0))
  /\ size' = 0
  /\ rv' = NoAnswer
  /\ NotRehashing

-----------------------------------------------------------------------------
(* Mutant: a key that is there is counted again.                            *)
OverwriteCounts(key, value) ==
  /\ pc = "idle" /\ Holds(ht, key)
  /\ ht' = Assign(ht, query(ht, key), value)
  /\ size' = size + 1
  /\ rv' = NoAnswer
  /\ NotRehashing

(* ht_set(), ht_set2(): the key is there ...                                *)
Overwrite(key, value) ==
  /\ pc = "idle" /\ Holds(ht, key)
  /\ ht' = Assign(ht, query(ht, key), value)
  /\ rv' = NoAnswer
  /\ UNCHANGED size /\ NotRehashing

(* Mutant: the table is let fill up.                                        *)
HasRoomFull == size + 1 < ht.alloc_size

(* size, once incremented, leaves more than half of the places unused.      *)
HasRoom == (size + 1) * 2 < ht.alloc_size

(* ... or it is not and there is room ...                                   *)
Add(key, value) ==
  /\ pc = "idle" /\ ~Holds(ht, key) /\ HasRoom
  /\ size' = size + 1
  /\ ht' = Put(ht, query(ht, key), key, value)
  /\ rv' = NoAnswer
  /\ NotRehashing

(* ... or there is none.  Bound: the table never outgrows LargestSize.      *)
StartRehash(key, value) ==
  /\ pc = "idle" /\ ~Holds(ht, key) /\ ~HasRoom
  /\ ht.alloc_size < LargestSize
  /\ pc' = "rehash"
  /\ size' = size + 1
  /\ new' = Zeroed(map_prime(ht.alloc_size))
  /\ i' = 0
  /\ arg' = [key |-> key, value |-> value]
  /\ UNCHANGED <<ht, rv>>

(* Mutant: the last place of the old table is not moved.                    *)
RehashStopsEarly ==
  /\ pc = "rehash" /\ i < ht.alloc_size
  /\ i' = i + 1
  /\ new' = IF ht.buckets[i] = FULL /\ i < ht.alloc_size - 1
            THEN Put(new, query(new, ht.keys[i]), ht.keys[i], ht.values[i])
            ELSE new
  /\ UNCHANGED <<pc, ht, size, arg, rv>>

(* One turn of rehash()'s loop.                                             *)
Rehash ==
  /\ pc = "rehash" /\ i < ht.alloc_size
  /\ i' = i + 1
  /\ new' = IF ht.buckets[i] = FULL
            THEN Put(new, query(new, ht.keys[i]), ht.keys[i], ht.values[i])
            ELSE new
  /\ UNCHANGED <<pc, ht, size, arg, rv>>

(* The end of rehash(), and the new key.                                    *)
EndRehash ==
  /\ pc = "rehash" /\ i = ht.alloc_size
  /\ ht' = Put(new, query(new, arg.key), arg.key, arg.value)
  /\ pc' = "idle" /\ new' = Nothing /\ i' = 0 /\ arg' = Nothing
  /\ rv' = NoAnswer
  /\ UNCHANGED size

Next ==
  \/ \E key \in Keys :
       \/ ht_query(key)
       \/ ht_remove(key)
       \/ \E value \in Values :
            \/ Overwrite(key, value)
            \/ Add(key, value)
            \/ StartRehash(key, value)
  \/ ht_clear
  \/ Rehash
  \/ EndRehash

Spec == Init /\ [][Next]_vars

-----------------------------------------------------------------------------
(***************************************************************************)
(* Properties.                                                             *)
(***************************************************************************)
Full(T) == {p \in Places(T) : T.buckets[p] = FULL}

Held(T) == {T.keys[p] : p \in Full(T)}

Answers ==
  [key : Keys \union {NIL}, found : BOOLEAN, value : Values \union {NIL}]

IsTable(T) ==
  /\ T.alloc_size \in Sizes
  /\ T = [alloc_size |-> T.alloc_size, buckets |-> T.buckets,
          keys |-> T.keys, values |-> T.values]
  /\ T.buckets \in [Places(T) -> {EMPTY, WAS_FULL, FULL}]
  /\ T.keys \in [Places(T) -> Keys \union {NIL}]
  /\ T.values \in [Places(T) -> Values \union {NIL}]
  /\ \A p \in Full(T) : T.keys[p] \in Keys

(* Every array has alloc_size elements, and a full bucket has a key.        *)
TypeOK ==
  /\ pc \in {"idle", "rehash"}
  /\ IsTable(ht)
  /\ size \in Nat
  /\ rv \in Answers
  /\ pc = "rehash" =>
       /\ IsTable(new)
       /\ i \in 0..ht.alloc_size
       /\ arg \in [key : Keys, value : Values]

(* The size that Map.size and Set.size answer counts the full buckets, and  *)
(* every table that probing starts in is less than half full.               *)
SizeCounts ==
  /\ pc = "idle" =>
       /\ size = Cardinality(Full(ht))
       /\ size * 2 < ht.alloc_size
  /\ pc = "rehash" =>
       /\ size = Cardinality(Full(ht)) + 1
       /\ size * 2 < new.alloc_size

(* query() never reaches assert_never(): there is a place for every key,    *)
(* wherever the probing of that key leads.                                  *)
QueryEnds ==
  /\ pc = "idle" => \A key \in Keys : query(ht, key) # NoPlace
  /\ pc = "rehash" /\ i < ht.alloc_size /\ ht.buckets[i] = FULL =>
       query(new, ht.keys[i]) # NoPlace
  /\ pc = "rehash" /\ i = ht.alloc_size => query(new, arg.key) # NoPlace

(* No key is in two buckets, and probing for the key of a full bucket meets *)
(* no empty bucket before it: the key can be found.                         *)
Reachable(T) ==
  \A p \in Full(T) :
    /\ \A q \in Full(T) : T.keys[q] = T.keys[p] => q = p
    /\ \E idx \in Places(T) :
         /\ Place(T.keys[p], idx, T.alloc_size) = p
         /\ \A j \in 0..idx-1 :
              T.buckets[Place(T.keys[p], j, T.alloc_size)] # EMPTY

AllReachable == Reachable(ht) /\ (pc = "rehash" => Reachable(new))

(* The map that the arrays stand for.                                       *)
Contents(T) ==
  [k \in Held(T) |-> T.values[CHOOSE p \in Full(T) : T.keys[p] = k]]

(* The table implements a finite map: a query answers the value that was    *)
(* last set for the key, remove forgets just that key, and rehash() loses,  *)
(* duplicates and revives nothing.  The new key of a rehash arrives at its  *)
(* end.                                                                     *)
Promise == INSTANCE MapSpec WITH m <- Contents(ht)

ImplementsMap == Promise!Spec
=============================================================================
