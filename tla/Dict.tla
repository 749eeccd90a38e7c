-------------------------------- MODULE Dict --------------------------------
(***************************************************************************)
(* The dictionary of the compiler and of the runtime: clib/dict.c.  Nothing*)
(* is ever removed from it.  dict_set() of a key that is there overwrites  *)
(* its value, then goes on as if the key were new: neither set() nor       *)
(* dict_set() returns at that point.  So copies of a key pile up along its *)
(* probing sequence, and size counts calls, not keys.                      *)
(*                                                                         *)
(* The build has assertions: assert_never() aborts.  Expanding is a loop,  *)
(* modelled one turn at a time.                                            *)
(***************************************************************************)
EXTENDS Probing

CONSTANTS
  Values,
  NIL

VARIABLES
  pc,      \* idle, expand (in dict_set()), abort
  data,    \* d->data and d->alloc_size
  size,    \* d->size
  new,     \* dict_set(): new_data and new_size
  i,       \* dict_set(): the old bucket that is moved next
  arg,     \* the key and value of the dict_set() that expands
  rv,      \* the key the last operation asked for, and its answer
  again    \* history: some key was set when it was there

vars == <<pc, data, size, new, i, arg, rv, again>>

BUCKET_EMPTY == 0
BUCKET_FULL  == 1

NoAnswer == [key |-> NIL, found |-> FALSE, value |-> NIL]
Nothing  == << >>

Places(D) == 0..D.alloc_size - 1

Zeroed(n) ==
  [alloc_size |-> n,
   flag       |-> [p \in 0..n-1 |-> BUCKET_EMPTY],
   key        |-> [p \in 0..n-1 |-> NIL],
   value      |-> [p \in 0..n-1 |-> NIL]]

(* The turns of a probing loop that meet an empty bucket, and the first of  *)
(* them, or the number of turns if there is none.                           *)
Empties(D, k) ==
  {idx \in Places(D) : D.flag[Place(k, idx, D.alloc_size)] = BUCKET_EMPTY}

FirstEmpty(D, k) ==
  LET empties == Empties(D, k)
  IN  IF empties # {} THEN Least(empties) ELSE D.alloc_size

(* The turns before that which meet the key, and the places they look at.   *)
Hits(D, k) ==
  {idx \in 0..FirstEmpty(D, k) - 1 : D.key[Place(k, idx, D.alloc_size)] = k}

Copies(D, k) == {Place(k, idx, D.alloc_size) : idx \in Hits(D, k)}

(* set() ends in assert_never().                                            *)
SetFails(D, k) == Empties(D, k) = {}

(* Mutant: an existing copy does not get the value.                         *)
setNewOnly(D, k, v) ==
  LET p == Place(k, FirstEmpty(D, k), D.alloc_size)
  IN  [D EXCEPT !.flag[p] = BUCKET_FULL, !.key[p] = k, !.value[p] = v]

(* set(), when it does not fail: every copy gets the value, and one more.   *)
set(D, k, v) ==
  LET p      == Place(k, FirstEmpty(D, k), D.alloc_size)
      copies == Copies(D, k) \union {p}
  IN  [D EXCEPT !.flag[p] = BUCKET_FULL,
                !.key[p]  = k,
                !.value   = [q \in Places(D) |-> IF q \in copies THEN v ELSE @[q]]]

Has(D, k) == Hits(D, k) # {}

(* dict_query() ends in assert_never().                                     *)
QueryFails(D, k) == ~Has(D, k) /\ Empties(D, k) = {}

(* The value that dict_query() finds: that of the first copy.               *)
Found(D, k) == D.value[Place(k, Least(Hits(D, k)), D.alloc_size)]

-----------------------------------------------------------------------------
(* dict_init().                                                             *)
Init ==
  /\ pc = "idle"
  /\ data = Zeroed(map_prime(0))
  /\ size = 0
  /\ new = Nothing /\ i = 0 /\ arg = Nothing
  /\ rv = NoAnswer
  /\ again = FALSE

Abort == pc' = "abort" /\ UNCHANGED <<data, size, new, i, arg, rv>>

SetsAgain(k) == again' = (again \/ Has(data, k))

dict_query(k) ==
  /\ pc = "idle" /\ ~QueryFails(data, k)
  /\ rv' = [key   |-> k,
            found |-> Has(data, k),
            value |-> IF Has(data, k) THEN Found(data, k) ELSE NIL]
  /\ UNCHANGED <<pc, data, size, new, i, arg, again>>

QueryAborts(k) ==
  /\ pc = "idle" /\ QueryFails(data, k)
  /\ Abort /\ UNCHANGED again

(* The first lines of dict_set(): a key that is there is set at once.       *)
Overwritten(k, v) == IF Has(data, k) THEN set(data, k, v) ELSE data

(* Mutant: the table is let fill up.                                        *)
MustExpandLate == size + 1 >= data.alloc_size

MustExpand == (size + 1) * 2 >= data.alloc_size

Fails(k, v) ==
  \/ QueryFails(data, k)
  \/ Has(data, k) /\ SetFails(data, k)
  \/ ~MustExpand /\ SetFails(Overwritten(k, v), k)

(* dict_set() when the table is large enough ...                            *)
Set(k, v) ==
  /\ pc = "idle" /\ SetsAgain(k)
  /\ ~MustExpand /\ ~Fails(k, v)
  /\ data' = set(Overwritten(k, v), k, v)
  /\ size' = size + 1
  /\ rv' = NoAnswer
  /\ UNCHANGED <<pc, new, i, arg>>

(* Mutant: the next table is one that is large enough for the keys only.    *)
StartExpandSmall(k, v) ==
  /\ pc = "idle" /\ SetsAgain(k)
  /\ MustExpand /\ ~Fails(k, v)
  /\ pc' = "expand"
  /\ data' = Overwritten(k, v)
  /\ new' = Zeroed(map_prime(size + 1))
  /\ i' = 0
  /\ arg' = [key |-> k, value |-> v]
  /\ rv' = IF Has(data, k) THEN NoAnswer ELSE rv
  /\ UNCHANGED size

(* ... and when it is not.  Bound: it never outgrows LargestSize.           *)
StartExpand(k, v) ==
  /\ pc = "idle" /\ SetsAgain(k)
  /\ MustExpand /\ ~Fails(k, v)
  /\ 2 * (size + 1) < LargestSize
  /\ pc' = "expand"
  /\ data' = Overwritten(k, v)
  /\ new' = Zeroed(map_prime(2 * (size + 1)))
  /\ i' = 0
  /\ arg' = [key |-> k, value |-> v]
  /\ rv' = IF Has(data, k) THEN NoAnswer ELSE rv
  /\ UNCHANGED size

SetAborts(k, v) ==
  /\ pc = "idle" /\ SetsAgain(k)
  /\ Fails(k, v)
  /\ Abort

(* Mutant: a bucket that collides in the new table is left behind.          *)
ExpandLoses ==
  /\ pc = "expand" /\ i < data.alloc_size
  /\ i' = i + 1
  /\ new' = IF /\ data.flag[i] = BUCKET_FULL
               /\ new.flag[Place(data.key[i], 0, new.alloc_size)] = BUCKET_EMPTY
            THEN set(new, data.key[i], data.value[i])
            ELSE new
  /\ UNCHANGED <<pc, data, size, arg, rv, again>>

(* One turn of the loop over the old buckets.  A set() that failed would    *)
(* end the program; ExpandEnds says that none does.                         *)
Expand ==
  /\ pc = "expand" /\ i < data.alloc_size
  /\ data.flag[i] = BUCKET_FULL => ~SetFails(new, data.key[i])
  /\ i' = i + 1
  /\ new' = IF data.flag[i] = BUCKET_FULL
            THEN set(new, data.key[i], data.value[i])
            ELSE new
  /\ UNCHANGED <<pc, data, size, arg, rv, again>>

(* Mutant: the early return of the expanding branch does not count the key. *)
EndExpandNoCount ==
  /\ pc = "expand" /\ i = data.alloc_size
  /\ data' = set(new, arg.key, arg.value)
  /\ pc' = "idle" /\ new' = Nothing /\ i' = 0 /\ arg' = Nothing
  /\ rv' = NoAnswer
  /\ UNCHANGED <<size, again>>

EndExpand ==
  /\ pc = "expand" /\ i = data.alloc_size
  /\ ~SetFails(new, arg.key)
  /\ data' = set(new, arg.key, arg.value)
  /\ size' = size + 1
  /\ pc' = "idle" /\ new' = Nothing /\ i' = 0 /\ arg' = Nothing
  /\ rv' = NoAnswer
  /\ UNCHANGED again

Next ==
  \/ \E k \in Keys :
       \/ dict_query(k) \/ QueryAborts(k)
       \/ \E v \in Values : Set(k, v) \/ StartExpand(k, v) \/ SetAborts(k, v)
  \/ Expand
  \/ EndExpand

Spec == Init /\ [][Next]_vars

-----------------------------------------------------------------------------
(***************************************************************************)
(* Properties.                                                             *)
(***************************************************************************)
FullPlaces(D) == {p \in Places(D) : D.flag[p] = BUCKET_FULL}

(* Expanding always succeeds: the copies of one table, and the key that is  *)
(* new, find empty buckets in the next one.                                 *)
ExpandEnds ==
  pc = "expand" =>
    /\ i < data.alloc_size /\ data.flag[i] = BUCKET_FULL =>
         ~SetFails(new, data.key[i])
    /\ i = data.alloc_size => ~SetFails(new, arg.key)

(* All copies of a key have the same value, so an iteration that meets any  *)
(* of them (dict_iter_get_ptrs()) sees what dict_query() answers.           *)
CopiesAgree ==
  pc # "abort" =>
    \A p \in FullPlaces(data) :
      /\ p \in Copies(data, data.key[p])
      /\ data.value[p] = Found(data, data.key[p])

(* Until some key is set twice, size is the number of keys.                 *)
SizeCounts ==
  ~again =>
    /\ size = Cardinality({data.key[p] : p \in FullPlaces(data)})
    /\ size = Cardinality(FullPlaces(data))

(* assert_never() at the end of set() and of dict_query() is not reached... *)
NeverAborts == pc # "abort"

(* ... until some key is set twice.                                         *)
OnceNeverAborts == ~again => NeverAborts

(* The dictionary is a map, copies or not: dict_query() answers the value   *)
(* last set.  A key that is there is set before the table expands, and then *)
(* once more.                                                               *)
Contents(D) ==
  [k \in {D.key[p] : p \in FullPlaces(D)} |-> Found(D, k)]

Promise == INSTANCE MapSpec WITH m <- Contents(data)

ImplementsMap == Promise!Spec
=============================================================================
