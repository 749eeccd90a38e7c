------------------------------ MODULE Probing -------------------------------
(***************************************************************************)
(* What the two hash tables of ripe share: the table sizes of map_prime()  *)
(* (clib/dict.c) and quadratic probing in 64-bit unsigned arithmetic (the  *)
(* loops of query() in vm/builtin/HashTable.c and of set() and dict_query()*)
(* in clib/dict.c).                                                        *)
(***************************************************************************)
EXTENDS Integers, Sequences, FiniteSets

CONSTANTS
  Keys,       \* keys; equal keys (op_equal2(), equal_func()) are one element
  Hash,       \* op_hash() or hash_func() of a key, as a uint64
  WORD,       \* 2^64 in the code: uint64 arithmetic is modulo WORD
  sizes       \* sizes[] of map_prime(), without the last one, which the loop
              \* of map_prime() does not reach

ASSUME HashAssumption ==
  /\ WORD \in Nat \ {0}
  /\ Hash \in [Keys -> 0..WORD - 1]

(* The sizes are odd primes in ascending order.  A number is prime when it  *)
(* divides no product of smaller positive ones.                             *)
ASSUME SizesAssumption ==
  /\ sizes \in Seq(Nat) /\ sizes # << >>
  /\ \A j \in 1..Len(sizes) :
       /\ sizes[j] > 2 /\ sizes[j] % 2 = 1
       /\ \A x, y \in 1..sizes[j] - 1 : (x * y) % sizes[j] # 0
  /\ \A j, k \in 1..Len(sizes) : j < k => sizes[j] < sizes[k]

Sizes == {sizes[j] : j \in 1..Len(sizes)}

LargestSize == sizes[Len(sizes)]

(* The first size that is bigger than n; n < LargestSize, for otherwise     *)
(* map_prime() ends in assert_never().                                      *)
map_prime(n) ==
  CHOOSE s \in Sizes : n < s /\ \A t \in Sizes : n < t => s <= t

(* The place that the idx-th turn of a probing loop looks at.               *)
Place(key, idx, n) == ((Hash[key] + idx * idx) % WORD) % n

(* hash + idx*idx stays below 2^64 in every table.  hash_bytes() gives a    *)
(* uint32, so this holds of strings, objects and symbols; op_hash() of a    *)
(* negative integer is a little below 2^64.                                 *)
NoWrap ==
  \A key \in Keys : \A n \in Sizes : Hash[key] + (n - 1) * (n - 1) < WORD

(* Each size is at least twice the one before, less three.  This holds of   *)
(* the sizes of map_prime() up to 16381, and not of the next one, 32749.    *)
Doubles(s) == \A j \in 1..Len(s) - 1 : 2 * s[j] - 3 <= s[j + 1]

Doubling == Doubles(sizes)

(* NB: S is not empty.                                                      *)
Least(S) == CHOOSE x \in S : \A y \in S : x <= y
=============================================================================
