------------------------------ MODULE Buffers -------------------------------
(***************************************************************************)
(* The buffers: Array1 and Tuple of ripe programs (vm/builtin/Arrays.c,    *)
(* vm/builtin/Tuple.c, modules/Array1), Array and SArray of the compiler   *)
(* (clib/array.c, clib/structs.c) and the string buffer                    *)
(* (clib/stringbuf.c).  Each keeps a size, the capacity it believes to     *)
(* have, and memory.                                                       *)
(*                                                                         *)
(* One buffer of one kind is used in any order.  Next to it the model      *)
(* keeps the sequence that it stands for, to compare.                      *)
(***************************************************************************)
EXTENDS Integers, Sequences

CONSTANTS
  Values,     \* elements, or characters
  NUL,        \* the character that ends a C string
  Junk,       \* what memory holds that was not written
  Texts,      \* sequences that buffers are made of and texts that are appended
  MaxSize     \* bound: elements of a buffer

ASSUME BuffersAssumption ==
  /\ NUL \notin Values /\ Junk \notin Values /\ NUL # Junk
  /\ Texts \subseteq Seq(Values)
  /\ MaxSize \in Nat

VARIABLES
  kind,       \* Array1, Tuple, Array, SArray, StringBuf
  size,
  alloc_size,
  data,       \* the memory that is really allocated
  ideal,      \* the sequence the buffer stands for
  memory,     \* exact: alloc_size is its size; fresh: made by array1_new() and
              \* not reallocated since; broken: something was written outside
              \* of it, or a NUL inside of a text, and nothing is known any more
  outcome     \* of the last call: fine; raised: an exception; wrong: another
              \* element than that of the sequence; outside: it has written
              \* to, or answered from, memory that is not the buffer's; or a
              \* known deviation: insert, remove, slice, binary

bufVars == <<kind, size, alloc_size, data, ideal, memory, outcome>>

-----------------------------------------------------------------------------
(* mem_malloc() and mem_realloc().                                          *)
mem_malloc(n)     == [i \in 1..n |-> Junk]
mem_realloc(d, n) == [i \in 1..n |-> IF i \in 1..Len(d) THEN d[i] ELSE Junk]

(* The place that a ripe index means, counted from 0; -1: an exception.     *)
util_index(idx, n) ==
  IF idx > 0 /\ idx <= n THEN idx - 1
  ELSE IF idx < 0 /\ idx >= -n THEN n + idx
  ELSE -1

(* Ranges, and util_index_range(): the first and the last place of one.     *)
Ranges == {"BOUNDED", "BOUNDED_LEFT", "BOUNDED_RIGHT", "UNBOUNDED"}

RangeFirst(type, start, n) ==
  IF type \in {"BOUNDED", "BOUNDED_LEFT"} THEN util_index(start, n) ELSE 0
RangeLast(type, finish, n) ==
  IF type \in {"BOUNDED", "BOUNDED_RIGHT"} THEN util_index(finish, n) ELSE n - 1

(* An exception is raised for an index, not for the end of an empty array.  *)
RangeRaises(type, start, finish, n) ==
  \/ type \in {"BOUNDED", "BOUNDED_LEFT"}  /\ util_index(start, n) = -1
  \/ type \in {"BOUNDED", "BOUNDED_RIGHT"} /\ util_index(finish, n) = -1

-----------------------------------------------------------------------------
(* The steps of a call.                                                     *)
Usable(k) == kind = k /\ memory # "broken"
Fits(n)   == Len(ideal) + n <= MaxSize

Answer(result) ==
  outcome' = result /\ UNCHANGED <<kind, size, alloc_size, data, ideal, memory>>

(* The sequence vs is written to memory d from place i (counted from 1) on, *)
(* which becomes the buffer's.                                              *)
Written(d, i, vs) ==
  [j \in 1..Len(d) |-> IF j \in i..i + Len(vs) - 1 THEN vs[j - i + 1] ELSE d[j]]
Inside(d, i, vs) == i >= 1 /\ i + Len(vs) - 1 <= Len(d)

Store(d, i, vs, reallocated) ==
  /\ data' = Written(d, i, vs)
  /\ outcome' = IF Inside(d, i, vs) THEN "fine" ELSE "outside"
  /\ memory' = IF ~Inside(d, i, vs) THEN "broken"
               ELSE IF reallocated THEN "exact" ELSE memory

(* What the call answers, compared with what is expected.                   *)
Compare(i, expected) ==
  IF i \notin 1..Len(data) THEN "outside"
  ELSE IF data[i] # expected THEN "wrong" ELSE "fine"

-----------------------------------------------------------------------------
(***************************************************************************)
(* Array1.                                                                 *)
(***************************************************************************)
(* An array with capacity a has no room for n elements.                     *)
Full(n, a) == n > a

array1_push(v) ==
  LET full == Full(size + 1, alloc_size)
      more == IF alloc_size * 2 = 0 THEN 2 ELSE alloc_size * 2
  IN  /\ Usable("Array1") /\ Fits(1)
      /\ size' = size + 1
      /\ alloc_size' = IF full THEN more ELSE alloc_size
      /\ Store(IF full THEN mem_realloc(data, more) ELSE data, size + 1, <<v>>, full)
      /\ ideal' = Append(ideal, v)
      /\ UNCHANGED kind

(* Mutant: half of the capacity is given up too early.                      *)
ShrinksEarly(n, a) == n < a

Shrinks(n, a) == n * 4 < a

array1_pop ==
  LET n    == size - 1
      less == IF alloc_size \div 2 < 2 THEN 2 ELSE alloc_size \div 2
      low  == Shrinks(n, alloc_size)
  IN  /\ Usable("Array1")
      /\ IF size = 0 THEN Answer("raised")
         ELSE /\ size' = n
              /\ alloc_size' = IF low THEN less ELSE alloc_size
              /\ data' = IF low THEN mem_realloc(data, less) ELSE data
              /\ memory' = IF low THEN "exact" ELSE memory
              /\ outcome' = Compare(size, ideal[Len(ideal)])
              /\ ideal' = SubSeq(ideal, 1, Len(ideal) - 1)
              /\ UNCHANGED kind

(* The place of an index in the sequence: from the front or from the back.  *)
Nth(idx) == IF idx > 0 THEN idx ELSE Len(ideal) + 1 + idx

IndexGet(k, idx) ==
  LET i == util_index(idx, size)
  IN  /\ Usable(k)
      /\ Answer(IF i = -1 THEN "raised" ELSE Compare(i + 1, ideal[Nth(idx)]))

IndexSet(k, idx, v) ==
  LET i == util_index(idx, size)
  IN  /\ Usable(k)
      /\ IF i = -1 THEN Answer("raised")
         ELSE /\ Store(data, i + 1, <<v>>, FALSE)
              /\ ideal' = [ideal EXCEPT ![Nth(idx)] = v]
              /\ UNCHANGED <<kind, size, alloc_size>>

array1_index(idx)        == IndexGet("Array1", idx)
array1_index_set(idx, v) == IndexSet("Array1", idx, v)
tuple_index(idx)         == IndexGet("Tuple", idx)
tuple_index_set(idx, v)  == IndexSet("Tuple", idx, v)

(* insert() pushes the value, and only then looks at the index: the value   *)
(* stays at the end when that raises an exception.                          *)
insert(idx, v) ==
  LET full == Full(size + 1, alloc_size)
      more == IF alloc_size * 2 = 0 THEN 2 ELSE alloc_size * 2
      d    == IF full THEN mem_realloc(data, more) ELSE data
      i    == util_index(idx, size)
      tail == <<v>> \o SubSeq(d, i + 1, size)
  IN  /\ Usable("Array1") /\ Fits(1)
      /\ IF idx = size + 1 THEN array1_push(v)
         ELSE /\ size' = size + 1
              /\ alloc_size' = IF full THEN more ELSE alloc_size
              /\ IF i = -1
                 THEN /\ data' = Written(d, size + 1, <<v>>)
                      /\ outcome' = IF Inside(d, size + 1, <<v>>) THEN "insert" ELSE "outside"
                      /\ memory' = IF ~Inside(d, size + 1, <<v>>) THEN "broken"
                                   ELSE IF full THEN "exact" ELSE memory
                      /\ ideal' = Append(ideal, v)
                 ELSE /\ Store(d, i + 1, tail, full)
                      /\ ideal' = SubSeq(ideal, 1, Nth(idx) - 1) \o <<v>>
                                    \o SubSeq(ideal, Nth(idx), Len(ideal))
              /\ UNCHANGED kind

(* remove() moves one element too many: it reads the one after the last,    *)
(* which may be outside of the memory.                                      *)
remove(idx) ==
  LET i    == util_index(idx, size)
      tail == [j \in 1..size - i |-> IF i + j + 1 \in 1..Len(data) THEN data[i + j + 1]
                                     ELSE Junk]
  IN  /\ Usable("Array1")
      /\ IF i = -1 THEN Answer("raised")
         ELSE /\ data' = Written(data, i + 1, tail)
              /\ outcome' = IF size + 1 \in 1..Len(data) THEN "fine" ELSE "remove"
              /\ size' = size - 1
              /\ ideal' = SubSeq(ideal, 1, Nth(idx) - 1)
                            \o SubSeq(ideal, Nth(idx) + 1, Len(ideal))
              /\ UNCHANGED <<kind, alloc_size, memory>>

(* The places of a slice, in its order: backwards when the first place is   *)
(* after the last, also for all of an empty array (0 and -1).               *)
SlicePlaces(first, last) ==
  IF first <= last THEN [j \in 1..last - first + 1 |-> first + j - 1]
  ELSE [j \in 1..first - last + 1 |-> first - j + 1]

(* array1_new() records twice the capacity that it allocates.               *)
array1_new(n) == [size |-> n, alloc_size |-> 2 * n, data |-> mem_malloc(n)]

(* slice(): the program goes on with the new array.  All of an empty array  *)
(* are the places 0 and -1: the new array has two elements, whatever the    *)
(* memory holds there.                                                      *)
slice(type, start, finish) ==
  LET places == SlicePlaces(RangeFirst(type, start, size), RangeLast(type, finish, size))
      new    == array1_new(Len(places))
      read   == [j \in 1..Len(places) |->
                   IF places[j] + 1 \in 1..Len(data) THEN data[places[j] + 1] ELSE Junk]
  IN  /\ Usable("Array1")
      /\ IF RangeRaises(type, start, finish, size) THEN Answer("raised")
         ELSE /\ size' = new.size
              /\ alloc_size' = new.alloc_size
              /\ data' = Written(new.data, 1, read)
              /\ memory' = "fresh"
              /\ outcome' = IF size = 0 THEN "slice" ELSE "fine"
              /\ ideal' = IF size = 0 THEN read
                          ELSE [j \in 1..Len(places) |-> ideal[places[j] + 1]]
              /\ UNCHANGED kind

-----------------------------------------------------------------------------
(***************************************************************************)
(* Array and SArray of the compiler.                                       *)
(***************************************************************************)
(* Mutant: room is made one element too late.                               *)
array_expandLate ==
  IF alloc_size + 1 > size THEN [alloc_size |-> alloc_size, data |-> data]
  ELSE [alloc_size |-> alloc_size * 2, data |-> mem_realloc(data, alloc_size * 2)]

array_expand ==
  LET more == IF alloc_size = 0 THEN 2 ELSE alloc_size * 2
  IN  IF alloc_size > size THEN [alloc_size |-> alloc_size, data |-> data]
      ELSE [alloc_size |-> more, data |-> mem_realloc(data, more)]

Appended(k, v) ==
  /\ Usable(k) /\ Fits(1)
  /\ alloc_size' = array_expand.alloc_size
  /\ Store(array_expand.data, size + 1, <<v>>, FALSE)
  /\ size' = size + 1
  /\ ideal' = Append(ideal, v)
  /\ UNCHANGED kind

array_append(v)      == Appended("Array", v)
sarray_append_ptr(v) == Appended("SArray", v)

array_prepend(v) ==
  /\ Usable("Array") /\ Fits(1)
  /\ alloc_size' = array_expand.alloc_size
  /\ Store(array_expand.data, 1, <<v>> \o SubSeq(array_expand.data, 1, size), FALSE)
  /\ size' = size + 1
  /\ ideal' = <<v>> \o ideal
  /\ UNCHANGED kind

(* sarray_pop_ptr() asserts that there is an element; the callers of        *)
(* array_pop(), which does not, have looked.                                *)
Popped(k) ==
  /\ Usable(k)
  /\ size > 0
  /\ size' = size - 1
  /\ outcome' = Compare(size, ideal[Len(ideal)])
  /\ ideal' = SubSeq(ideal, 1, Len(ideal) - 1)
  /\ UNCHANGED <<kind, alloc_size, data, memory>>

array_pop      == Popped("Array")
sarray_pop_ptr == Popped("SArray")

Got(k, i) ==
  /\ Usable(k)
  /\ i >= 0 /\ i < size
  /\ Answer(Compare(i + 1, ideal[i + 1]))

array_get2(i)     == Got("Array", i)
sarray_get_ptr(i) == Got("SArray", i)

array_set2(i, v) ==
  /\ Usable("Array")
  /\ i >= 0 /\ i < size
  /\ Store(data, i + 1, <<v>>, FALSE)
  /\ ideal' = [ideal EXCEPT ![i + 1] = v]
  /\ UNCHANGED <<kind, size, alloc_size>>

array_clear ==
  /\ Usable("Array")
  /\ size' = 0 /\ ideal' = <<>> /\ outcome' = "fine"
  /\ UNCHANGED <<kind, alloc_size, data, memory>>

-----------------------------------------------------------------------------
(***************************************************************************)
(* The string buffer.  size counts the NUL at the end; strcat() looks for  *)
(* that NUL and does not ask the size.                                     *)
(***************************************************************************)
strlen(s) ==
  IF \E i \in DOMAIN s : s[i] = NUL
  THEN (CHOOSE i \in DOMAIN s : s[i] = NUL /\ \A j \in 1..i - 1 : s[j] # NUL) - 1
  ELSE Len(s)

(* The buffer's memory, or more of it when `need' is more than it records.  *)
Grown(need, a) ==
  IF need > alloc_size THEN [alloc_size |-> a, data |-> mem_realloc(data, a)]
  ELSE [alloc_size |-> alloc_size, data |-> data]

(* The text s is appended in the memory g.                                  *)
strcat(g, s) ==
  /\ Usable("StringBuf") /\ Fits(Len(s))
  /\ alloc_size' = g.alloc_size
  /\ Store(g.data, strlen(g.data) + 1, s \o <<NUL>>, FALSE)
  /\ size' = size + Len(s)
  /\ ideal' = ideal \o s
  /\ UNCHANGED kind

sbuf_printf(s) == strcat(Grown(size + Len(s), (size + Len(s)) * 2), s)
sbuf_cat(s)    == strcat(Grown(size + Len(s), alloc_size + Len(s)), s)

(* Mutant: the NUL is not written again.                                    *)
sbuf_catcOpen(c) ==
  LET g == Grown(size + 1, alloc_size * 2)
  IN  /\ Usable("StringBuf") /\ Fits(1)
      /\ alloc_size' = g.alloc_size
      /\ Store(g.data, size, <<c>>, FALSE)
      /\ size' = size + 1
      /\ ideal' = Append(ideal, c)
      /\ UNCHANGED kind

sbuf_catc(c) ==
  LET g == Grown(size + 1, alloc_size * 2)
  IN  /\ Usable("StringBuf") /\ Fits(1)
      /\ alloc_size' = g.alloc_size
      /\ Store(g.data, size, <<c, NUL>>, FALSE)
      /\ size' = size + 1
      /\ ideal' = Append(ideal, c)
      /\ UNCHANGED kind

(* sbuf_ncat() is given what a server has sent: strncat() stops at a NUL,   *)
(* the size does not.                                                       *)
sbuf_ncat(s) ==
  LET g == Grown(size + Len(s), alloc_size + Len(s))
  IN  IF strlen(s) = Len(s) THEN strcat(g, s)
      ELSE /\ Usable("StringBuf") /\ Fits(Len(s))
           /\ alloc_size' = g.alloc_size
           /\ data' = Written(g.data, strlen(g.data) + 1,
                              SubSeq(s, 1, strlen(s)) \o <<NUL>>)
           /\ outcome' = "binary" /\ memory' = "broken"
           /\ size' = size + Len(s)
           /\ ideal' = ideal \o s
           /\ UNCHANGED kind

sbuf_ncpy(s) ==
  LET g == Grown(Len(s) + 1, Len(s) + 1)
  IN  /\ Usable("StringBuf") /\ Len(s) <= MaxSize
      /\ alloc_size' = g.alloc_size
      /\ Store(g.data, 1, s \o <<NUL>>, FALSE)
      /\ size' = Len(s) + 1
      /\ ideal' = s
      /\ UNCHANGED kind

sbuf_clear ==
  /\ Usable("StringBuf")
  /\ Store(data, 1, <<NUL>>, FALSE)
  /\ size' = 1 /\ ideal' = <<>>
  /\ UNCHANGED <<kind, alloc_size>>

-----------------------------------------------------------------------------
(* How a buffer is made: its kind, its capacity, its memory, its elements.  *)
Made(k, n, a, d, vs) ==
  /\ kind = k /\ size = n /\ alloc_size = a /\ data = d /\ ideal = vs

array1_to_val2(vs) == Made("Array1", Len(vs), Len(vs), vs, vs)

array1_to_val(vs) ==
  Made("Array1", Len(vs), 2 * Len(vs), Written(mem_malloc(2 * Len(vs)), 1, vs), vs)

tuple_to_val(vs) == Made("Tuple", Len(vs), Len(vs), vs, vs)

array_init2 == Made("Array", 0, 2, mem_malloc(2), <<>>)
sarray_init == Made("SArray", 0, 2, mem_malloc(2), <<>>)

sbuf_init(s) == Made("StringBuf", Len(s) + 1, Len(s) + 1, s \o <<NUL>>, s)

BufInit ==
  /\ outcome = "fine" /\ memory = "exact"
  /\ \/ \E vs \in Texts : \/ array1_to_val2(vs) \/ array1_to_val(vs)
                          \/ tuple_to_val(vs) \/ sbuf_init(vs)
     \/ array_init2 \/ sarray_init

Indexes == -(MaxSize + 1)..MaxSize + 1

BufNext ==
  \/ \E v \in Values : \/ array1_push(v) \/ array_append(v) \/ sarray_append_ptr(v)
                       \/ array_prepend(v) \/ sbuf_catc(v)
  \/ \E i \in Indexes : \/ array1_index(i) \/ tuple_index(i) \/ remove(i)
                        \/ array_get2(i) \/ sarray_get_ptr(i)
  \/ \E i \in Indexes, v \in Values : \/ array1_index_set(i, v) \/ tuple_index_set(i, v)
                                      \/ insert(i, v) \/ array_set2(i, v)
  \/ \E t \in Ranges, i, j \in Indexes : slice(t, i, j)
  \/ \E s \in Texts : sbuf_printf(s) \/ sbuf_cat(s) \/ sbuf_ncpy(s)
  \/ \E s \in Texts \union {<<NUL, v>> : v \in Values} : sbuf_ncat(s)
  \/ array1_pop \/ array_pop \/ sarray_pop_ptr \/ array_clear \/ sbuf_clear

BufSpec == BufInit /\ [][BufNext]_bufVars

-----------------------------------------------------------------------------
(***************************************************************************)
(* What a user of a buffer relies on.                                      *)
(***************************************************************************)
(* The capacity that a buffer records is never less than its size, and is   *)
(* what it has; an array of array1_new() (Arrays.c:59) records up to twice  *)
(* what it has, until its memory is next reallocated.                       *)
Capacity ==
  /\ memory # "broken" => size <= alloc_size
  /\ memory = "exact"  => alloc_size = Len(data)
  /\ memory = "fresh"  => kind = "Array1" /\ alloc_size = 2 * Len(data)

(* After any calls, that raise exceptions or not, the memory holds exactly  *)
(* the sequence that they amount to, and a string buffer ends with its NUL. *)
(* An index from the front or the back reads the element that it means.     *)
(* Two calls amount to more than their documentation says: an insert() that *)
(* raises an exception has appended the value, and a slice() of all of an   *)
(* empty array, documented as a slice of it, has two elements that nobody   *)
(* has written.                                                             *)
Contents ==
  /\ outcome # "wrong"
  /\ memory # "broken" =>
       /\ size = Len(IF kind = "StringBuf" THEN Append(ideal, NUL) ELSE ideal)
       /\ SubSeq(data, 1, size) =
            IF kind = "StringBuf" THEN Append(ideal, NUL) ELSE ideal

(* Only a push onto an array of array1_new() that has not been reallocated  *)
(* and is full writes outside of the memory; no other operation does.       *)
(* remove() and slice() of an empty array read outside of it: that is their *)
(* outcome, and not what this is about.                                     *)
OverrunOnlyFresh ==
  [][outcome' = "outside" => memory = "fresh" /\ size' = size + 1 /\ size = Len(data)
    ]_bufVars
=============================================================================
