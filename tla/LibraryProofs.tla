--------------------------- MODULE LibraryProofs ----------------------------
(***************************************************************************)
(* Three parts of the library.  The buffers hold what they stand for, for  *)
(* every set of elements and every bound on their size.  The objects are   *)
(* as large as their classes, their fields keep what is written to them    *)
(* and none is destroyed twice, for every sequence of fields.  UTF-8 is    *)
(* read as it was written, for every set of characters and every limit.    *)
(***************************************************************************)
EXTENDS Buffers, Registry, Text, SequenceTheorems, FiniteSetTheorems, NaturalsInduction,
        WellFoundedInduction, TLAPS

(* What memory can hold. *)
Cells == Values \union {NUL, Junk}

(* The sequence xs is at the start of the memory d. *)
Prefix(xs, d) == Len(xs) <= Len(d) /\ \A i \in 1..Len(xs) : d[i] = xs[i]

(* What a buffer's memory begins with: a text is followed by a NUL. *)
Shown(k, vs) == IF k = "StringBuf" THEN Append(vs, NUL) ELSE vs

(* The capacity a of memory of l cells. *)
Capable(k, m, a, l) ==
  /\ m \in {"exact", "fresh"}
  /\ m = "exact" => a = l
  /\ m = "fresh" => k = "Array1" /\ a = 2 * l

(* What is known of a buffer whose memory has not been left: Capacity, and  *)
(* Contents element by element.  A text is one of Values, so that the NUL   *)
(* at its end is the one that strcat() finds; an array may have what was in *)
(* memory, from a slice of an empty one.                                    *)
Held(k, n, a, d, vs, m) ==
  /\ n \in Nat /\ a \in Nat /\ n <= a
  /\ d \in Seq(Cells) /\ vs \in Seq(Cells)
  /\ k = "StringBuf" => vs \in Seq(Values)
  /\ n = Len(Shown(k, vs))
  /\ Capable(k, m, a, Len(d))
  /\ Prefix(Shown(k, vs), d)

BufInv ==
  /\ outcome # "wrong"
  /\ memory # "broken" => Held(kind, size, alloc_size, data, ideal, memory)

(* The step that OverrunOnlyFresh allows to leave the memory. *)
OverrunStep ==
  outcome' = "outside" => memory = "fresh" /\ size' = size + 1 /\ size = Len(data)

-----------------------------------------------------------------------------
(* Memory.                                                                  *)

(* mem_malloc() gives as many cells as are asked for. *)
LEMMA MallocFacts ==
  ASSUME NEW n \in Nat
  PROVE  mem_malloc(n) \in Seq(Cells) /\ Len(mem_malloc(n)) = n
  BY DEF mem_malloc, Cells

(* mem_realloc() keeps what fits. *)
LEMMA ReallocFacts ==
  ASSUME NEW n \in Nat, NEW d \in Seq(Cells)
  PROVE  /\ mem_realloc(d, n) \in Seq(Cells) /\ Len(mem_realloc(d, n)) = n
         /\ \A i \in 1..n : i <= Len(d) => mem_realloc(d, n)[i] = d[i]
<1>1. \A i \in 1..n : (IF i \in 1..Len(d) THEN d[i] ELSE Junk) \in Cells
  BY DEF Cells
<1>2. QED
  BY <1>1 DEF mem_realloc

(* Writing changes the places that are written, and no others. *)
LEMMA WrittenFacts ==
  ASSUME NEW d \in Seq(Cells), NEW vs \in Seq(Cells), NEW i \in Int
  PROVE  /\ Written(d, i, vs) \in Seq(Cells)
         /\ Len(Written(d, i, vs)) = Len(d)
         /\ \A j \in 1..Len(d) :
              Written(d, i, vs)[j] = IF j \in i..i + Len(vs) - 1 THEN vs[j - i + 1] ELSE d[j]
<1>1. \A j \in 1..Len(d) :
        (IF j \in i..i + Len(vs) - 1 THEN vs[j - i + 1] ELSE d[j]) \in Cells
  OBVIOUS
<1>2. QED
  BY <1>1 DEF Written

(* strlen() finds the first NUL. *)
LEMMA StrlenFacts ==
  ASSUME NEW s \in Seq(Cells), NEW n \in 1..Len(s), s[n] = NUL,
         \A i \in 1..n - 1 : s[i] # NUL
  PROVE  strlen(s) = n - 1
<1> DEFINE First(i) == s[i] = NUL /\ \A j \in 1..i - 1 : s[j] # NUL
<1> DEFINE c == CHOOSE i \in DOMAIN s : First(i)
<1>1. n \in DOMAIN s /\ First(n)
  OBVIOUS
<1>2. c \in DOMAIN s /\ First(c)
  <2> HIDE DEF First
  <2> QED BY <1>1
<1>3. c = n
  <2>1. c \in 1..Len(s)
    BY <1>2
  <2>2. c >= n
    BY <1>2, <2>1, <1>1
  <2>3. c <= n
    BY <1>2, <2>1, <1>1
  <2> QED BY <2>1, <2>2, <2>3
<1>4. strlen(s) = c - 1
  BY <1>1 DEF strlen
<1>5. QED BY <1>3, <1>4

-----------------------------------------------------------------------------
(* Sequences at the start of memory.                                        *)

(* Reallocation to at least as many cells keeps them. *)
LEMMA PrefixRealloc ==
  ASSUME NEW d \in Seq(Cells), NEW xs \in Seq(Cells), Prefix(xs, d),
         NEW n \in Nat, Len(xs) <= n
  PROVE  Prefix(xs, mem_realloc(d, n))
  BY ReallocFacts DEF Prefix

(* When vs is written at place i of memory that begins with xs, and covers  *)
(* the rest of xs, the memory begins with xs up to i and then vs.           *)
LEMMA PrefixWritten ==
  ASSUME NEW d \in Seq(Cells), NEW xs \in Seq(Cells), Prefix(xs, d),
         NEW vs \in Seq(Cells), NEW i \in 1..Len(xs) + 1,
         Inside(d, i, vs),
         NEW ys \in Seq(Cells), Len(ys) = i - 1 + Len(vs),
         \A j \in 1..i - 1 : ys[j] = xs[j],
         \A j \in 1..Len(vs) : ys[i - 1 + j] = vs[j]
  PROVE  Prefix(ys, Written(d, i, vs))
<1> DEFINE w == Written(d, i, vs)
<1>1. /\ w \in Seq(Cells) /\ Len(w) = Len(d)
      /\ \A j \in 1..Len(d) : w[j] = IF j \in i..i + Len(vs) - 1 THEN vs[j - i + 1] ELSE d[j]
  BY WrittenFacts
<1> HIDE DEF w
<1>2. Len(ys) <= Len(w)
  BY <1>1 DEF Inside
<1>3. ASSUME NEW j \in 1..Len(ys) PROVE w[j] = ys[j]
  <2>1. CASE j < i
    <3>1. j \in 1..Len(xs) /\ j \in 1..Len(d) /\ j \notin i..i + Len(vs) - 1 /\ j \in 1..i - 1
      BY <2>1, <1>1, <1>2
    <3>2. w[j] = d[j] /\ ys[j] = xs[j]
      BY <3>1, <1>1
    <3> QED BY <3>1, <3>2 DEF Prefix
  <2>2. CASE j >= i
    <3>1. j - i + 1 \in 1..Len(vs) /\ j \in i..i + Len(vs) - 1 /\ j \in 1..Len(d)
      BY <2>2, <1>1, <1>2
    <3>2. w[j] = vs[j - i + 1]
      BY <3>1, <1>1
    <3>3. ys[i - 1 + (j - i + 1)] = vs[j - i + 1]
      BY <3>1
    <3>4. i - 1 + (j - i + 1) = j
      OBVIOUS
    <3> QED BY <3>2, <3>3, <3>4
  <2> QED BY <2>1, <2>2
<1> QED BY <1>2, <1>3 DEF Prefix, w

(* Append, spelled out. *)
LEMMA AppendFacts ==
  ASSUME NEW S, NEW xs \in Seq(S), NEW v \in S
  PROVE  /\ Append(xs, v) \in Seq(S) /\ Len(Append(xs, v)) = Len(xs) + 1
         /\ Append(xs, v)[Len(xs) + 1] = v
         /\ \A i \in 1..Len(xs) : Append(xs, v)[i] = xs[i]
  OBVIOUS

(* Concatenation, spelled out. *)
LEMMA ConcatFacts ==
  ASSUME NEW S, NEW xs \in Seq(S), NEW ys \in Seq(S)
  PROVE  /\ xs \o ys \in Seq(S) /\ Len(xs \o ys) = Len(xs) + Len(ys)
         /\ \A i \in 1..Len(xs) : (xs \o ys)[i] = xs[i]
         /\ \A i \in Len(xs) + 1..Len(xs) + Len(ys) : (xs \o ys)[i] = ys[i - Len(xs)]
  BY ConcatProperties

(* One element is written after the others. *)
LEMMA PrefixAppended ==
  ASSUME NEW d \in Seq(Cells), NEW xs \in Seq(Cells), Prefix(xs, d), NEW v \in Cells
  PROVE  /\ Written(d, Len(xs) + 1, <<v>>) \in Seq(Cells)
         /\ Len(Written(d, Len(xs) + 1, <<v>>)) = Len(d)
         /\ Inside(d, Len(xs) + 1, <<v>>) <=> Len(xs) < Len(d)
         /\ Len(xs) < Len(d) => Prefix(Append(xs, v), Written(d, Len(xs) + 1, <<v>>))
<1> DEFINE one == <<v>>
           ys  == Append(xs, v)
           n   == Len(xs)
           i   == n + 1
<1>1. one \in Seq(Cells) /\ Len(one) = 1 /\ one[1] = v
  OBVIOUS
<1>2. /\ ys \in Seq(Cells) /\ Len(ys) = n + 1 /\ ys[n + 1] = v
      /\ \A j \in 1..n : ys[j] = xs[j]
  BY AppendFacts
<1>3. n \in Nat /\ i \in 1..Len(xs) + 1 /\ i \in Int
  OBVIOUS
<1> HIDE DEF one, ys, n
<1>4. Inside(d, i, one) <=> n < Len(d)
  BY <1>1, <1>3 DEF Inside
<1>5. Written(d, i, one) \in Seq(Cells) /\ Len(Written(d, i, one)) = Len(d)
  BY <1>1, <1>3, WrittenFacts
<1>6. ASSUME n < Len(d) PROVE Prefix(ys, Written(d, i, one))
  <2>1. Len(ys) = i - 1 + Len(one)
    BY <1>1, <1>2, <1>3
  <2>2. \A j \in 1..i - 1 : ys[j] = xs[j]
    BY <1>2, <1>3
  <2>3. \A j \in 1..Len(one) : ys[i - 1 + j] = one[j]
    BY <1>1, <1>2, <1>3
  <2>4. Inside(d, i, one)
    BY <1>4, <1>6
  <2> HIDE DEF i
  <2> QED BY <1>1, <1>2, <1>3, <2>1, <2>2, <2>3, <2>4, PrefixWritten
<1> QED BY <1>4, <1>5, <1>6 DEF one, ys, n

(* What a buffer shows is a sequence of cells. *)
LEMMA ShownFacts ==
  ASSUME NEW k, NEW vs \in Seq(Cells)
  PROVE  /\ Shown(k, vs) \in Seq(Cells)
         /\ k # "StringBuf" => Shown(k, vs) = vs
         /\ k = "StringBuf" => /\ Len(Shown(k, vs)) = Len(vs) + 1
                               /\ Shown(k, vs)[Len(vs) + 1] = NUL
                               /\ \A i \in 1..Len(vs) : Shown(k, vs)[i] = vs[i]
<1>1. NUL \in Cells
  BY DEF Cells
<1> QED BY <1>1, AppendFacts DEF Shown

-----------------------------------------------------------------------------
(* Array1. *)

(* The capacity, the memory and its state when array1_push() has made room. *)
More(a)       == IF a * 2 = 0 THEN 2 ELSE a * 2
RoomA(n, a)    == IF Full(n + 1, a) THEN More(a) ELSE a
RoomD(n, a, d) == IF Full(n + 1, a) THEN mem_realloc(d, More(a)) ELSE d
RoomM(n, a, m) == IF Full(n + 1, a) THEN "exact" ELSE m

(* There is room then, except in full memory of array1_new(). *)
LEMMA RoomFacts ==
  ASSUME NEW n, NEW a, NEW d, NEW vs, NEW m, Held("Array1", n, a, d, vs, m)
  PROVE  /\ n = Len(vs) /\ n \in Nat /\ vs \in Seq(Cells)
         /\ RoomD(n, a, d) \in Seq(Cells) /\ Prefix(vs, RoomD(n, a, d))
         /\ Capable("Array1", RoomM(n, a, m), RoomA(n, a), Len(RoomD(n, a, d)))
         /\ RoomA(n, a) \in Nat /\ n + 1 <= RoomA(n, a)
         /\ n < Len(RoomD(n, a, d)) \/ (m = "fresh" /\ n = Len(d))
<1>1. /\ n \in Nat /\ a \in Nat /\ n <= a /\ n = Len(vs)
      /\ d \in Seq(Cells) /\ vs \in Seq(Cells)
      /\ Capable("Array1", m, a, Len(d))
      /\ Prefix(vs, d)
  BY DEF Held, Shown, Cells
<1>2. CASE Full(n + 1, a)
  <2> DEFINE e == mem_realloc(d, More(a))
  <2>1. RoomD(n, a, d) = e /\ RoomM(n, a, m) = "exact" /\ RoomA(n, a) = More(a)
    BY <1>2 DEF RoomD, RoomM, RoomA
  <2>2. More(a) \in Nat /\ More(a) >= n + 1
    BY <1>1, <1>2 DEF More, Full
  <2>3. e \in Seq(Cells) /\ Len(e) = More(a)
    BY <1>1, <2>2, ReallocFacts
  <2>4. Prefix(vs, e)
    BY <1>1, <2>2, PrefixRealloc
  <2> HIDE DEF e
  <2> QED BY <1>1, <2>1, <2>2, <2>3, <2>4 DEF Capable
<1>3. CASE ~Full(n + 1, a)
  <2>1. RoomD(n, a, d) = d /\ RoomM(n, a, m) = m /\ RoomA(n, a) = a
    BY <1>3 DEF RoomD, RoomM, RoomA
  <2>2. n + 1 <= a
    BY <1>1, <1>3 DEF Full
  <2>3. n < Len(d) \/ (m = "fresh" /\ n = Len(d))
    BY <1>1, <2>2 DEF Capable, Prefix
  <2> QED BY <1>1, <2>1, <2>2, <2>3
<1> QED BY <1>2, <1>3

(* A value is written after the others, which is what array1_push() does,   *)
(* and insert() with an index that it then refuses: r is the outcome when   *)
(* there was room.                                                          *)
LEMMA PutStep ==
  ASSUME BufInv, NEW v \in Values, NEW r, r \notin {"wrong", "outside"},
         Usable("Array1"),
         size' = size + 1, alloc_size' = RoomA(size, alloc_size),
         data' = Written(RoomD(size, alloc_size, data), size + 1, <<v>>),
         outcome' = IF Inside(RoomD(size, alloc_size, data), size + 1, <<v>>)
                    THEN r ELSE "outside",
         memory' = IF ~Inside(RoomD(size, alloc_size, data), size + 1, <<v>>)
                   THEN "broken" ELSE RoomM(size, alloc_size, memory),
         ideal' = Append(ideal, v), kind' = kind
  PROVE  BufInv' /\ OverrunStep
<1> DEFINE d  == RoomD(size, alloc_size, data)
           m  == RoomM(size, alloc_size, memory)
           ys == Append(ideal, v)
<1>1. Held("Array1", size, alloc_size, data, ideal, memory) /\ kind = "Array1"
  BY DEF Usable, BufInv
<1>2. /\ size = Len(ideal) /\ size \in Nat /\ ideal \in Seq(Cells)
      /\ d \in Seq(Cells) /\ Prefix(ideal, d)
      /\ Capable("Array1", m, alloc_size', Len(d))
      /\ alloc_size' \in Nat /\ size + 1 <= alloc_size'
      /\ size < Len(d) \/ (memory = "fresh" /\ size = Len(data))
  BY <1>1, RoomFacts
<1> HIDE DEF d, m
<1>3. /\ data' \in Seq(Cells) /\ Len(data') = Len(d)
      /\ Inside(d, size + 1, <<v>>) <=> size < Len(d)
      /\ size < Len(d) => Prefix(ys, data')
  <2>1. v \in Cells
    BY DEF Cells
  <2> QED BY <2>1, <1>2, PrefixAppended DEF d
<1>4. ys \in Seq(Cells) /\ Len(ys) = size + 1
  <2>1. v \in Cells
    BY DEF Cells
  <2> QED BY <2>1, <1>2, AppendFacts
<1>5. CASE size < Len(d)
  <2>1. memory' = m /\ outcome' = r
    BY <1>3, <1>5 DEF d, m
  <2>2. Held("Array1", size', alloc_size', data', ideal', memory')
    BY <1>2, <1>3, <1>4, <1>5, <2>1 DEF Held, Shown
  <2> QED BY <1>1, <2>1, <2>2 DEF BufInv, OverrunStep
<1>6. CASE ~(size < Len(d))
  <2>1. memory' = "broken" /\ outcome' = "outside"
    BY <1>3, <1>6 DEF d
  <2> QED BY <1>2, <1>6, <2>1 DEF BufInv, OverrunStep
<1> QED BY <1>5, <1>6

(* array1_push(). *)
LEMMA PushStep ==
  ASSUME BufInv, NEW v \in Values, array1_push(v)
  PROVE  BufInv' /\ OverrunStep
<1> DEFINE d == RoomD(size, alloc_size, data)
           r == "fine"
<1>1. /\ Usable("Array1")
      /\ size' = size + 1 /\ alloc_size' = RoomA(size, alloc_size)
      /\ Store(d, size + 1, <<v>>, Full(size + 1, alloc_size))
      /\ ideal' = Append(ideal, v) /\ kind' = kind
  BY DEF array1_push, RoomA, RoomD, More
<1>2. /\ data' = Written(d, size + 1, <<v>>)
      /\ outcome' = IF Inside(d, size + 1, <<v>>) THEN r ELSE "outside"
      /\ memory' = IF ~Inside(d, size + 1, <<v>>) THEN "broken"
                   ELSE RoomM(size, alloc_size, memory)
  BY <1>1 DEF Store, RoomM
<1>3. r \notin {"wrong", "outside"}
  OBVIOUS
<1> HIDE DEF r
<1> QED BY <1>1, <1>2, <1>3, PutStep

(* insert(): a push, a put that is reported, or a move of the rest. *)
LEMMA InsertStep ==
  ASSUME BufInv, NEW v \in Values, NEW idx \in Int, insert(idx, v)
  PROVE  BufInv' /\ OverrunStep
<1> DEFINE d    == RoomD(size, alloc_size, data)
           m    == RoomM(size, alloc_size, memory)
           i    == util_index(idx, size)
           tail == <<v>> \o SubSeq(d, i + 1, size)
           ys   == SubSeq(ideal, 1, Nth(idx) - 1) \o <<v>> \o SubSeq(ideal, Nth(idx), Len(ideal))
<1>1. Usable("Array1")
  BY DEF insert
<1>2. CASE idx = size + 1
  <2>1. array1_push(v)
    BY <1>2 DEF insert
  <2> QED BY <2>1, PushStep
<1>3. CASE idx # size + 1 /\ i = -1
  <2> DEFINE r == "insert"
  <2>1. /\ size' = size + 1 /\ alloc_size' = RoomA(size, alloc_size)
        /\ data' = Written(d, size + 1, <<v>>)
        /\ outcome' = IF Inside(d, size + 1, <<v>>) THEN r ELSE "outside"
        /\ memory' = IF ~Inside(d, size + 1, <<v>>) THEN "broken" ELSE m
        /\ ideal' = Append(ideal, v) /\ kind' = kind
    BY <1>3 DEF insert, RoomA, RoomD, RoomM, More
  <2>2. r \notin {"wrong", "outside"}
    OBVIOUS
  <2> HIDE DEF r
  <2> QED BY <1>1, <2>1, <2>2, PutStep
<1>4. CASE idx # size + 1 /\ i # -1
  <2>1. /\ size' = size + 1 /\ alloc_size' = RoomA(size, alloc_size)
        /\ Store(d, i + 1, tail, Full(size + 1, alloc_size))
        /\ ideal' = ys /\ kind' = kind
    BY <1>4 DEF insert, RoomA, RoomD, More
  <2>2. Held("Array1", size, alloc_size, data, ideal, memory) /\ kind = "Array1"
    BY <1>1 DEF Usable, BufInv
  <2>3. /\ size = Len(ideal) /\ size \in Nat /\ ideal \in Seq(Cells)
        /\ d \in Seq(Cells) /\ Prefix(ideal, d)
        /\ Capable("Array1", m, alloc_size', Len(d))
        /\ alloc_size' \in Nat /\ size + 1 <= alloc_size'
        /\ size < Len(d) \/ (memory = "fresh" /\ size = Len(data))
    BY <2>1, <2>2, RoomFacts
  <2>4. i \in 0..size - 1 /\ Nth(idx) = i + 1
    BY <1>4, <2>3 DEF util_index, Nth
  <2> HIDE DEF d, m, i
  <2>5. size <= Len(d)
    BY <2>3 DEF Prefix
  <2>6. /\ tail \in Seq(Cells) /\ Len(tail) = size - i + 1
        /\ tail[1] = v
        /\ \A j \in 2..size - i + 1 : tail[j] = d[i + j - 1]
    <3> DEFINE rest == SubSeq(d, i + 1, size)
    <3>1. /\ rest \in Seq(Cells) /\ Len(rest) = size - i
          /\ \A j \in 1..size - i : rest[j] = d[i + j]
      BY SMTT(60), <2>3, <2>4, <2>5
    <3>2. v \in Cells
      BY DEF Cells
    <3> HIDE DEF rest
    <3>3. /\ (<<v>> \o rest) \in Seq(Cells) /\ Len(<<v>> \o rest) = 1 + Len(rest)
          /\ (<<v>> \o rest)[1] = v
          /\ \A j \in 2..1 + Len(rest) : (<<v>> \o rest)[j] = rest[j - 1]
      BY <3>1, <3>2
    <3>4. \A j \in 2..size - i + 1 : rest[j - 1] = d[i + j - 1]
      BY <3>1, <2>4, <2>3
    <3> QED BY <3>1, <3>3, <3>4, <2>3, <2>4 DEF rest
  <2>7. /\ ys \in Seq(Cells) /\ Len(ys) = size + 1
        /\ \A j \in 1..i : ys[j] = ideal[j]
        /\ ys[i + 1] = v
        /\ \A j \in i + 2..size + 1 : ys[j] = ideal[j - 1]
    <3> DEFINE front == SubSeq(ideal, 1, i)
               back  == SubSeq(ideal, i + 1, size)
    <3>1. /\ front \in Seq(Cells) /\ Len(front) = i /\ \A j \in 1..i : front[j] = ideal[j]
      BY <2>3, <2>4
    <3>2. /\ back \in Seq(Cells) /\ Len(back) = size - i
          /\ \A j \in 1..size - i : back[j] = ideal[i + j]
      BY <2>3, <2>4
    <3>3. ys = front \o <<v>> \o back
      BY <2>3, <2>4
    <3> HIDE DEF front, back
    <3>4. /\ (front \o <<v>>) \in Seq(Cells) /\ Len(front \o <<v>>) = i + 1
          /\ \A j \in 1..i : (front \o <<v>>)[j] = front[j]
          /\ (front \o <<v>>)[i + 1] = v
      <4>1. v \in Cells
        BY DEF Cells
      <4> QED BY <3>1, <2>4, <4>1
    <3> DEFINE head == front \o <<v>>
    <3> HIDE DEF head, ys
    <3>5. /\ (head \o back) \in Seq(Cells) /\ Len(head \o back) = size + 1
          /\ \A j \in 1..i + 1 : (head \o back)[j] = head[j]
          /\ \A j \in i + 2..size + 1 : (head \o back)[j] = back[j - (i + 1)]
      <4>1. head \in Seq(Cells) /\ Len(head) = i + 1
        BY <3>4 DEF head
      <4>2. Len(head) + Len(back) = size + 1
        BY <4>1, <3>2, <2>3, <2>4
      <4>3. /\ (head \o back) \in Seq(Cells) /\ Len(head \o back) = Len(head) + Len(back)
            /\ \A j \in 1..Len(head) : (head \o back)[j] = head[j]
            /\ \A j \in Len(head) + 1..Len(head) + Len(back) :
                 (head \o back)[j] = back[j - Len(head)]
        BY <4>1, <3>2, ConcatFacts
      <4>4. Len(head) + 1 = i + 2
        BY <4>1, <2>4
      <4> QED BY <4>1, <4>2, <4>3, <4>4
    <3>6. \A j \in i + 2..size + 1 : back[j - (i + 1)] = ideal[j - 1]
      <4> SUFFICES ASSUME NEW j \in i + 2..size + 1 PROVE back[j - (i + 1)] = ideal[j - 1]
        OBVIOUS
      <4>1. j - (i + 1) \in 1..size - i /\ i + (j - (i + 1)) = j - 1
        BY <2>3, <2>4
      <4> QED BY <4>1, <3>2
    <3> QED BY <3>1, <3>3, <3>4, <3>5, <3>6, <2>3, <2>4 DEF head
  <2> HIDE DEF tail, ys
  <2>8. /\ data' = Written(d, i + 1, tail)
        /\ outcome' = IF Inside(d, i + 1, tail) THEN "fine" ELSE "outside"
        /\ memory' = IF ~Inside(d, i + 1, tail) THEN "broken" ELSE m
    BY <2>1 DEF Store, m, RoomM
  <2>9. Inside(d, i + 1, tail) <=> size < Len(d)
    BY <2>3, <2>4, <2>6 DEF Inside
  <2>10. CASE size < Len(d)
    <3>1. memory' = m /\ outcome' = "fine"
      BY <2>8, <2>9, <2>10
    <3>2. ys \in Seq(Cells)
      BY <2>7 DEF Cells
    <3>3. \A j \in 1..Len(tail) : ys[i + j] = tail[j]
      <4> SUFFICES ASSUME NEW j \in 1..Len(tail) PROVE ys[i + j] = tail[j]
        OBVIOUS
      <4>1. CASE j = 1
        BY <4>1, <2>6, <2>7, <2>4
      <4>2. CASE j # 1
        <5>1. j \in 2..size - i + 1 /\ i + j \in i + 2..size + 1 /\ i + j - 1 \in 1..Len(ideal)
          BY <4>2, <2>3, <2>4, <2>6
        <5>2. tail[j] = d[i + j - 1]
          BY <5>1, <2>6
        <5>3. ys[i + j] = ideal[i + j - 1]
          <6>1. (i + j) - 1 = i + (j - 1)
            BY <5>1, <2>3, <2>4
          <6> QED BY <6>1, <5>1, <2>7
        <5> QED BY <5>1, <5>2, <5>3, <2>3 DEF Prefix
      <4> QED BY <4>1, <4>2
    <3>4. Prefix(ys, data')
      <4> DEFINE p == i + 1
      <4>1. p \in 1..Len(ideal) + 1 /\ Inside(d, p, tail)
        BY <2>3, <2>4, <2>9, <2>10
      <4>2. Len(ys) = p - 1 + Len(tail)
        BY <2>3, <2>4, <2>6, <2>7
      <4>3. \A j \in 1..p - 1 : ys[j] = ideal[j]
        BY <2>4, <2>7
      <4>4. \A j \in 1..Len(tail) : ys[p - 1 + j] = tail[j]
        BY <3>3, <2>4
      <4>5. data' = Written(d, p, tail)
        BY <2>8
      <4> HIDE DEF p
      <4> QED BY <2>3, <2>6, <3>2, <4>1, <4>2, <4>3, <4>4, <4>5, PrefixWritten
    <3>5. data' \in Seq(Cells) /\ Len(data') = Len(d)
      BY <2>3, <2>4, <2>6, <2>8, WrittenFacts
    <3>6. Held("Array1", size', alloc_size', data', ideal', memory')
      BY <2>1, <2>3, <2>7, <3>1, <3>4, <3>5 DEF Held, Shown
    <3> QED BY <2>1, <2>2, <3>1, <3>6 DEF BufInv, OverrunStep
  <2>11. CASE ~(size < Len(d))
    BY <2>1, <2>3, <2>8, <2>9, <2>11 DEF BufInv, OverrunStep
  <2> QED BY <2>10, <2>11
<1> QED BY <1>2, <1>3, <1>4

(* What Held() says of an array. *)
LEMMA ArrayFacts ==
  ASSUME BufInv, NEW k, k # "StringBuf", Usable(k)
  PROVE  /\ kind = k /\ memory # "broken"
         /\ size \in Nat /\ alloc_size \in Nat /\ size <= alloc_size /\ size = Len(ideal)
         /\ data \in Seq(Cells) /\ ideal \in Seq(Cells)
         /\ Capable(k, memory, alloc_size, Len(data))
         /\ Prefix(ideal, data) /\ size <= Len(data)
  BY DEF BufInv, Usable, Held, Shown, Cells, Prefix

(* A call that changes nothing. *)
LEMMA AnswerStep ==
  ASSUME BufInv, NEW r, r \notin {"wrong", "outside"}, Answer(r)
  PROVE  BufInv' /\ OverrunStep
  BY DEF BufInv, Answer, OverrunStep

(* All but the last element. *)
LEMMA ButLastFacts ==
  ASSUME NEW xs \in Seq(Cells), Len(xs) # 0
  PROVE  /\ SubSeq(xs, 1, Len(xs) - 1) \in Seq(Cells)
         /\ Len(SubSeq(xs, 1, Len(xs) - 1)) = Len(xs) - 1
         /\ \A i \in 1..Len(xs) - 1 : SubSeq(xs, 1, Len(xs) - 1)[i] = xs[i]
<1> DEFINE n == Len(xs) - 1
<1>1. n \in Nat /\ \A i \in 1..n : xs[i] \in Cells
  BY LenProperties
<1> HIDE DEF n
<1>2. /\ SubSeq(xs, 1, n) \in Seq(Cells) /\ Len(SubSeq(xs, 1, n)) = n
      /\ \A i \in 1..n : SubSeq(xs, 1, n)[i] = xs[i]
  BY <1>1, SubSeqProperties
<1> QED BY <1>2 DEF n

(* Reading a recorded element gives that of the sequence. *)
LEMMA CompareFine ==
  ASSUME Prefix(ideal, data), NEW i \in 1..Len(ideal)
  PROVE  Compare(i, ideal[i]) = "fine"
  BY DEF Prefix, Compare

(* array1_pop() gives up memory only when what is left fits. *)
LEMMA PopStep ==
  ASSUME BufInv, array1_pop
  PROVE  BufInv' /\ OverrunStep
<1> DEFINE n    == size - 1
           less == IF alloc_size \div 2 < 2 THEN 2 ELSE alloc_size \div 2
           low  == Shrinks(n, alloc_size)
           ys   == SubSeq(ideal, 1, Len(ideal) - 1)
<1>1. CASE size = 0
  <2>1. Answer("raised")
    BY <1>1 DEF array1_pop
  <2> QED BY <2>1, AnswerStep
<1>2. CASE size # 0
  <2>1. /\ size' = n
        /\ alloc_size' = IF low THEN less ELSE alloc_size
        /\ data' = IF low THEN mem_realloc(data, less) ELSE data
        /\ memory' = IF low THEN "exact" ELSE memory
        /\ outcome' = Compare(size, ideal[Len(ideal)])
        /\ ideal' = ys
        /\ kind' = kind
    BY <1>2 DEF array1_pop
  <2>2. /\ kind = "Array1" /\ memory # "broken"
        /\ size \in Nat /\ alloc_size \in Nat /\ size <= alloc_size /\ size = Len(ideal)
        /\ data \in Seq(Cells) /\ ideal \in Seq(Cells)
        /\ Capable("Array1", memory, alloc_size, Len(data))
        /\ Prefix(ideal, data) /\ size <= Len(data)
    BY ArrayFacts DEF array1_pop
  <2>3. outcome' = "fine"
    BY <1>2, <2>1, <2>2, CompareFine
  <2>4. /\ ys \in Seq(Cells) /\ Len(ys) = n /\ \A i \in 1..n : ys[i] = ideal[i]
    BY <1>2, <2>2, ButLastFacts
  <2>5. Prefix(ys, data) /\ ys \in Seq(Cells)
    <3> HIDE DEF ys
    <3> QED BY <2>2, <2>4 DEF Prefix, Cells
  <2>6. less \in Nat /\ (low => n <= less)
    BY <1>2, <2>2 DEF Shrinks
  <2> HIDE DEF ys, n, less
  <2>7. /\ data' \in Seq(Cells) /\ Prefix(ys, data')
        /\ Capable("Array1", memory', alloc_size', Len(data'))
        /\ alloc_size' \in Nat /\ n <= alloc_size'
    <3>1. CASE low
      BY <3>1, <2>1, <2>2, <2>4, <2>5, <2>6, ReallocFacts, PrefixRealloc DEF Capable
    <3>2. CASE ~low
      BY <3>2, <2>1, <2>2, <2>5 DEF n
    <3> QED BY <3>1, <3>2
  <2>8. Held("Array1", size', alloc_size', data', ideal', memory')
    BY <1>2, <2>1, <2>2, <2>4, <2>7 DEF Held, Shown, n
  <2> QED BY <2>1, <2>2, <2>3, <2>8 DEF BufInv, OverrunStep
<1> QED BY <1>1, <1>2

(* A recorded element is overwritten. *)
LEMMA PrefixSet ==
  ASSUME NEW d \in Seq(Cells), NEW xs \in Seq(Cells), Prefix(xs, d),
         NEW i \in 1..Len(xs), NEW v \in Values
  PROVE  /\ Inside(d, i, <<v>>)
         /\ Written(d, i, <<v>>) \in Seq(Cells) /\ Len(Written(d, i, <<v>>)) = Len(d)
         /\ [xs EXCEPT ![i] = v] \in Seq(Cells) /\ Len([xs EXCEPT ![i] = v]) = Len(xs)
         /\ Prefix([xs EXCEPT ![i] = v], Written(d, i, <<v>>))
<1> DEFINE one == <<v>>
           ys  == [xs EXCEPT ![i] = v]
           w   == Written(d, i, one)
<1>0. v \in Cells
  BY DEF Cells
<1>1. one \in Seq(Cells) /\ Len(one) = 1 /\ one[1] = v
  BY <1>0
<1>2. /\ ys \in Seq(Cells) /\ Len(ys) = Len(xs)
      /\ \A j \in 1..Len(xs) : ys[j] = IF j = i THEN v ELSE xs[j]
  BY <1>0, ExceptSeq
<1> HIDE DEF one, ys
<1>3. /\ w \in Seq(Cells) /\ Len(w) = Len(d)
      /\ \A j \in 1..Len(d) : w[j] = IF j \in i..i + Len(one) - 1 THEN one[j - i + 1] ELSE d[j]
  <2>1. i \in Int
    OBVIOUS
  <2> QED BY <2>1, <1>1, WrittenFacts
<1> HIDE DEF w
<1>4. \A j \in 1..Len(d) : w[j] = IF j = i THEN v ELSE d[j]
  BY <1>1, <1>3
<1>5. Inside(d, i, one)
  BY <1>1 DEF Inside, Prefix
<1>6. Prefix(ys, w)
  BY <1>2, <1>3, <1>4 DEF Prefix
<1> QED BY <1>2, <1>3, <1>5, <1>6 DEF one, ys, w

(* The place of an index. *)
LEMMA IndexFacts ==
  ASSUME size \in Nat, size = Len(ideal), NEW idx \in Int, util_index(idx, size) # -1
  PROVE  /\ util_index(idx, size) \in 0..size - 1
         /\ Nth(idx) = util_index(idx, size) + 1
  BY DEF util_index, Nth

(* Reading by an index. *)
LEMMA IndexGetStep ==
  ASSUME BufInv, NEW k, k # "StringBuf", NEW idx \in Int, IndexGet(k, idx)
  PROVE  BufInv' /\ OverrunStep
<1> DEFINE i == util_index(idx, size)
           r == IF i = -1 THEN "raised" ELSE Compare(i + 1, ideal[Nth(idx)])
<1>1. Usable(k) /\ Answer(r)
  BY DEF IndexGet
<1>2. size \in Nat /\ size = Len(ideal) /\ Prefix(ideal, data)
  BY <1>1, ArrayFacts
<1>3. i # -1 => i + 1 \in 1..Len(ideal) /\ Nth(idx) = i + 1
  BY <1>2, IndexFacts
<1>4. i # -1 => Compare(i + 1, ideal[i + 1]) = "fine"
  <2> HIDE DEF i
  <2> QED BY <1>2, <1>3, CompareFine
<1>5. r \notin {"wrong", "outside"}
  BY <1>3, <1>4
<1> HIDE DEF r
<1> QED BY <1>1, <1>5, AnswerStep

(* Writing a recorded place of an array. *)
LEMMA SetStep ==
  ASSUME BufInv, NEW k, k # "StringBuf", Usable(k), NEW v \in Values,
         NEW p \in 1..Len(ideal), Store(data, p, <<v>>, FALSE),
         ideal' = [ideal EXCEPT ![p] = v], UNCHANGED <<kind, size, alloc_size>>
  PROVE  BufInv' /\ OverrunStep
<1>1. /\ kind = k /\ memory # "broken"
      /\ size \in Nat /\ alloc_size \in Nat /\ size <= alloc_size /\ size = Len(ideal)
      /\ data \in Seq(Cells) /\ ideal \in Seq(Cells)
      /\ Capable(k, memory, alloc_size, Len(data))
      /\ Prefix(ideal, data) /\ size <= Len(data)
  BY ArrayFacts
<1>2. /\ Inside(data, p, <<v>>)
      /\ Written(data, p, <<v>>) \in Seq(Cells) /\ Len(Written(data, p, <<v>>)) = Len(data)
      /\ ideal' \in Seq(Cells) /\ Len(ideal') = Len(ideal)
      /\ Prefix(ideal', Written(data, p, <<v>>))
  <2> DEFINE ys == [ideal EXCEPT ![p] = v]
  <2>1. /\ Inside(data, p, <<v>>)
        /\ Written(data, p, <<v>>) \in Seq(Cells) /\ Len(Written(data, p, <<v>>)) = Len(data)
        /\ ys \in Seq(Cells) /\ Len(ys) = Len(ideal) /\ Prefix(ys, Written(data, p, <<v>>))
    BY <1>1, PrefixSet
  <2>2. ideal' = ys
    OBVIOUS
  <2> HIDE DEF ys
  <2> QED BY <2>1, <2>2
<1>3. data' = Written(data, p, <<v>>) /\ outcome' = "fine" /\ memory' = memory
  BY <1>2 DEF Store
<1>4. Held(k, size', alloc_size', data', ideal', memory')
  BY <1>1, <1>2, <1>3 DEF Held, Shown
<1> QED BY <1>1, <1>3, <1>4 DEF BufInv, OverrunStep

(* Writing by an index. *)
LEMMA IndexSetStep ==
  ASSUME BufInv, NEW k, k # "StringBuf", NEW idx \in Int, NEW v \in Values,
         IndexSet(k, idx, v)
  PROVE  BufInv' /\ OverrunStep
<1> DEFINE i == util_index(idx, size)
           p == i + 1
<1>1. Usable(k) /\ size \in Nat /\ size = Len(ideal)
  BY ArrayFacts DEF IndexSet
<1>2. CASE i = -1
  <2>1. Answer("raised")
    BY <1>2 DEF IndexSet
  <2> QED BY <2>1, AnswerStep
<1>3. CASE i # -1
  <2>1. p \in 1..Len(ideal) /\ Nth(idx) = p
    BY <1>1, <1>3, IndexFacts
  <2>2. /\ Store(data, p, <<v>>, FALSE)
        /\ ideal' = [ideal EXCEPT ![p] = v]
        /\ UNCHANGED <<kind, size, alloc_size>>
    BY <1>3, <2>1 DEF IndexSet
  <2> HIDE DEF p
  <2> QED BY <1>1, <2>1, <2>2, SetStep
<1> QED BY <1>2, <1>3

(* remove(): the elements after the removed one move down. *)
LEMMA RemoveStep ==
  ASSUME BufInv, NEW idx \in Int, remove(idx)
  PROVE  BufInv' /\ OverrunStep
<1> DEFINE i    == util_index(idx, size)
           tail == [j \in 1..size - i |-> IF i + j + 1 \in 1..Len(data) THEN data[i + j + 1]
                                          ELSE Junk]
           ys   == SubSeq(ideal, 1, Nth(idx) - 1) \o SubSeq(ideal, Nth(idx) + 1, Len(ideal))
<1>1. /\ kind = "Array1" /\ memory # "broken"
      /\ size \in Nat /\ alloc_size \in Nat /\ size <= alloc_size /\ size = Len(ideal)
      /\ data \in Seq(Cells) /\ ideal \in Seq(Cells)
      /\ Capable("Array1", memory, alloc_size, Len(data))
      /\ Prefix(ideal, data) /\ size <= Len(data)
  BY ArrayFacts DEF remove
<1>2. CASE i = -1
  <2>1. Answer("raised")
    BY <1>2 DEF remove
  <2> QED BY <2>1, AnswerStep
<1>3. CASE i # -1
  <2>1. i \in 0..size - 1 /\ Nth(idx) = i + 1
    BY <1>1, <1>3, IndexFacts
  <2>2. /\ data' = Written(data, i + 1, tail)
        /\ outcome' \in {"fine", "remove"}
        /\ size' = size - 1 /\ ideal' = ys
        /\ UNCHANGED <<kind, alloc_size, memory>>
    BY <1>3 DEF remove
  <2> HIDE DEF i
  <2>3. /\ tail \in Seq(Cells) /\ Len(tail) = size - i
        /\ \A j \in 1..(size - i) - 1 : tail[j] = data[(i + j) + 1]
    <3>1. size - i \in Nat
      BY <1>1, <2>1
    <3>2. \A j \in 1..size - i :
            (IF i + j + 1 \in 1..Len(data) THEN data[i + j + 1] ELSE Junk) \in Cells
      BY <1>1 DEF Cells
    <3>3. tail \in Seq(Cells) /\ Len(tail) = size - i
      BY <3>1, <3>2
    <3>4. ASSUME NEW j \in 1..(size - i) - 1 PROVE tail[j] = data[(i + j) + 1]
      <4>1. (i + j) + 1 \in 1..Len(data) /\ j \in 1..size - i
        BY <1>1, <2>1
      <4> QED BY <4>1
    <3> QED BY <3>3, <3>4
  <2>4. /\ ys \in Seq(Cells) /\ Len(ys) = size - 1
        /\ \A j \in 1..i : ys[j] = ideal[j]
        /\ \A j \in i + 1..size - 1 : ys[j] = ideal[j + 1]
    <3> DEFINE front == SubSeq(ideal, 1, i)
               back  == SubSeq(ideal, i + 2, size)
    <3>1. front \in Seq(Cells) /\ Len(front) = i /\ \A j \in 1..i : front[j] = ideal[j]
      BY <1>1, <2>1
    <3>2. /\ back \in Seq(Cells) /\ Len(back) = size - i - 1
          /\ \A j \in 1..size - i - 1 : back[j] = ideal[(i + j) + 1]
      <4> DEFINE lo == i + 2
      <4>1. lo \in Int /\ size \in Int /\ \A j \in lo..size : ideal[j] \in Cells
        BY <1>1, <2>1
      <4>2. (IF lo <= size THEN size - lo + 1 ELSE 0) = size - i - 1
            /\ size - lo + 1 = size - i - 1
        BY <1>1, <2>1
      <4>3. \A j \in 1..size - i - 1 : lo + j - 1 = (i + j) + 1
        BY <1>1, <2>1
      <4> HIDE DEF lo
      <4>4. /\ SubSeq(ideal, lo, size) \in Seq(Cells)
            /\ Len(SubSeq(ideal, lo, size)) = IF lo <= size THEN size - lo + 1 ELSE 0
            /\ \A j \in 1..size - lo + 1 : SubSeq(ideal, lo, size)[j] = ideal[lo + j - 1]
        BY <4>1, SubSeqProperties
      <4>5. Len(SubSeq(ideal, lo, size)) = size - i - 1
        BY <4>2, <4>4
      <4>6. \A j \in 1..size - i - 1 : SubSeq(ideal, lo, size)[j] = ideal[(i + j) + 1]
        BY <4>2, <4>3, <4>4
      <4> QED BY <4>4, <4>5, <4>6 DEF lo
    <3>3. ys = front \o back
      <4>1. Nth(idx) - 1 = i /\ Nth(idx) + 1 = i + 2
        BY <2>1
      <4> QED BY <4>1, <1>1
    <3> HIDE DEF front, back
    <3>4. /\ (front \o back) \in Seq(Cells) /\ Len(front \o back) = i + (size - i - 1)
          /\ \A j \in 1..i : (front \o back)[j] = front[j]
          /\ \A j \in i + 1..i + (size - i - 1) : (front \o back)[j] = back[j - i]
      <4>1. /\ (front \o back) \in Seq(Cells) /\ Len(front \o back) = Len(front) + Len(back)
            /\ \A j \in 1..Len(front) : (front \o back)[j] = front[j]
            /\ \A j \in Len(front) + 1..Len(front) + Len(back) :
                 (front \o back)[j] = back[j - Len(front)]
        BY ZenonT(60), <3>1, <3>2, ConcatFacts
      <4> QED BY <4>1, <3>1, <3>2
    <3>5. i + (size - i - 1) = size - 1
      BY <1>1, <2>1
    <3>6. \A j \in i + 1..size - 1 : back[j - i] = ideal[j + 1]
      <4> SUFFICES ASSUME NEW j \in i + 1..size - 1 PROVE back[j - i] = ideal[j + 1]
        OBVIOUS
      <4>1. j - i \in 1..size - i - 1 /\ (i + (j - i)) + 1 = j + 1
        BY <1>1, <2>1
      <4> QED BY <4>1, <3>2
    <3> QED BY <3>1, <3>3, <3>4, <3>5, <3>6
  <2> HIDE DEF tail, ys
  <2>5. /\ data' \in Seq(Cells) /\ Len(data') = Len(data)
        /\ \A j \in 1..Len(data) : data'[j] =
             IF j \in i + 1..i + 1 + Len(tail) - 1 THEN tail[j - (i + 1) + 1] ELSE data[j]
    <3> DEFINE p == i + 1
    <3>1. p \in Int /\ data' = Written(data, p, tail)
      BY <2>1, <2>2
    <3> HIDE DEF p
    <3>2. /\ data' \in Seq(Cells) /\ Len(data') = Len(data)
          /\ \A j \in 1..Len(data) : data'[j] =
               IF j \in p..p + Len(tail) - 1 THEN tail[j - p + 1] ELSE data[j]
      BY <3>1, <1>1, <2>3, WrittenFacts
    <3> QED BY <3>2 DEF p
  <2>6. Prefix(ys, data')
    <3>1. ASSUME NEW j \in 1..size - 1 PROVE data'[j] = ys[j]
      <4>1. j \in 1..Len(data) /\ j \in 1..Len(ideal)
        BY <1>1
      <4>2. CASE j <= i
        <5>1. j \in 1..i /\ j \notin i + 1..i + 1 + Len(tail) - 1
          BY <4>2, <2>1
        <5>2. data'[j] = data[j] /\ ys[j] = ideal[j]
          BY <5>1, <4>1, <2>4, <2>5
        <5> QED BY <5>2, <4>1, <1>1 DEF Prefix
      <4>3. CASE j > i
        <5>1. /\ j \in i + 1..i + 1 + Len(tail) - 1 /\ j \in i + 1..size - 1
              /\ j - (i + 1) + 1 = j - i /\ j - i \in 1..(size - i) - 1
              /\ (i + (j - i)) + 1 = j + 1 /\ j + 1 \in 1..Len(ideal)
          BY <4>3, <1>1, <2>1, <2>3
        <5>2. data'[j] = tail[j - i]
          BY <5>1, <4>1, <2>5
        <5>3. tail[j - i] = data[j + 1]
          BY <5>1, <2>3
        <5>4. ys[j] = ideal[j + 1]
          BY <5>1, <2>4
        <5> QED BY <5>1, <5>2, <5>3, <5>4, <1>1 DEF Prefix
      <4> QED BY <4>2, <4>3, <2>1
    <3>2. Len(ys) = size - 1 /\ Len(ys) <= Len(data')
      BY <1>1, <2>4, <2>5
    <3> QED BY <3>1, <3>2 DEF Prefix
  <2>7. Held("Array1", size', alloc_size', data', ideal', memory')
    BY <1>1, <2>1, <2>2, <2>4, <2>5, <2>6 DEF Held, Shown
  <2> QED BY <1>1, <2>2, <2>7 DEF BufInv, OverrunStep
<1> QED BY <1>2, <1>3

(* slice() of an array with elements has places in the array. *)
LEMMA SliceFacts ==
  ASSUME NEW first \in Int, NEW final \in Int, size \in Nat
  PROVE  /\ Len(SlicePlaces(first, final)) \in Nat
         /\ \A j \in 1..Len(SlicePlaces(first, final)) : SlicePlaces(first, final)[j] \in Int
         /\ first \in 0..size - 1 /\ final \in 0..size - 1 =>
              \A j \in 1..Len(SlicePlaces(first, final)) :
                SlicePlaces(first, final)[j] \in 0..size - 1
<1>1. CASE first <= final
  <2> DEFINE n == final - first + 1
  <2>1. n \in Nat /\ SlicePlaces(first, final) = [j \in 1..n |-> first + j - 1]
    BY <1>1 DEF SlicePlaces
  <2>2. Len(SlicePlaces(first, final)) = n
    BY <2>1
  <2> QED BY <2>1, <2>2, <1>1
<1>2. CASE ~(first <= final)
  <2> DEFINE n == first - final + 1
  <2>1. n \in Nat /\ SlicePlaces(first, final) = [j \in 1..n |-> first - j + 1]
    BY <1>2 DEF SlicePlaces
  <2>2. Len(SlicePlaces(first, final)) = n
    BY <2>1
  <2> QED BY <2>1, <2>2, <1>2
<1> QED BY <1>1, <1>2

(* slice(): the new array has the elements of the old one, or of an empty   *)
(* one what the memory holds, and less memory than it says.                 *)
LEMMA SliceStep ==
  ASSUME BufInv, NEW type \in Ranges, NEW start \in Int, NEW finish \in Int,
         slice(type, start, finish)
  PROVE  BufInv' /\ OverrunStep
<1> DEFINE first  == RangeFirst(type, start, size)
           final   == RangeLast(type, finish, size)
           places == SlicePlaces(first, final)
           n      == Len(places)
           taken   == [j \in 1..n |->
                        IF places[j] + 1 \in 1..Len(data) THEN data[places[j] + 1] ELSE Junk]
<1>1. /\ kind = "Array1" /\ memory # "broken"
      /\ size \in Nat /\ alloc_size \in Nat /\ size <= alloc_size /\ size = Len(ideal)
      /\ data \in Seq(Cells) /\ ideal \in Seq(Cells)
      /\ Capable("Array1", memory, alloc_size, Len(data))
      /\ Prefix(ideal, data) /\ size <= Len(data)
  BY ArrayFacts DEF slice
<1>2. CASE RangeRaises(type, start, finish, size)
  <2>1. Answer("raised")
    BY <1>2 DEF slice
  <2> QED BY <2>1, AnswerStep
<1>3. CASE ~RangeRaises(type, start, finish, size)
  <2>1. /\ size' = n /\ alloc_size' = 2 * n
        /\ data' = Written(mem_malloc(n), 1, taken)
        /\ memory' = "fresh" /\ outcome' \in {"slice", "fine"}
        /\ ideal' = IF size = 0 THEN taken ELSE [j \in 1..n |-> ideal[places[j] + 1]]
        /\ kind' = kind
    BY <1>3 DEF slice, array1_new
  <2>2. /\ first \in Int /\ final \in Int
        /\ size # 0 => first \in 0..size - 1 /\ final \in 0..size - 1
    BY <1>1, <1>3 DEF RangeRaises, RangeFirst, RangeLast, util_index
  <2> HIDE DEF first, final
  <2>3. /\ n \in Nat /\ \A j \in 1..n : places[j] \in Int
        /\ size # 0 => \A j \in 1..n : places[j] + 1 \in 1..Len(ideal)
    <3>1. /\ n \in Nat /\ \A j \in 1..n : places[j] \in Int
          /\ size # 0 => \A j \in 1..n : places[j] \in 0..size - 1
      BY <1>1, <2>2, SliceFacts
    <3> QED BY <3>1, <1>1
  <2> HIDE DEF places, n
  <2>4. ideal' = taken
    <3>1. CASE size = 0
      BY <2>1, <3>1
    <3>2. CASE size # 0
      <4>1. \A j \in 1..n : /\ places[j] + 1 \in 1..Len(data)
                            /\ data[places[j] + 1] = ideal[places[j] + 1]
        BY <1>1, <2>3, <3>2 DEF Prefix
      <4> QED BY <2>1, <3>2, <4>1
    <3> QED BY <3>1, <3>2
  <2>5. taken \in Seq(Cells) /\ Len(taken) = n
    <3>1. \A j \in 1..n : (IF places[j] + 1 \in 1..Len(data) THEN data[places[j] + 1]
                           ELSE Junk) \in Cells
      BY <1>1, <2>3 DEF Cells
    <3> QED BY <2>3, <3>1
  <2> HIDE DEF taken
  <2>7. mem_malloc(n) \in Seq(Cells) /\ Len(mem_malloc(n)) = n
    BY <2>3, MallocFacts
  <2> DEFINE none == <<>>
  <2>8. none \in Seq(Cells) /\ Len(none) = 0 /\ Prefix(none, mem_malloc(n))
    BY <2>7 DEF Prefix
  <2> HIDE DEF none
  <2>9. Prefix(taken, data') /\ data' \in Seq(Cells) /\ Len(data') = n
    <3> DEFINE i == 1
    <3>1. i \in 1..Len(none) + 1 /\ i \in Int /\ Len(taken) = i - 1 + Len(taken)
      BY <2>8, <2>5, <2>3
    <3>2. Inside(mem_malloc(n), i, taken)
      BY <2>5, <2>7, <2>3 DEF Inside
    <3>3. /\ \A j \in 1..i - 1 : taken[j] = none[j]
          /\ \A j \in 1..Len(taken) : taken[i - 1 + j] = taken[j]
      BY <2>5, <2>3
    <3>4. data' = Written(mem_malloc(n), i, taken)
      BY <2>1
    <3> HIDE DEF i
    <3>5. Prefix(taken, data')
      BY <2>5, <2>7, <2>8, <3>1, <3>2, <3>3, <3>4, PrefixWritten
    <3> QED BY <2>5, <2>7, <3>1, <3>4, <3>5, WrittenFacts
  <2>10. Held("Array1", size', alloc_size', data', ideal', memory')
    <3>1. "Array1" # "StringBuf" /\ Shown("Array1", ideal') = ideal'
      BY DEF Shown
    <3>2. Capable("Array1", memory', alloc_size', Len(data'))
      BY <2>1, <2>9 DEF Capable
    <3>3. size' \in Nat /\ alloc_size' \in Nat /\ size' <= alloc_size' /\ size' = Len(ideal')
      BY <2>1, <2>3, <2>4, <2>5
    <3> QED BY <2>4, <2>5, <2>9, <3>1, <3>2, <3>3 DEF Held
  <2> QED BY <1>1, <2>1, <2>10 DEF BufInv, OverrunStep
<1> QED BY <1>2, <1>3

-----------------------------------------------------------------------------
(* Array and SArray. *)

(* Only arrays of array1_new() are fresh. *)
LEMMA ExactFacts ==
  ASSUME NEW k, k # "Array1", NEW a, NEW l, Capable(k, memory, a, l)
  PROVE  memory = "exact" /\ a = l
  BY DEF Capable

(* array_expand() makes room for one more element. *)
LEMMA ExpandFacts ==
  ASSUME BufInv, NEW k \in {"Array", "SArray"}, Usable(k)
  PROVE  /\ array_expand.alloc_size \in Nat /\ size < array_expand.alloc_size
         /\ array_expand.data \in Seq(Cells)
         /\ Len(array_expand.data) = array_expand.alloc_size
         /\ Prefix(ideal, array_expand.data)
<1> DEFINE more == IF alloc_size = 0 THEN 2 ELSE alloc_size * 2
<1>1. /\ size \in Nat /\ alloc_size \in Nat /\ size <= alloc_size /\ size = Len(ideal)
      /\ data \in Seq(Cells) /\ ideal \in Seq(Cells) /\ alloc_size = Len(data)
      /\ Prefix(ideal, data)
  BY ArrayFacts, ExactFacts
<1>2. CASE alloc_size > size
  <2>1. array_expand.alloc_size = alloc_size /\ array_expand.data = data
    BY <1>2 DEF array_expand
  <2> QED BY <1>1, <1>2, <2>1
<1>3. CASE ~(alloc_size > size)
  <2>1. array_expand.alloc_size = more /\ array_expand.data = mem_realloc(data, more)
    BY <1>3 DEF array_expand
  <2>2. more \in Nat /\ size < more
    BY <1>1, <1>3
  <2> HIDE DEF more
  <2>3. mem_realloc(data, more) \in Seq(Cells) /\ Len(mem_realloc(data, more)) = more
    BY <1>1, <2>2, ReallocFacts
  <2>4. Prefix(ideal, mem_realloc(data, more))
    BY <1>1, <2>2, PrefixRealloc
  <2> QED BY <2>1, <2>2, <2>3, <2>4
<1> QED BY <1>2, <1>3

(* array_append() and sarray_append_ptr(). *)
LEMMA AppendedStep ==
  ASSUME BufInv, NEW k \in {"Array", "SArray"}, NEW v \in Values, Appended(k, v)
  PROVE  BufInv' /\ OverrunStep
<1> DEFINE d  == array_expand.data
           ys == Append(ideal, v)
<1>1. /\ Usable(k) /\ alloc_size' = array_expand.alloc_size
      /\ Store(d, size + 1, <<v>>, FALSE)
      /\ size' = size + 1 /\ ideal' = ys /\ kind' = kind
  BY DEF Appended
<1>2. /\ kind = k /\ memory = "exact" /\ size \in Nat /\ size = Len(ideal)
      /\ ideal \in Seq(Cells)
  BY <1>1, ArrayFacts, ExactFacts
<1>3. /\ alloc_size' \in Nat /\ size < alloc_size' /\ d \in Seq(Cells)
      /\ Len(d) = alloc_size' /\ Prefix(ideal, d)
  BY <1>1, ExpandFacts
<1>4. ys \in Seq(Cells) /\ Len(ys) = size + 1
  <2>1. v \in Cells
    BY DEF Cells
  <2> QED BY <2>1, <1>2, AppendFacts
<1> HIDE DEF d
<1>5. /\ Written(d, size + 1, <<v>>) \in Seq(Cells)
      /\ Len(Written(d, size + 1, <<v>>)) = Len(d)
      /\ Inside(d, size + 1, <<v>>)
      /\ Prefix(ys, Written(d, size + 1, <<v>>))
  <2>1. v \in Cells
    BY DEF Cells
  <2> QED BY <2>1, <1>2, <1>3, PrefixAppended
<1>6. data' = Written(d, size + 1, <<v>>) /\ outcome' = "fine" /\ memory' = "exact"
  BY <1>1, <1>2, <1>5 DEF Store
<1> HIDE DEF ys
<1>7. Held(k, size', alloc_size', data', ideal', memory')
  BY <1>1, <1>2, <1>3, <1>4, <1>5, <1>6 DEF Held, Shown, Capable
<1> QED BY <1>1, <1>2, <1>6, <1>7 DEF BufInv, OverrunStep

(* The recorded part of the memory is the sequence. *)
LEMMA PrefixSubSeq ==
  ASSUME NEW d \in Seq(Cells), NEW xs \in Seq(Cells), Prefix(xs, d)
  PROVE  SubSeq(d, 1, Len(xs)) = xs
<1> DEFINE n == Len(xs)
<1>1. n \in Nat /\ n <= Len(d) /\ \A i \in 1..n : d[i] = xs[i] /\ d[i] \in Cells
  BY DEF Prefix
<1> HIDE DEF n
<1>2. /\ SubSeq(d, 1, n) \in Seq(Cells) /\ Len(SubSeq(d, 1, n)) = n
      /\ \A i \in 1..n : SubSeq(d, 1, n)[i] = d[i]
  BY <1>1, SubSeqProperties
<1>3. \A i \in 1..n : SubSeq(d, 1, n)[i] = xs[i]
  BY <1>1, <1>2
<1> QED BY <1>2, <1>3, SeqEqual DEF n

(* array_prepend() moves the elements up by one. *)
LEMMA PrependStep ==
  ASSUME BufInv, NEW v \in Values, array_prepend(v)
  PROVE  BufInv' /\ OverrunStep
<1> DEFINE k  == "Array"
           d  == array_expand.data
           ys == <<v>> \o ideal
           i  == 1
<1>1. /\ Usable(k) /\ alloc_size' = array_expand.alloc_size
      /\ Store(d, i, <<v>> \o SubSeq(d, 1, size), FALSE)
      /\ size' = size + 1 /\ ideal' = ys /\ kind' = kind
  BY DEF array_prepend
<1>2. /\ kind = k /\ memory = "exact" /\ size \in Nat /\ size = Len(ideal)
      /\ ideal \in Seq(Cells)
  BY <1>1, ArrayFacts, ExactFacts
<1>3. /\ alloc_size' \in Nat /\ size < alloc_size' /\ d \in Seq(Cells)
      /\ Len(d) = alloc_size' /\ Prefix(ideal, d)
  BY <1>1, ExpandFacts
<1>4. ys \in Seq(Cells) /\ Len(ys) = size + 1
  BY <1>2 DEF Cells
<1> HIDE DEF d
<1>5. <<v>> \o SubSeq(d, 1, size) = ys
  BY <1>2, <1>3, PrefixSubSeq
<1> HIDE DEF ys
<1>6. Inside(d, i, ys)
  BY <1>2, <1>3, <1>4 DEF Inside
<1>7. Prefix(ys, Written(d, i, ys))
  <2>1. i \in 1..Len(ideal) + 1 /\ Len(ys) = i - 1 + Len(ys)
    BY <1>2, <1>4
  <2>2. /\ \A j \in 1..i - 1 : ys[j] = ideal[j]
        /\ \A j \in 1..Len(ys) : ys[i - 1 + j] = ys[j]
    BY <1>4
  <2> HIDE DEF i
  <2> QED BY <1>2, <1>3, <1>4, <1>6, <2>1, <2>2, PrefixWritten
<1>8. Written(d, i, ys) \in Seq(Cells) /\ Len(Written(d, i, ys)) = Len(d)
  BY <1>3, <1>4, WrittenFacts
<1>9. data' = Written(d, i, ys) /\ outcome' = "fine" /\ memory' = "exact"
  BY <1>1, <1>2, <1>5, <1>6 DEF Store
<1>10. Held(k, size', alloc_size', data', ideal', memory')
  BY <1>1, <1>2, <1>3, <1>4, <1>7, <1>8, <1>9 DEF Held, Shown, Capable
<1> QED BY <1>1, <1>2, <1>9, <1>10 DEF BufInv, OverrunStep

(* array_pop() and sarray_pop_ptr(). *)
LEMMA PoppedStep ==
  ASSUME BufInv, NEW k \in {"Array", "SArray"}, Popped(k)
  PROVE  BufInv' /\ OverrunStep
<1> DEFINE ys == SubSeq(ideal, 1, Len(ideal) - 1)
<1>1. /\ Usable(k) /\ size > 0 /\ size' = size - 1
      /\ outcome' = Compare(size, ideal[Len(ideal)])
      /\ ideal' = ys /\ UNCHANGED <<kind, alloc_size, data, memory>>
  BY DEF Popped
<1>2. /\ kind = k /\ memory # "broken"
      /\ size \in Nat /\ alloc_size \in Nat /\ size <= alloc_size /\ size = Len(ideal)
      /\ data \in Seq(Cells) /\ ideal \in Seq(Cells)
      /\ Capable(k, memory, alloc_size, Len(data))
      /\ Prefix(ideal, data)
  BY <1>1, ArrayFacts
<1>3. ys \in Seq(Cells) /\ Len(ys) = size - 1 /\ \A i \in 1..size - 1 : ys[i] = ideal[i]
  BY <1>1, <1>2, ButLastFacts
<1> HIDE DEF ys
<1>4. Prefix(ys, data)
  BY <1>2, <1>3 DEF Prefix
<1>5. outcome' = "fine"
  BY <1>1, <1>2, CompareFine
<1>6. Held(k, size', alloc_size', data', ideal', memory')
  BY <1>1, <1>2, <1>3, <1>4 DEF Held, Shown
<1> QED BY <1>1, <1>2, <1>5, <1>6 DEF BufInv, OverrunStep

(* array_get2() and sarray_get_ptr(). *)
LEMMA GotStep ==
  ASSUME BufInv, NEW k \in {"Array", "SArray"}, NEW i \in Int, Got(k, i)
  PROVE  BufInv' /\ OverrunStep
<1> DEFINE p == i + 1
           r == Compare(p, ideal[p])
<1>1. Usable(k) /\ i >= 0 /\ i < size /\ Answer(r)
  BY DEF Got
<1>2. p \in 1..Len(ideal) /\ Prefix(ideal, data)
  BY <1>1, ArrayFacts
<1>3. r = "fine"
  <2> HIDE DEF p
  <2> QED BY <1>2, CompareFine
<1> HIDE DEF r
<1> QED BY <1>1, <1>3, AnswerStep

(* array_set2(). *)
LEMMA Set2Step ==
  ASSUME BufInv, NEW i \in Int, NEW v \in Values, array_set2(i, v)
  PROVE  BufInv' /\ OverrunStep
<1> DEFINE p == i + 1
           k == "Array"
<1>1. /\ Usable(k) /\ i >= 0 /\ i < size
      /\ Store(data, p, <<v>>, FALSE) /\ ideal' = [ideal EXCEPT ![p] = v]
      /\ UNCHANGED <<kind, size, alloc_size>>
  BY DEF array_set2
<1>2. k # "StringBuf"
  OBVIOUS
<1> HIDE DEF k
<1>3. p \in 1..Len(ideal)
  BY <1>1, <1>2, ArrayFacts
<1> HIDE DEF p
<1> QED BY <1>1, <1>2, <1>3, SetStep

(* array_clear(). *)
LEMMA ClearStep ==
  ASSUME BufInv, array_clear
  PROVE  BufInv' /\ OverrunStep
<1>1. /\ kind = "Array" /\ memory # "broken" /\ alloc_size \in Nat
      /\ data \in Seq(Cells) /\ Capable("Array", memory, alloc_size, Len(data))
  BY ArrayFacts DEF array_clear
<1>2. /\ size' = 0 /\ ideal' = <<>> /\ outcome' = "fine"
      /\ UNCHANGED <<kind, alloc_size, data, memory>>
  BY DEF array_clear
<1>3. ideal' \in Seq(Cells) /\ Len(ideal') = 0
  BY <1>2
<1>4. Prefix(ideal', data)
  BY <1>1, <1>3 DEF Prefix
<1>5. Held("Array", size', alloc_size', data', ideal', memory')
  BY <1>1, <1>2, <1>3, <1>4 DEF Held, Shown
<1> QED BY <1>1, <1>2, <1>5 DEF BufInv, OverrunStep

-----------------------------------------------------------------------------
(* The string buffer. *)

(* What Held() says of it. *)
LEMMA TextFacts ==
  ASSUME BufInv, Usable("StringBuf")
  PROVE  /\ kind = "StringBuf" /\ memory = "exact"
         /\ size \in Nat /\ alloc_size \in Nat /\ size <= alloc_size
         /\ ideal \in Seq(Values) /\ Len(ideal) \in Nat /\ size = Len(ideal) + 1
         /\ data \in Seq(Cells) /\ alloc_size = Len(data)
         /\ Shown(kind, ideal) \in Seq(Cells) /\ Len(Shown(kind, ideal)) = size
         /\ Shown(kind, ideal)[size] = NUL
         /\ \A i \in 1..Len(ideal) : Shown(kind, ideal)[i] = ideal[i]
         /\ Prefix(Shown(kind, ideal), data)
<1>1. Held("StringBuf", size, alloc_size, data, ideal, memory) /\ kind = "StringBuf"
  BY DEF BufInv, Usable
<1>2. ideal \in Seq(Values) /\ Capable("StringBuf", memory, alloc_size, Len(data))
  BY <1>1 DEF Held
<1>3. memory = "exact" /\ alloc_size = Len(data)
  BY <1>2 DEF Capable
<1> QED BY <1>1, <1>2, <1>3, ShownFacts DEF Held

(* Making room keeps the text, and gives the room that is needed. *)
LEMMA GrownFacts ==
  ASSUME BufInv, Usable("StringBuf"), NEW need \in Nat, NEW a \in Nat,
         need > alloc_size => a >= need
  PROVE  /\ Grown(need, a).alloc_size \in Nat /\ Grown(need, a).alloc_size >= need
         /\ Grown(need, a).data \in Seq(Cells)
         /\ Len(Grown(need, a).data) = Grown(need, a).alloc_size
         /\ Prefix(Shown(kind, ideal), Grown(need, a).data)
<1> DEFINE xs == Shown(kind, ideal)
<1>1. /\ size \in Nat /\ alloc_size \in Nat /\ size <= alloc_size
      /\ data \in Seq(Cells) /\ alloc_size = Len(data)
      /\ xs \in Seq(Cells) /\ Len(xs) = size /\ Prefix(xs, data)
  BY TextFacts
<1> HIDE DEF xs
<1>2. CASE need > alloc_size
  <2>1. Grown(need, a).alloc_size = a /\ Grown(need, a).data = mem_realloc(data, a)
    BY <1>2 DEF Grown
  <2>2. a >= need /\ Len(xs) <= a
    BY <1>1, <1>2
  <2>3. mem_realloc(data, a) \in Seq(Cells) /\ Len(mem_realloc(data, a)) = a
    BY <1>1, ReallocFacts
  <2>4. Prefix(xs, mem_realloc(data, a))
    BY <1>1, <2>2, PrefixRealloc
  <2> QED BY <2>1, <2>2, <2>3, <2>4 DEF xs
<1>3. CASE ~(need > alloc_size)
  <2>1. Grown(need, a).alloc_size = alloc_size /\ Grown(need, a).data = data
    BY <1>3 DEF Grown
  <2> QED BY <1>1, <1>3, <2>1 DEF xs
<1> QED BY <1>2, <1>3

(* The text s and a NUL are written at place q of memory that holds the     *)
(* buffer's text: the new text ys is the old one before q, and s.           *)
LEMMA TextStep ==
  ASSUME BufInv, Usable("StringBuf"), NEW d \in Seq(Cells),
         Prefix(Shown(kind, ideal), d),
         NEW q \in 1..size, NEW s \in Seq(Values), q + Len(s) <= Len(d),
         Store(d, q, s \o <<NUL>>, FALSE), alloc_size' = Len(d),
         NEW ys \in Seq(Values), Len(ys) = q - 1 + Len(s),
         \A j \in 1..q - 1 : ys[j] = ideal[j],
         \A j \in 1..Len(s) : ys[q - 1 + j] = s[j],
         ideal' = ys, size' = Len(ys) + 1, kind' = kind
  PROVE  BufInv' /\ OverrunStep
<1> DEFINE xs == Shown(kind, ideal)
           zs == Shown(kind, ys)
           vs == s \o <<NUL>>
<1>1. /\ kind = "StringBuf" /\ memory = "exact" /\ size \in Nat
      /\ ideal \in Seq(Values) /\ Len(ideal) \in Nat /\ size = Len(ideal) + 1
      /\ xs \in Seq(Cells) /\ Len(xs) = size
      /\ \A i \in 1..Len(ideal) : xs[i] = ideal[i]
  BY TextFacts
<1>2. /\ zs \in Seq(Cells) /\ Len(zs) = Len(ys) + 1 /\ zs[Len(ys) + 1] = NUL
      /\ \A i \in 1..Len(ys) : zs[i] = ys[i]
  <2>1. ys \in Seq(Cells)
    BY DEF Cells
  <2> QED BY <1>1, <2>1, ShownFacts
<1>3. /\ vs \in Seq(Cells) /\ Len(vs) = Len(s) + 1 /\ vs[Len(s) + 1] = NUL
      /\ \A i \in 1..Len(s) : vs[i] = s[i]
  <2>1. s \in Seq(Cells) /\ NUL \in Cells
    BY DEF Cells
  <2>2. vs = Append(s, NUL)
    BY <2>1, AppendIsConcat
  <2> QED BY <2>1, <2>2, AppendFacts
<1>4. Prefix(xs, d)
  OBVIOUS
<1>5. Len(s) \in Nat /\ Len(ys) \in Nat /\ Len(d) \in Nat
  OBVIOUS
<1> HIDE DEF xs, zs, vs
<1>6. Inside(d, q, vs)
  BY <1>1, <1>3, <1>5 DEF Inside
<1>7. Len(zs) = q - 1 + Len(vs)
  BY <1>1, <1>2, <1>3, <1>5
<1>8. \A j \in 1..q - 1 : zs[j] = xs[j]
  <2> SUFFICES ASSUME NEW j \in 1..q - 1 PROVE zs[j] = xs[j]
    OBVIOUS
  <2>1. j \in 1..Len(ys) /\ j \in 1..Len(ideal)
    BY <1>1, <1>5
  <2> QED BY <2>1, <1>1, <1>2
<1>9. \A j \in 1..Len(vs) : zs[q - 1 + j] = vs[j]
  <2> SUFFICES ASSUME NEW j \in 1..Len(vs) PROVE zs[q - 1 + j] = vs[j]
    OBVIOUS
  <2>1. CASE j <= Len(s)
    <3>1. j \in 1..Len(s) /\ q - 1 + j \in 1..Len(ys)
      BY <2>1, <1>1, <1>3, <1>5
    <3> QED BY <3>1, <1>2, <1>3
  <2>2. CASE j > Len(s)
    <3>1. j = Len(s) + 1
      BY <2>2, <1>3, <1>5
    <3>2. q - 1 + j = Len(ys) + 1
      BY <3>1, <1>1, <1>5
    <3> QED BY <3>1, <3>2, <1>2, <1>3
  <2> QED BY <2>1, <2>2, <1>3, <1>5
<1>10. q \in 1..Len(xs) + 1 /\ q \in Int
  BY <1>1
<1>11. Prefix(zs, Written(d, q, vs))
  BY <1>1, <1>2, <1>3, <1>4, <1>6, <1>7, <1>8, <1>9, <1>10, PrefixWritten
<1>12. Written(d, q, vs) \in Seq(Cells) /\ Len(Written(d, q, vs)) = Len(d)
  BY <1>3, <1>10, WrittenFacts
<1>13. data' = Written(d, q, vs) /\ outcome' = "fine" /\ memory' = "exact"
  BY <1>1, <1>6 DEF Store, vs
<1>14. Len(zs) <= Len(d)
  BY <1>1, <1>3, <1>5, <1>7
<1>15. Held("StringBuf", size', alloc_size', data', ideal', memory')
  <2>1. Shown("StringBuf", ideal') = zs
    BY <1>1 DEF zs
  <2>2. ideal' \in Seq(Values) /\ ideal' \in Seq(Cells)
    BY <1>1, <1>2 DEF Cells
  <2> QED BY <1>2, <1>5, <1>11, <1>12, <1>13, <1>14, <2>1, <2>2 DEF Held, Capable
<1> QED BY <1>1, <1>13, <1>15 DEF BufInv, OverrunStep

(* strcat() finds the NUL at place size: the text goes where it was. *)
LEMMA StrcatStep ==
  ASSUME BufInv, NEW s \in Seq(Values), NEW need \in Nat, NEW a \in Nat,
         need > alloc_size => a >= need, size + Len(s) <= need,
         strcat(Grown(need, a), s)
  PROVE  BufInv' /\ OverrunStep
<1> DEFINE g  == Grown(need, a)
           d  == g.data
           xs == Shown(kind, ideal)
           ys == ideal \o s
<1>1. /\ Usable("StringBuf") /\ alloc_size' = g.alloc_size
      /\ Store(d, strlen(d) + 1, s \o <<NUL>>, FALSE)
      /\ size' = size + Len(s) /\ ideal' = ys /\ kind' = kind
  BY DEF strcat
<1>2. /\ kind = "StringBuf" /\ size \in Nat
      /\ ideal \in Seq(Values) /\ Len(ideal) \in Nat /\ size = Len(ideal) + 1
      /\ xs \in Seq(Cells) /\ Len(xs) = size /\ xs[size] = NUL
      /\ \A i \in 1..Len(ideal) : xs[i] = ideal[i]
  BY <1>1, TextFacts
<1>3. /\ g.alloc_size >= need /\ d \in Seq(Cells) /\ Len(d) = g.alloc_size
      /\ Prefix(xs, d) /\ Len(d) \in Nat
  BY <1>1, GrownFacts
<1> HIDE DEF g, d, xs
<1>4. strlen(d) = size - 1
  <2>1. size \in 1..Len(d) /\ d[size] = NUL
    BY <1>2, <1>3 DEF Prefix
  <2>2. \A i \in 1..size - 1 : d[i] # NUL
    <3> SUFFICES ASSUME NEW i \in 1..size - 1 PROVE d[i] # NUL
      OBVIOUS
    <3>1. i \in 1..Len(ideal) /\ i \in 1..Len(xs)
      BY <1>2
    <3>2. d[i] = ideal[i] /\ ideal[i] \in Values
      BY <3>1, <1>2, <1>3 DEF Prefix
    <3> QED BY <3>2, BuffersAssumption
  <2> QED BY <2>1, <2>2, <1>3, StrlenFacts
<1>5. /\ ys \in Seq(Values) /\ Len(ys) = Len(ideal) + Len(s) /\ Len(s) \in Nat
      /\ \A j \in 1..Len(ideal) : ys[j] = ideal[j]
      /\ \A j \in Len(ideal) + 1..Len(ideal) + Len(s) : ys[j] = s[j - Len(ideal)]
  BY <1>2, ConcatFacts
<1> HIDE DEF ys
<1> DEFINE q == size
<1>6. q \in 1..size /\ q + Len(s) <= Len(d) /\ Len(ys) = q - 1 + Len(s) /\ strlen(d) + 1 = q
  BY <1>2, <1>3, <1>4, <1>5
<1>7. \A j \in 1..q - 1 : ys[j] = ideal[j]
  BY <1>2, <1>5
<1>8. \A j \in 1..Len(s) : ys[q - 1 + j] = s[j]
  <2> SUFFICES ASSUME NEW j \in 1..Len(s) PROVE ys[q - 1 + j] = s[j]
    OBVIOUS
  <2>1. /\ q - 1 + j \in Len(ideal) + 1..Len(ideal) + Len(s)
        /\ (q - 1 + j) - Len(ideal) = j
    BY <1>2, <1>5
  <2> QED BY <2>1, <1>5
<1>9. Store(d, q, s \o <<NUL>>, FALSE)
  BY <1>1, <1>6
<1>10. size' = Len(ys) + 1
  BY <1>1, <1>2, <1>5
<1>11. Prefix(Shown(kind, ideal), d) /\ alloc_size' = Len(d)
  BY <1>1, <1>3 DEF xs
<1> HIDE DEF q
<1> QED BY <1>1, <1>3, <1>5, <1>6, <1>7, <1>8, <1>9, <1>10, <1>11, TextStep

(* sbuf_printf() makes room for twice what it needs. *)
LEMMA PrintfStep ==
  ASSUME BufInv, NEW s \in Seq(Values), sbuf_printf(s)
  PROVE  BufInv' /\ OverrunStep
<1> DEFINE need == size + Len(s)
           a    == (size + Len(s)) * 2
<1>1. strcat(Grown(need, a), s)
  BY DEF sbuf_printf
<1>2. size \in Nat /\ Len(s) \in Nat
  BY <1>1, TextFacts DEF strcat
<1>3. need \in Nat /\ a \in Nat /\ a >= need /\ size + Len(s) <= need
  BY <1>2
<1> HIDE DEF need, a
<1> QED BY <1>1, <1>3, StrcatStep

(* sbuf_cat(), and sbuf_ncat() of what has no NUL. *)
LEMMA CatStep ==
  ASSUME BufInv, NEW s \in Seq(Values),
         strcat(Grown(size + Len(s), alloc_size + Len(s)), s)
  PROVE  BufInv' /\ OverrunStep
<1> DEFINE need == size + Len(s)
           a    == alloc_size + Len(s)
<1>1. strcat(Grown(need, a), s)
  OBVIOUS
<1>2. size \in Nat /\ alloc_size \in Nat /\ size <= alloc_size /\ Len(s) \in Nat
  BY <1>1, TextFacts DEF strcat
<1>3. need \in Nat /\ a \in Nat /\ a >= need /\ size + Len(s) <= need
  BY <1>2
<1> HIDE DEF need, a
<1> QED BY <1>1, <1>3, StrcatStep

(* sbuf_catc() writes over the NUL, and a new one. *)
LEMMA CatcStep ==
  ASSUME BufInv, NEW c \in Values, sbuf_catc(c)
  PROVE  BufInv' /\ OverrunStep
<1> DEFINE need == size + 1
           a    == alloc_size * 2
           g    == Grown(need, a)
           d    == g.data
           s    == <<c>>
           ys   == Append(ideal, c)
           q    == size
<1>1. /\ Usable("StringBuf") /\ alloc_size' = g.alloc_size
      /\ Store(d, q, <<c, NUL>>, FALSE)
      /\ size' = size + 1 /\ ideal' = ys /\ kind' = kind
  BY DEF sbuf_catc
<1>2. /\ size \in Nat /\ alloc_size \in Nat /\ size <= alloc_size
      /\ ideal \in Seq(Values) /\ Len(ideal) \in Nat /\ size = Len(ideal) + 1
  BY <1>1, TextFacts
<1>3. need \in Nat /\ a \in Nat /\ a >= need
  BY <1>2
<1> HIDE DEF need, a
<1>4. /\ g.alloc_size >= need /\ d \in Seq(Cells) /\ Len(d) = g.alloc_size
      /\ Prefix(Shown(kind, ideal), d)
  BY <1>1, <1>3, GrownFacts
<1> HIDE DEF g, d
<1>5. /\ ys \in Seq(Values) /\ Len(ys) = Len(ideal) + 1 /\ ys[Len(ideal) + 1] = c
      /\ \A j \in 1..Len(ideal) : ys[j] = ideal[j]
  BY <1>2, AppendFacts
<1>6. s \in Seq(Values) /\ Len(s) = 1 /\ s[1] = c /\ s \o <<NUL>> = <<c, NUL>>
  <2>1. s \in Seq(Values) /\ Len(s) = 1 /\ s[1] = c
    OBVIOUS
  <2>2. s \in Seq(Cells) /\ NUL \in Cells
    BY DEF Cells
  <2>3. s \o <<NUL>> = Append(s, NUL)
    BY <2>2, AppendIsConcat
  <2>4. Append(s, NUL) = <<c, NUL>>
    <3> DEFINE t == <<c, NUL>>
    <3>1. t \in Seq(Cells) /\ Len(t) = 2 /\ t[1] = c /\ t[2] = NUL
      BY DEF Cells
    <3>2. /\ Append(s, NUL) \in Seq(Cells) /\ Len(Append(s, NUL)) = 1 + 1
          /\ Append(s, NUL)[1 + 1] = NUL /\ Append(s, NUL)[1] = s[1]
      BY <2>1, <2>2, AppendFacts
    <3> HIDE DEF t, s
    <3>3. \A j \in 1..2 : Append(s, NUL)[j] = t[j]
      BY <2>1, <3>1, <3>2
    <3>4. Len(Append(s, NUL)) = Len(t) /\ \A j \in 1..Len(Append(s, NUL)) : Append(s, NUL)[j] = t[j]
      BY <3>1, <3>2, <3>3
    <3>5. Append(s, NUL) = t
      BY <3>1, <3>2, <3>4, SeqEqual
    <3> QED BY <3>5 DEF t
  <2> QED BY <2>1, <2>3, <2>4
<1>7. Store(d, q, s \o <<NUL>>, FALSE)
  BY <1>1, <1>6
<1> HIDE DEF ys, s
<1>8. q \in 1..size /\ q + Len(s) <= Len(d) /\ Len(ys) = q - 1 + Len(s)
  BY <1>2, <1>4, <1>5, <1>6 DEF need
<1>9. /\ \A j \in 1..q - 1 : ys[j] = ideal[j]
      /\ \A j \in 1..Len(s) : ys[q - 1 + j] = s[j]
  BY <1>2, <1>5, <1>6
<1>10. size' = Len(ys) + 1 /\ alloc_size' = Len(d)
  BY <1>1, <1>2, <1>4, <1>5
<1> HIDE DEF q
<1> QED BY <1>1, <1>4, <1>5, <1>6, <1>7, <1>8, <1>9, <1>10, TextStep

(* A text written from the start: sbuf_ncpy() and sbuf_clear(). *)
LEMMA AnewStep ==
  ASSUME BufInv, Usable("StringBuf"), NEW d \in Seq(Cells),
         Prefix(Shown(kind, ideal), d), NEW s \in Seq(Values), Len(s) + 1 <= Len(d),
         Store(d, 1, s \o <<NUL>>, FALSE), alloc_size' = Len(d),
         ideal' = s, size' = Len(s) + 1, kind' = kind
  PROVE  BufInv' /\ OverrunStep
<1> DEFINE q == 1
<1>1. size \in Nat /\ size >= 1
  BY TextFacts
<1>2. Len(s) \in Nat /\ Len(d) \in Nat
  OBVIOUS
<1>3. q \in 1..size /\ q + Len(s) <= Len(d) /\ Len(s) = q - 1 + Len(s)
  BY <1>1, <1>2
<1>4. /\ \A j \in 1..q - 1 : s[j] = ideal[j]
      /\ \A j \in 1..Len(s) : s[q - 1 + j] = s[j]
  BY <1>2
<1>5. Store(d, q, s \o <<NUL>>, FALSE)
  OBVIOUS
<1> HIDE DEF q
<1> QED BY <1>3, <1>4, <1>5, TextStep

(* sbuf_ncpy(). *)
LEMMA NcpyStep ==
  ASSUME BufInv, NEW s \in Seq(Values), sbuf_ncpy(s)
  PROVE  BufInv' /\ OverrunStep
<1> DEFINE need == Len(s) + 1
           g    == Grown(need, need)
           d    == g.data
<1>1. /\ Usable("StringBuf") /\ alloc_size' = g.alloc_size
      /\ Store(d, 1, s \o <<NUL>>, FALSE)
      /\ size' = Len(s) + 1 /\ ideal' = s /\ kind' = kind
  BY DEF sbuf_ncpy
<1>2. need \in Nat /\ need >= need
  OBVIOUS
<1> HIDE DEF need
<1>3. /\ g.alloc_size >= need /\ d \in Seq(Cells) /\ Len(d) = g.alloc_size
      /\ Prefix(Shown(kind, ideal), d)
  BY <1>1, <1>2, GrownFacts
<1> HIDE DEF g, d
<1>4. Len(s) + 1 <= Len(d)
  BY <1>3 DEF need
<1> QED BY <1>1, <1>3, <1>4, AnewStep

(* sbuf_clear(). *)
LEMMA SbufClearStep ==
  ASSUME BufInv, sbuf_clear
  PROVE  BufInv' /\ OverrunStep
<1> DEFINE s == <<>>
<1>1. /\ Usable("StringBuf") /\ Store(data, 1, <<NUL>>, FALSE)
      /\ size' = 1 /\ ideal' = s /\ kind' = kind /\ alloc_size' = alloc_size
  BY DEF sbuf_clear
<1>2. /\ data \in Seq(Cells) /\ Prefix(Shown(kind, ideal), data) /\ alloc_size = Len(data)
      /\ size <= alloc_size /\ size \in Nat /\ size >= 1
  BY <1>1, TextFacts
<1>3. s \in Seq(Values) /\ Len(s) = 0 /\ s \o <<NUL>> = <<NUL>>
  OBVIOUS
<1>4. Store(data, 1, s \o <<NUL>>, FALSE)
  BY <1>1, <1>3
<1> HIDE DEF s
<1>5. Len(s) + 1 <= Len(data) /\ size' = Len(s) + 1
  BY <1>1, <1>2, <1>3
<1> QED BY <1>1, <1>2, <1>3, <1>4, <1>5, AnewStep

(* What a server has sent: a text of Values, or one that begins with a NUL. *)
LEMMA NcatStep ==
  ASSUME BufInv, NEW s, s \in Seq(Values) \/ (s \in Seq(Cells) /\ Len(s) # 0 /\ s[1] = NUL),
         sbuf_ncat(s)
  PROVE  BufInv' /\ OverrunStep
<1>1. CASE strlen(s) = Len(s)
  <2>1. strcat(Grown(size + Len(s), alloc_size + Len(s)), s)
    BY <1>1 DEF sbuf_ncat
  <2>2. s \in Seq(Values)
    <3> SUFFICES ASSUME s \in Seq(Cells), Len(s) # 0, s[1] = NUL PROVE FALSE
      OBVIOUS
    <3> DEFINE n == 1
    <3>1. n \in 1..Len(s) /\ s[n] = NUL /\ \A i \in 1..n - 1 : s[i] # NUL
      OBVIOUS
    <3>2. n - 1 = 0
      OBVIOUS
    <3> HIDE DEF n
    <3>3. strlen(s) = n - 1
      BY <3>1, StrlenFacts
    <3> QED BY <1>1, <3>2, <3>3
  <2> QED BY <2>1, <2>2, CatStep
<1>2. CASE strlen(s) # Len(s)
  <2>1. outcome' = "binary" /\ memory' = "broken"
    BY <1>2 DEF sbuf_ncat
  <2> QED BY <2>1 DEF BufInv, OverrunStep
<1> QED BY <1>1, <1>2

-----------------------------------------------------------------------------
(* A buffer with exact memory, as it is made. *)
LEMMA MadeHeld ==
  ASSUME NEW k, k \in {"Array1", "Tuple", "Array", "SArray", "StringBuf"},
         NEW vs \in Seq(Values), NEW d \in Seq(Cells), Prefix(Shown(k, vs), d),
         Made(k, Len(Shown(k, vs)), Len(d), d, vs), outcome = "fine", memory = "exact"
  PROVE  BufInv
<1>0. vs \in Seq(Cells)
  BY DEF Cells
<1>1. Shown(k, vs) \in Seq(Cells)
  BY <1>0, ShownFacts
<1>2. Len(Shown(k, vs)) \in Nat /\ Len(d) \in Nat /\ Len(Shown(k, vs)) <= Len(d)
  BY <1>1 DEF Prefix
<1> QED BY <1>0, <1>2 DEF BufInv, Held, Capable, Made

(* Every way to make a buffer establishes the invariant. *)
LEMMA InitStep == BufInit => BufInv
<1> SUFFICES ASSUME BufInit PROVE BufInv
  OBVIOUS
<1>1. outcome = "fine" /\ memory = "exact"
  BY DEF BufInit
<1>2. ASSUME NEW vs \in Texts, NEW k \in {"Array1", "Tuple"}, Made(k, Len(vs), Len(vs), vs, vs)
      PROVE  BufInv
  <2>1. vs \in Seq(Values) /\ vs \in Seq(Cells)
    BY BuffersAssumption DEF Cells
  <2>2. Shown(k, vs) = vs /\ Prefix(vs, vs)
    BY <2>1 DEF Shown, Prefix
  <2> QED BY <1>1, <1>2, <2>1, <2>2, MadeHeld
<1>3. ASSUME NEW vs \in Texts, array1_to_val(vs) PROVE BufInv
  <2> DEFINE n == 2 * Len(vs)
             d == mem_malloc(n)
             w == Written(d, 1, vs)
             none == <<>>
  <2>1. vs \in Seq(Values) /\ vs \in Seq(Cells) /\ Len(vs) \in Nat
    BY BuffersAssumption DEF Cells
  <2>2. n \in Nat /\ Len(vs) <= n
    BY <2>1
  <2>3. Made("Array1", Len(vs), n, w, vs)
    BY <1>3 DEF array1_to_val
  <2> HIDE DEF n
  <2>4. d \in Seq(Cells) /\ Len(d) = n
    BY <2>2, MallocFacts
  <2> HIDE DEF d
  <2>5. w \in Seq(Cells) /\ Len(w) = n
    BY <2>1, <2>4, WrittenFacts
  <2>6. none \in Seq(Cells) /\ Len(none) = 0 /\ Prefix(none, d)
    BY <2>4, <2>2 DEF Prefix
  <2>7. Prefix(vs, w)
    <3> DEFINE i == 1
    <3>1. i \in 1..Len(none) + 1 /\ Len(vs) = i - 1 + Len(vs) /\ Inside(d, i, vs)
      BY <2>1, <2>2, <2>4, <2>6 DEF Inside
    <3>2. /\ \A j \in 1..i - 1 : vs[j] = none[j]
          /\ \A j \in 1..Len(vs) : vs[i - 1 + j] = vs[j]
      BY <2>1
    <3>3. w = Written(d, i, vs)
      OBVIOUS
    <3> HIDE DEF i, none, w
    <3> QED BY <2>1, <2>4, <2>6, <3>1, <3>2, <3>3, PrefixWritten
  <2>8. Shown("Array1", vs) = vs
    BY DEF Shown
  <2> HIDE DEF w
  <2> QED BY <1>1, <2>1, <2>3, <2>5, <2>7, <2>8, MadeHeld
<1>4. ASSUME NEW vs \in Texts, sbuf_init(vs) PROVE BufInv
  <2> DEFINE d == vs \o <<NUL>>
  <2>1. vs \in Seq(Values) /\ vs \in Seq(Cells) /\ NUL \in Cells
    BY BuffersAssumption DEF Cells
  <2>2. d = Append(vs, NUL)
    BY <2>1, AppendIsConcat
  <2>3. Shown("StringBuf", vs) = d
    BY <2>2 DEF Shown
  <2>4. d \in Seq(Cells) /\ Len(d) = Len(vs) + 1
    BY <2>1, <2>2, AppendFacts
  <2>5. Made("StringBuf", Len(d), Len(d), d, vs)
    BY <1>4, <2>4 DEF sbuf_init
  <2> HIDE DEF d
  <2>6. Prefix(d, d)
    BY <2>4 DEF Prefix
  <2> QED BY <1>1, <2>1, <2>3, <2>4, <2>5, <2>6, MadeHeld
<1>5. ASSUME NEW k \in {"Array", "SArray"}, Made(k, 0, 2, mem_malloc(2), <<>>) PROVE BufInv
  <2> DEFINE n == 2
             d == mem_malloc(n)
             none == <<>>
  <2>1. n \in Nat /\ Made(k, 0, n, d, none)
    BY <1>5
  <2>2. Shown(k, none) = none /\ none \in Seq(Values) /\ Len(none) = 0
    BY DEF Shown
  <2> HIDE DEF n, none
  <2>3. d \in Seq(Cells) /\ Len(d) = n
    BY <2>1, MallocFacts
  <2>4. Prefix(none, d)
    BY <2>1, <2>2, <2>3 DEF Prefix
  <2> HIDE DEF d
  <2> QED BY <1>1, <2>1, <2>2, <2>3, <2>4, MadeHeld
<1> QED BY <1>2, <1>3, <1>4, <1>5
     DEF BufInit, array1_to_val2, tuple_to_val, array_init2, sarray_init

(* Every call keeps the invariant, and leaves the memory only as allowed. *)
LEMMA NextStep ==
  ASSUME BufInv, BufNext
  PROVE  BufInv' /\ OverrunStep
<1>1. \A i \in Indexes : i \in Int
  BY BuffersAssumption DEF Indexes
<1>2. ASSUME NEW v \in Values,
             \/ array1_push(v) \/ array_append(v) \/ sarray_append_ptr(v)
             \/ array_prepend(v) \/ sbuf_catc(v)
      PROVE  BufInv' /\ OverrunStep
  <2>1. array_append(v) => BufInv' /\ OverrunStep
    BY AppendedStep DEF array_append
  <2>2. sarray_append_ptr(v) => BufInv' /\ OverrunStep
    BY AppendedStep DEF sarray_append_ptr
  <2> QED BY <1>2, <2>1, <2>2, PushStep, PrependStep, CatcStep
<1>3. ASSUME NEW i \in Indexes,
             \/ array1_index(i) \/ tuple_index(i) \/ remove(i)
             \/ array_get2(i) \/ sarray_get_ptr(i)
      PROVE  BufInv' /\ OverrunStep
  <2>1. array1_index(i) => BufInv' /\ OverrunStep
    BY <1>1, IndexGetStep DEF array1_index
  <2>2. tuple_index(i) => BufInv' /\ OverrunStep
    BY <1>1, IndexGetStep DEF tuple_index
  <2>3. array_get2(i) => BufInv' /\ OverrunStep
    BY <1>1, GotStep DEF array_get2
  <2>4. sarray_get_ptr(i) => BufInv' /\ OverrunStep
    BY <1>1, GotStep DEF sarray_get_ptr
  <2> QED BY <1>1, <1>3, <2>1, <2>2, <2>3, <2>4, RemoveStep
<1>4. ASSUME NEW i \in Indexes, NEW v \in Values,
             \/ array1_index_set(i, v) \/ tuple_index_set(i, v)
             \/ insert(i, v) \/ array_set2(i, v)
      PROVE  BufInv' /\ OverrunStep
  <2>1. array1_index_set(i, v) => BufInv' /\ OverrunStep
    BY <1>1, IndexSetStep DEF array1_index_set
  <2>2. tuple_index_set(i, v) => BufInv' /\ OverrunStep
    BY <1>1, IndexSetStep DEF tuple_index_set
  <2> QED BY <1>1, <1>4, <2>1, <2>2, InsertStep, Set2Step
<1>5. ASSUME NEW t \in Ranges, NEW i \in Indexes, NEW j \in Indexes, slice(t, i, j)
      PROVE  BufInv' /\ OverrunStep
  BY <1>1, <1>5, SliceStep
<1>6. ASSUME NEW s \in Texts, sbuf_printf(s) \/ sbuf_cat(s) \/ sbuf_ncpy(s)
      PROVE  BufInv' /\ OverrunStep
  <2>1. s \in Seq(Values)
    BY BuffersAssumption
  <2>2. sbuf_cat(s) => BufInv' /\ OverrunStep
    BY <2>1, CatStep DEF sbuf_cat
  <2> QED BY <1>6, <2>1, <2>2, PrintfStep, NcpyStep
<1>7. ASSUME NEW s \in Texts \union {<<NUL, v>> : v \in Values}, sbuf_ncat(s)
      PROVE  BufInv' /\ OverrunStep
  <2>1. s \in Seq(Values) \/ (s \in Seq(Cells) /\ Len(s) # 0 /\ s[1] = NUL)
    <3>1. CASE s \in Texts
      BY <3>1, BuffersAssumption
    <3>2. ASSUME NEW v \in Values, s = <<NUL, v>>
          PROVE  s \in Seq(Cells) /\ Len(s) # 0 /\ s[1] = NUL
      BY <3>2 DEF Cells
    <3> QED BY <1>7, <3>1, <3>2
  <2> QED BY <1>7, <2>1, NcatStep
<1>8. array_pop => BufInv' /\ OverrunStep
  BY PoppedStep DEF array_pop
<1>9. sarray_pop_ptr => BufInv' /\ OverrunStep
  BY PoppedStep DEF sarray_pop_ptr
<1> QED BY <1>2, <1>3, <1>4, <1>5, <1>6, <1>7, <1>8, <1>9, PopStep, ClearStep, SbufClearStep
     DEF BufNext

(* The invariant holds of every behaviour. *)
THEOREM BufInvariance == BufSpec => []BufInv
<1>1. BufInv /\ UNCHANGED bufVars => BufInv'
  BY DEF BufInv, bufVars
<1>2. BufInv /\ [BufNext]_bufVars => BufInv'
  BY <1>1, NextStep
<1> QED BY <1>2, InitStep, PTL DEF BufSpec

(* The capacity that a buffer records covers its size, and is what it has,  *)
(* or twice that in an array of array1_new() (Arrays.c:59).                 *)
THEOREM CapacityCorrect == BufSpec => []Capacity
<1>1. BufInv => Capacity
  <2> SUFFICES ASSUME BufInv, memory # "broken" PROVE Capacity
    BY DEF Capacity
  <2> QED BY DEF BufInv, Held, Capable, Capacity
<1> QED BY <1>1, BufInvariance, PTL

(* After any calls the memory holds exactly the sequence they amount to,    *)
(* for every capacity and every length, and no index reads another element  *)
(* than the one it means.                                                   *)
THEOREM ContentsCorrect == BufSpec => []Contents
<1>1. BufInv => Contents
  <2>0. BufInv => outcome # "wrong"
    BY DEF BufInv
  <2> SUFFICES ASSUME BufInv, memory # "broken" PROVE Contents
    BY <2>0 DEF Contents
  <2> DEFINE xs == Shown(kind, ideal)
  <2>1. Held(kind, size, alloc_size, data, ideal, memory)
    BY DEF BufInv
  <2>2. xs \in Seq(Cells)
    BY <2>1, ShownFacts DEF Held
  <2>3. size = Len(xs) /\ data \in Seq(Cells) /\ Prefix(xs, data)
    BY <2>1 DEF Held
  <2> HIDE DEF xs
  <2>4. SubSeq(data, 1, size) = xs
    BY <2>2, <2>3, PrefixSubSeq
  <2>5. xs = IF kind = "StringBuf" THEN Append(ideal, NUL) ELSE ideal
    BY DEF xs, Shown
  <2> QED BY <2>0, <2>3, <2>4, <2>5 DEF Contents
<1> QED BY <1>1, BufInvariance, PTL

(* Memory is left only by a push onto a full array of array1_new(). *)
THEOREM OverrunCorrect == BufSpec => OverrunOnlyFresh
<1>1. BufInv /\ [BufNext]_bufVars => [OverrunStep]_bufVars
  BY NextStep
<1> QED BY <1>1, BufInvariance, PTL DEF BufSpec, OverrunOnlyFresh, OverrunStep

-----------------------------------------------------------------------------
(***************************************************************************)
(* The fields of a class.                                                  *)
(***************************************************************************)

(* Natural numbers are well-founded: what induction over the fields of a    *)
(* class rests on is that a set of them has a least element.                *)
Less == {p \in Nat \X Nat : p[1] < p[2]}

LEMMA LeastElement ==
  ASSUME NEW T, T \subseteq Nat, T # {}
  PROVE  \E n \in T : \A j \in T : n <= j
<1>1. IsWellFoundedOn(Less, Nat)
  BY NatLessThanWellFounded DEF OpToRel, Less
<1>2. PICK n \in T : \A j \in T : <<j, n>> \notin Less
  BY <1>1, WFMin
<1>3. \A j \in T : ~(j < n)
  BY <1>2 DEF Less
<1> QED
  BY <1>3

Tables == UNION {[S -> Nat] : S \in SUBSET FieldNames}

KlassNames == {"Function", "Object", "Own", "Error", "Destroyed"}

Klasses ==
  [name: KlassNames, cdata_size: Nat, obj_size: Nat, num_fields: Nat,
   readable: Tables, writable: Tables, destructor: BOOLEAN]

LEMMA FieldFacts ==
  /\ Len(Fields) \in Nat \ {0} /\ DOMAIN Fields = 1..Len(Fields)
  /\ \A i \in 1..Len(Fields) : Fields[i] \in FieldNames
  /\ FieldLimit \in Nat /\ MaxDepth \in Nat
  /\ Function \in Nat /\ ~(Function < FieldLimit) /\ \A n \in 0..Len(Fields)-1 : n # Function
<1>1. /\ Len(Fields) \in Nat \ {0} /\ DOMAIN Fields = 1..Len(Fields)
      /\ \A i \in 1..Len(Fields) : Fields[i] \in FieldNames
      /\ FieldLimit \in Nat /\ MaxDepth \in Nat
  BY RegistryAssumption DEF FieldNames
<1>2. /\ Function \in Nat /\ ~(Function < FieldLimit) /\ \A n \in 0..Len(Fields)-1 : n # Function
  BY <1>1 DEF Function
<1> QED
  BY <1>1, <1>2

LEMMA WithFacts ==
  ASSUME NEW t \in Tables, NEW f \in FieldNames, NEW n \in Nat
  PROVE  /\ With(t, f, n) \in Tables /\ DOMAIN With(t, f, n) = DOMAIN t \union {f}
         /\ With(t, f, n)[f] = n
         /\ \A g \in DOMAIN t : g # f => With(t, f, n)[g] = t[g]
<1>1. PICK S \in SUBSET FieldNames : t \in [S -> Nat]
  BY DEF Tables
<1>2. PICK u : u = With(t, f, n)
  OBVIOUS
<1>3. /\ u = [g \in S \union {f} |-> IF g = f THEN n ELSE t[g]]
  BY <1>1, <1>2 DEF With
<1>4. u \in [S \union {f} -> Nat] /\ S \union {f} \in SUBSET FieldNames
  BY <1>1, <1>3
<1>5. u \in Tables
  BY <1>4 DEF Tables
<1> QED
  BY <1>1, <1>2, <1>3, <1>5

(* Of the fields 1..n each has a place of its own.                          *)
Slots(t, n) ==
  /\ t \in Tables
  /\ \A f \in DOMAIN t : t[f] \in 0..n-1
  /\ \A f, g \in DOMAIN t : t[f] = t[g] => f = g

(* Two fields of a class have different places, those that are read being   *)
(* those that are written, and the places are in the object.                *)
Apart(k) ==
  /\ \A f \in DOMAIN k.readable :
       k.readable[f] < FieldLimit => k.readable[f] \in 0..k.num_fields-1
  /\ \A f \in DOMAIN k.writable :
       k.writable[f] < FieldLimit => k.writable[f] \in 0..k.num_fields-1
  /\ \A f \in DOMAIN k.readable, g \in DOMAIN k.writable :
       k.readable[f] < FieldLimit /\ k.writable[g] < FieldLimit
         => (k.readable[f] = k.writable[g] <=> f = g)
  /\ \A f, g \in DOMAIN k.writable :
       k.writable[f] < FieldLimit /\ k.writable[g] < FieldLimit
         => (k.writable[f] = k.writable[g] <=> f = g)

(* A table of accessors: the places of fields, and functions.               *)
Accessors(u, t) ==
  /\ u \in Tables
  /\ \A f \in DOMAIN u : u[f] < FieldLimit => f \in DOMAIN t /\ u[f] = t[f]

LEMMA AccessorsApart ==
  ASSUME NEW k \in Klasses, NEW t, Slots(t, k.num_fields),
         Accessors(k.readable, t), Accessors(k.writable, t)
  PROVE  Apart(k)
BY DEF Apart, Slots, Accessors

(* A class that has no fields and no accessors.                             *)
Bare(k) ==
  k.num_fields = 0 /\ DOMAIN k.readable = {} /\ DOMAIN k.writable = {} /\ k.destructor = FALSE

(* The classes that klass_new_field() makes, one after the other.           *)
GrownClass(g, k, n) ==
  g = [j \in 0..n |-> IF j = 0 THEN k ELSE klass_new_field(g[j - 1], Fields[j])]

GrownTo(g, k, m) ==
  /\ DOMAIN g = 0..m /\ g[0] = k
  /\ \A j \in 1..m : g[j] = klass_new_field(g[j - 1], Fields[j])

LEMMA GrowingEnds ==
  ASSUME NEW k, NEW N \in Nat
  PROVE  \E g : GrownClass(g, k, N)
<1> DEFINE T == {m \in 0..N : ~\E g : GrownTo(g, k, m)}
<1>1. T = {}
  <2> SUFFICES ASSUME T # {} PROVE FALSE
    OBVIOUS
  <2>1. PICK m \in T : \A j \in T : m <= j
    <3>1. T \subseteq Nat
      OBVIOUS
    <3> HIDE DEF T
    <3> QED
      BY <3>1, LeastElement
  <2>2. m \in 0..N /\ ~\E g : GrownTo(g, k, m)
    BY <2>1
  <2>3. m # 0
    <3> DEFINE h == [j \in 0..0 |-> k]
    <3>1. GrownTo(h, k, 0)
      BY DEF GrownTo
    <3> QED
      BY <2>2, <3>1
  <2>4. PICK g : GrownTo(g, k, m - 1)
    <3>1. m - 1 \in 0..N /\ ~(m <= m - 1)
      BY <2>2, <2>3
    <3> QED
      BY <2>1, <3>1
  <2>5. PICK next : next = klass_new_field(g[m - 1], Fields[m])
    OBVIOUS
  <2>6. PICK h : h = [j \in 0..m |-> IF j = m THEN next ELSE g[j]]
    OBVIOUS
  <2>7. /\ DOMAIN h = 0..m /\ h[m] = next
        /\ \A j \in 0..m-1 : h[j] = g[j]
    BY <2>2, <2>6
  <2>8. GrownTo(h, k, m)
    <3>1. h[0] = k
      BY <2>2, <2>3, <2>4, <2>7 DEF GrownTo
    <3>2. \A j \in 1..m-1 : h[j] = g[j] /\ h[j-1] = g[j-1]
      BY <2>2, <2>7
    <3>3. \A j \in 1..m-1 : h[j] = klass_new_field(h[j - 1], Fields[j])
      BY <2>4, <3>2 DEF GrownTo
    <3>4. h[m - 1] = g[m - 1]
      BY <2>2, <2>3, <2>7
    <3>5. h[m] = klass_new_field(h[m - 1], Fields[m])
      BY <2>5, <2>7, <3>4
    <3>6. \A j \in 1..m : j = m \/ j \in 1..m-1
      BY <2>2
    <3> QED
      BY <2>7, <3>1, <3>3, <3>5, <3>6 DEF GrownTo
  <2> QED
    BY <2>2, <2>8
<1>2. PICK g : GrownTo(g, k, N)
  <2>1. N \in 0..N
    OBVIOUS
  <2> QED
    BY <1>1, <2>1
<1>3. PICK h : h = [j \in 0..N |-> g[j]]
  OBVIOUS
<1>4. GrownClass(h, k, N)
  <2>1. \A j \in 0..N : h[j] = IF j = 0 THEN k ELSE klass_new_field(h[j - 1], Fields[j])
    <3>1. \A j \in 0..N : j = 0 \/ (j \in 1..N /\ j - 1 \in 0..N)
      OBVIOUS
    <3>2. \A j \in 0..N : h[j] = g[j]
      BY <1>3
    <3>3. h[0] = k
      BY <1>2, <3>2 DEF GrownTo
    <3>4. \A j \in 1..N : h[j] = klass_new_field(h[j - 1], Fields[j])
      BY <1>2, <3>1, <3>2 DEF GrownTo
    <3> QED
      BY <3>1, <3>3, <3>4
  <2>2. DOMAIN h = 0..N /\ h = [j \in 0..N |-> h[j]]
    BY <1>3
  <2> QED
    BY <2>1, <2>2 DEF GrownClass
<1> QED
  BY <1>4

(* A class with n fields.                                                   *)
HasFields(c, k, n) ==
  /\ c \in Klasses /\ c.name = k.name /\ c.cdata_size = k.cdata_size
  /\ c.obj_size = k.obj_size /\ c.num_fields = n
  /\ c.writable = c.readable /\ Slots(c.readable, n)
  /\ n = 0 => DOMAIN c.readable = {}

LEMMA FieldsLaid ==
  ASSUME NEW k \in Klasses, Bare(k), NEW N \in 0..Len(Fields), NEW g, GrownClass(g, k, N)
  PROVE  HasFields(g[N], k, N)
<1>1. /\ g[0] = k
      /\ \A j \in 1..N : g[j] = klass_new_field(g[j - 1], Fields[j])
  <2>1. N \in Nat
    BY FieldFacts
  <2>2. \A j \in 0..N : g[j] = IF j = 0 THEN k ELSE klass_new_field(g[j - 1], Fields[j])
    BY Zenon DEF GrownClass
  <2>3. 0 \in 0..N /\ \A j \in 1..N : j \in 0..N /\ j # 0
    BY <2>1
  <2> QED
    BY <2>2, <2>3
<1> DEFINE Good(n) == HasFields(g[n], k, n)
           T == {n \in 0..N : ~Good(n)}
<1>2. T = {}
  <2> SUFFICES ASSUME T # {} PROVE FALSE
    OBVIOUS
  <2>0. N \in Nat /\ N <= Len(Fields) /\ Len(Fields) \in Nat
    BY FieldFacts
  <2>1. PICK n \in T : \A j \in T : n <= j
    <3>1. T \subseteq Nat
      BY <2>0
    <3> HIDE DEF T
    <3> QED
      BY <3>1, LeastElement
  <2>2. n \in 0..N /\ ~Good(n)
    BY <2>1
  <2>3. Good(0)
    <3>1. k.readable = k.writable
      <4>1. k.readable \in Tables /\ k.writable \in Tables
        BY DEF Klasses
      <4>2. PICK S1 : k.readable \in [S1 -> Nat]
        BY <4>1 DEF Tables
      <4>3. PICK S2 : k.writable \in [S2 -> Nat]
        BY <4>1 DEF Tables
      <4> QED
        BY <4>2, <4>3 DEF Bare
    <3>2. Slots(k.readable, 0)
      BY DEF Slots, Bare, Klasses
    <3> QED
      BY <1>1, <3>1, <3>2 DEF HasFields, Bare
  <2>4. n # 0
    BY <2>2, <2>3
  <2>5. PICK m \in Nat : n = m + 1 /\ m \in 0..N /\ Good(m)
    <3>1. n - 1 \in 0..N /\ ~(n <= n - 1) /\ n - 1 \in Nat /\ n = (n - 1) + 1
      BY <2>0, <2>2, <2>4
    <3> HIDE DEF Good
    <3> QED
      BY <2>1, <3>1
  <2>6. PICK c : c = g[m]
    OBVIOUS
  <2>7. HasFields(c, k, m)
    BY <2>5, <2>6
  <2>8. n \in 1..N /\ n - 1 = m /\ n \in 1..Len(Fields)
    BY <2>0, <2>2, <2>5
  <2>9. PICK f \in FieldNames : f = Fields[n]
    BY <2>8, FieldFacts
  <2>10. g[n] = klass_new_field(c, f)
    BY <1>1, <2>6, <2>8, <2>9
  <2>11. PICK t \in Tables : t = c.readable /\ t = c.writable /\ c.num_fields = m /\ Slots(t, m)
    BY <2>7 DEF HasFields, Slots
  <2>12. PICK u : u = With(t, f, m)
    OBVIOUS
  <2>13. /\ u \in Tables /\ DOMAIN u = DOMAIN t \union {f} /\ u[f] = m
         /\ \A h \in DOMAIN t : h # f => u[h] = t[h]
    BY <2>12, WithFacts
  <2>14. g[n] = [c EXCEPT !.num_fields = m + 1, !.readable = u, !.writable = u]
    BY <2>7, <2>10, <2>11, <2>12 DEF klass_new_field, HasFields, Klasses
  <2>15. /\ g[n] \in Klasses /\ g[n].name = c.name /\ g[n].cdata_size = c.cdata_size
         /\ g[n].obj_size = c.obj_size /\ g[n].num_fields = n
         /\ g[n].readable = u /\ g[n].writable = u
    <3>1. c \in Klasses /\ m + 1 \in Nat /\ u \in Tables
      BY <2>5, <2>7, <2>13 DEF HasFields
    <3>2. PICK e : e = [c EXCEPT !.num_fields = m + 1, !.readable = u, !.writable = u]
      OBVIOUS
    <3>3. /\ e.name = c.name /\ e.cdata_size = c.cdata_size /\ e.obj_size = c.obj_size
          /\ e.num_fields = m + 1 /\ e.readable = u /\ e.writable = u
      BY <3>1, <3>2 DEF Klasses
    <3>4. e \in Klasses
      BY <3>1, <3>2 DEF Klasses
    <3> QED
      BY <2>5, <2>14, <3>2, <3>3, <3>4
  <2>16. Slots(u, n)
    <3>1. \A h \in DOMAIN u : (h = f /\ u[h] = m) \/ (h # f /\ h \in DOMAIN t /\ u[h] = t[h] /\ t[h] \in 0..m-1)
      BY <2>11, <2>13 DEF Slots
    <3>2. \A h \in DOMAIN u : u[h] \in 0..n-1
      BY <2>5, <3>1
    <3>3. \A h, i \in DOMAIN u : u[h] = u[i] => h = i
      BY <2>11, <3>1 DEF Slots
    <3> QED
      BY <2>13, <3>2, <3>3 DEF Slots
  <2>17. Good(n)
    BY <2>4, <2>7, <2>15, <2>16 DEF HasFields
  <2> QED
    BY <2>2, <2>17
<1> QED
  BY <1>2, FieldFacts

-----------------------------------------------------------------------------
(***************************************************************************)
(* The invariant of the classes.                                           *)
(***************************************************************************)
IsDecl(d) ==
  /\ d.name \in {"Own", "Object", "Error", "Destroyed"} /\ d.cdata \in Nat
  /\ d.fields \in 0..Len(Fields)
  /\ d.getter \in FieldNames \union {Nil} /\ d.setter \in FieldNames \union {Nil}

Idle(d) == d.fields = 0 /\ d.getter = Nil /\ d.setter = Nil /\ d.destructor = 0

LEMMA DeclFacts ==
  ASSUME decl \in Decls
  PROVE  /\ \A m \in Modules : IsDecl(DeclOf(m))
         /\ \A m, n \in Modules : DeclOf(m).name = DeclOf(n).name => m = n
         /\ DeclOf("program") = decl /\ decl.name \in {"Own", "Object"}
         /\ DeclOf("Error").name = "Error" /\ DeclOf("Destroyed").name = "Destroyed"
         /\ \A m \in Modules : DeclOf(m).name = "Destroyed" => Idle(DeclOf(m))
<1>1. /\ decl.name \in {"Own", "Object"} /\ decl.cdata \in 0..1 /\ decl.fields \in 0..Len(Fields)
      /\ decl.getter \in FieldNames \union {Nil} /\ decl.setter \in FieldNames \union {Nil}
  BY DEF Decls
<1>2. /\ DeclOf("program") = decl
      /\ DeclOf("Error").name = "Error" /\ DeclOf("Error").cdata = 0 /\ DeclOf("Error").fields = 1
      /\ DeclOf("Error").getter = Nil /\ DeclOf("Error").setter = Nil
  BY DEF DeclOf
<1>3. /\ DeclOf("Destroyed").name = "Destroyed" /\ DeclOf("Destroyed").cdata = 0
      /\ DeclOf("Destroyed").fields = 0 /\ DeclOf("Destroyed").getter = Nil
      /\ DeclOf("Destroyed").setter = Nil /\ DeclOf("Destroyed").destructor = 0
  BY DEF DeclOf
<1>4. 0 \in 0..Len(Fields) /\ 1 \in 0..Len(Fields)
  BY FieldFacts
<1>5. IsDecl(DeclOf("program")) /\ IsDecl(DeclOf("Error")) /\ IsDecl(DeclOf("Destroyed"))
  BY <1>1, <1>2, <1>3, <1>4 DEF IsDecl
<1>6. \A m \in Modules : IsDecl(DeclOf(m))
  BY <1>5 DEF Modules
<1>7. \A m, n \in Modules : DeclOf(m).name = DeclOf(n).name => m = n
  BY <1>1, <1>2, <1>3 DEF Modules
<1>8. \A m \in Modules : DeclOf(m).name = "Destroyed" => Idle(DeclOf(m))
  BY <1>1, <1>2, <1>3 DEF Modules, Idle
<1> QED
  BY <1>1, <1>2, <1>3, <1>6, <1>7, <1>8

(* A table after klass_new_virtual_reader() or _writer().                   *)
LEMMA VirtualAccessors ==
  ASSUME NEW t, NEW n, Slots(t, n), NEW f \in FieldNames, NEW u, u = With(t, f, Function)
  PROVE  Accessors(u, t)
<1>1. /\ u \in Tables /\ DOMAIN u = DOMAIN t \union {f} /\ u[f] = Function
      /\ \A g \in DOMAIN t : g # f => u[g] = t[g]
  <2>1. t \in Tables /\ Function \in Nat
    BY FieldFacts DEF Slots
  <2> QED
    BY <2>1, WithFacts
<1> QED
  BY <1>1, FieldFacts DEF Accessors

LEMMA PopulatedFacts ==
  ASSUME NEW k \in Klasses, Bare(k), NEW d, IsDecl(d)
  PROVE  /\ Populated(k, d) \in Klasses /\ Populated(k, d).name = k.name
         /\ Apart(Populated(k, d))
         /\ Idle(d) => /\ DOMAIN Populated(k, d).readable = {}
                       /\ DOMAIN Populated(k, d).writable = {}
                       /\ Populated(k, d).destructor = FALSE
<1>0. d.fields \in Nat /\ d.fields \in 0..Len(Fields)
  BY FieldFacts DEF IsDecl
<1>1. PICK g : /\ GrownClass(g, k, d.fields)
               /\ Populated(k, d) =
                    [klass_new_virtual_writer(klass_new_virtual_reader(g[d.fields], d.getter), d.setter)
                       EXCEPT !.destructor = d.destructor = 1]
  <2>1. \E g : GrownClass(g, k, d.fields)
    BY <1>0, GrowingEnds
  <2> QED
    BY <2>1, Zenon DEF Populated, GrownClass
<1>2. PICK c : c = g[d.fields]
  OBVIOUS
<1>3. HasFields(c, k, d.fields)
  BY <1>0, <1>1, <1>2, FieldsLaid
<1>4. PICK t : t = c.readable /\ t = c.writable /\ Slots(t, d.fields) /\ t \in Tables
  BY <1>3 DEF HasFields, Slots
<1>5. Accessors(t, t)
  BY <1>4 DEF Accessors
<1>6. PICK c1 : c1 = klass_new_virtual_reader(c, d.getter)
  OBVIOUS
<1>7. /\ c1 \in Klasses /\ c1.name = c.name /\ c1.num_fields = c.num_fields /\ c1.writable = t
      /\ Accessors(c1.readable, t)
      /\ d.getter = Nil => c1.readable = t
  <2>1. CASE d.getter = Nil
    BY <1>3, <1>4, <1>5, <1>6, <2>1 DEF klass_new_virtual_reader, HasFields
  <2>2. CASE d.getter # Nil
    <3>1. PICK u : u = With(t, d.getter, Function)
      OBVIOUS
    <3>2. d.getter \in FieldNames
      BY <2>2 DEF IsDecl
    <3>3. Accessors(u, t) /\ u \in Tables
      BY <1>4, <3>1, <3>2, VirtualAccessors DEF Accessors
    <3>4. c \in Klasses /\ c1 = [c EXCEPT !.readable = u]
      BY <1>3, <1>4, <1>6, <2>2, <3>1 DEF klass_new_virtual_reader, HasFields, Klasses
    <3>5. c1 \in Klasses /\ c1.name = c.name /\ c1.num_fields = c.num_fields
          /\ c1.writable = c.writable /\ c1.readable = u
      BY <3>3, <3>4 DEF Klasses
    <3> QED
      BY <1>4, <2>2, <3>3, <3>5
  <2> QED
    BY <2>1, <2>2
<1>8. PICK c2 : c2 = klass_new_virtual_writer(c1, d.setter)
  OBVIOUS
<1>9. /\ c2 \in Klasses /\ c2.name = c.name /\ c2.num_fields = c.num_fields
      /\ c2.readable = c1.readable /\ Accessors(c2.writable, t)
      /\ d.setter = Nil => c2.writable = t
  <2>1. CASE d.setter = Nil
    BY <1>5, <1>7, <1>8, <2>1 DEF klass_new_virtual_writer
  <2>2. CASE d.setter # Nil
    <3>1. PICK u : u = With(t, d.setter, Function)
      OBVIOUS
    <3>2. d.setter \in FieldNames
      BY <2>2 DEF IsDecl
    <3>3. Accessors(u, t) /\ u \in Tables
      BY <1>4, <3>1, <3>2, VirtualAccessors DEF Accessors
    <3>4. c1 \in Klasses /\ c2 = [c1 EXCEPT !.writable = u]
      BY <1>7, <1>8, <2>2, <3>1 DEF klass_new_virtual_writer, Klasses
    <3>5. c2 \in Klasses /\ c2.name = c1.name /\ c2.num_fields = c1.num_fields
          /\ c2.readable = c1.readable /\ c2.writable = u
      BY <3>3, <3>4 DEF Klasses
    <3> QED
      BY <1>7, <2>2, <3>3, <3>5
  <2> QED
    BY <2>1, <2>2
<1>10. PICK c3 : c3 = Populated(k, d)
  OBVIOUS
<1>11. PICK b \in BOOLEAN : b = (d.destructor = 1) /\ (d.destructor # 1 => b = FALSE)
  OBVIOUS
<1>12. c3 = [c2 EXCEPT !.destructor = b]
  BY <1>1, <1>2, <1>6, <1>8, <1>10, <1>11
<1>13. /\ c3 \in Klasses /\ c3.name = c2.name /\ c3.num_fields = c2.num_fields
       /\ c3.readable = c2.readable /\ c3.writable = c2.writable /\ c3.destructor = b
  BY <1>9, <1>12 DEF Klasses
<1>14. Apart(c3)
  <2>1. Slots(t, c3.num_fields)
    BY <1>3, <1>4, <1>9, <1>13 DEF HasFields
  <2> QED
    BY <1>7, <1>9, <1>13, <2>1, AccessorsApart
<1>15. c3.name = k.name
  BY <1>3, <1>9, <1>13 DEF HasFields
<1>16. ASSUME Idle(d)
       PROVE  DOMAIN c3.readable = {} /\ DOMAIN c3.writable = {} /\ c3.destructor = FALSE
  <2>1. DOMAIN t = {}
    BY <1>3, <1>4, <1>16 DEF HasFields, Idle
  <2>2. b = FALSE
    <3>1. d.destructor # 1
      BY <1>16 DEF Idle
    <3> QED
      BY <1>11, <3>1, Zenon
  <2> QED
    BY <1>7, <1>9, <1>13, <1>16, <2>1, <2>2 DEF Idle
<1> QED
  BY <1>10, <1>13, <1>14, <1>15, <1>16

(* klass_new() makes a class that has neither fields nor accessors.         *)
LEMMA NewFacts ==
  ASSUME NEW name \in KlassNames, NEW c \in Nat
  PROVE  /\ klass_new(name, c) \in Klasses /\ klass_new(name, c).name = name
         /\ klass_new(name, c).cdata_size = c /\ klass_new(name, c).obj_size = 1 + c
         /\ Bare(klass_new(name, c)) /\ Apart(klass_new(name, c))
<1>1. PICK t : t = [f \in {} |-> 0]
  OBVIOUS
<1>2. DOMAIN t = {} /\ t \in [{} -> Nat] /\ {} \in SUBSET FieldNames
  BY <1>1
<1>3. t \in Tables
  BY <1>2 DEF Tables
<1>4. PICK k : k = klass_new(name, c)
  OBVIOUS
<1>5. k = [name |-> name, cdata_size |-> c, obj_size |-> 1 + c, num_fields |-> 0,
           readable |-> t, writable |-> t, destructor |-> FALSE]
  BY <1>1, <1>4 DEF klass_new
<1>6. k \in Klasses
  BY <1>3, <1>5 DEF Klasses
<1>7. k.name = name /\ k.cdata_size = c /\ k.obj_size = 1 + c /\ Bare(k)
  BY <1>2, <1>5 DEF Bare
<1>8. Apart(k)
  BY <1>7 DEF Apart, Bare
<1> QED
  BY <1>4, <1>6, <1>7, <1>8

(* The classes ks have different names.  Function has its size from the     *)
(* start, and Destroyed nothing to reach by a name.                         *)
GoodKlasses(ks) ==
  /\ ks \in Seq(Klasses)
  /\ \A i, j \in 1..Len(ks) : ks[i].name = ks[j].name => i = j
  /\ \A i \in 1..Len(ks) : Apart(ks[i])
  /\ \A i \in 1..Len(ks) : ks[i].name = "Destroyed" =>
       DOMAIN ks[i].readable = {} /\ DOMAIN ks[i].writable = {} /\ ks[i].destructor = FALSE
  /\ \A i \in 1..Len(ks) : ks[i].name = "Function" =>
       ks[i].num_fields = 0 /\ ks[i].cdata_size = 1 /\ ks[i].obj_size = 2

Names(ks) == {ks[i].name : i \in 1..Len(ks)}

(* What has been done when the program has got to a phase.                  *)
PhaseInv ==
  /\ decl \in Decls /\ todo \in SUBSET Modules
  /\ phase \in {"1a", "1b", "1.5", "run", "exit", "crash"}
  /\ {"Function", "Object"} \subseteq Names(klasses)
  /\ phase = "1a" =>
       /\ \A i \in 1..Len(klasses) : Bare(klasses[i])
       /\ \A m \in Modules \ todo : DeclOf(m).name \in Names(klasses)
       /\ "program" \notin todo => decl.name = "Own"
  /\ phase \in {"1b", "1.5", "run"} =>
       decl.name = "Own" /\ {"Own", "Error", "Destroyed"} \subseteq Names(klasses)
  /\ phase = "1b" =>
       \A m \in todo : \A i \in 1..Len(klasses) :
         klasses[i].name = DeclOf(m).name => Bare(klasses[i])
  /\ phase = "run" => \A i \in 1..Len(klasses) : klasses[i].obj_size = Sized(klasses[i])

(* What has been allocated.                                                 *)
MadeInv ==
  /\ phase # "exit" => said # "both"
  /\ phase \in {"1a", "1b", "1.5"} => made = {<<"Function", 2>>}
  /\ ObjectsFit

(* The object with the class k and the memory c has what was last written.  *)
Holds(k, c, l) ==
  /\ DOMAIN c = 0..k.obj_size-2 /\ DOMAIN l = FieldNames
  /\ \A f \in DOMAIN k.readable : k.readable[f] < FieldLimit => c[k.readable[f]] = l[f]
  /\ \A f \in DOMAIN k.writable : k.writable[f] < FieldLimit => c[k.writable[f]] = l[f]

IsObject(ks, x) == x = [klass |-> x.klass, data |-> x.data] /\ x.klass \in 1..Len(ks)

(* An object is one of the program's class, or gone.                        *)
Present(ks, x, l) == ks[x.klass].name = "Own" /\ Holds(ks[x.klass], x.data, l)
Absent(ks, x) == ks[x.klass].name = "Destroyed" /\ \A i \in DOMAIN x.data : x.data[i] = Nil

ObjInv ==
  /\ said # "another"
  /\ gone \in SUBSET DOMAIN objects /\ destroying \in Seq(DOMAIN objects)
  /\ DOMAIN last = DOMAIN objects
  /\ phase # "run" => DOMAIN objects = {}
  /\ \A o \in DOMAIN objects :
       /\ IsObject(klasses, objects[o])
       /\ o \in gone => Absent(klasses, objects[o])
       /\ o \notin gone => Present(klasses, objects[o], last[o])

RegInv == GoodKlasses(klasses) /\ PhaseInv /\ MadeInv /\ ObjInv

-----------------------------------------------------------------------------
(* klass_get() finds the one class of the name.                             *)
LEMMA GetFacts ==
  ASSUME GoodKlasses(klasses), NEW name \in Names(klasses)
  PROVE  /\ klass_get(name) \in 1..Len(klasses) /\ klasses[klass_get(name)].name = name
         /\ \A i \in 1..Len(klasses) : klasses[i].name = name => i = klass_get(name)
         /\ klasses[klass_get(name)] \in Klasses
<1>1. klasses \in Seq(Klasses) /\ DOMAIN klasses = 1..Len(klasses)
  BY DEF GoodKlasses
<1>2. PICK i \in 1..Len(klasses) : klasses[i].name = name
  BY DEF Names
<1>3. klass_get(name) \in DOMAIN klasses /\ klasses[klass_get(name)].name = name
  BY <1>1, <1>2 DEF klass_get
<1>4. klass_get(name) \in 1..Len(klasses)
  BY <1>1, <1>3
<1>5. klasses[klass_get(name)] \in Klasses
  BY <1>1, <1>4
<1> QED
  BY <1>3, <1>4, <1>5 DEF GoodKlasses

LEMMA KnownNames ==
  ASSUME GoodKlasses(klasses), NEW name
  PROVE  Known(name) <=> name \in Names(klasses)
<1>1. DOMAIN klasses = 1..Len(klasses)
  BY DEF GoodKlasses
<1> QED
  BY <1>1 DEF Known, Names

(* Steps before the program runs leave no objects to look at.               *)
LEMMA NoObjectsStep ==
  ASSUME RegInv, phase # "run", NoObjects, said' # "another"
  PROVE  ObjInv'
<1>1. objects' = objects /\ last' = last /\ destroying' = destroying /\ gone' = gone
  BY DEF NoObjects
<1>2. DOMAIN objects = {} /\ gone \in SUBSET DOMAIN objects
      /\ destroying \in Seq(DOMAIN objects) /\ DOMAIN last = DOMAIN objects
  BY DEF RegInv, ObjInv
<1> QED
  BY <1>1, <1>2 DEF ObjInv

LEMMA InitKlasses == ASSUME RegInit PROVE RegInv
<1>1. PICK k1 : k1 = klass_new("Function", 1)
  OBVIOUS
<1>2. PICK k2 : k2 = klass_new("Object", 0)
  OBVIOUS
<1>3. /\ k1 \in Klasses /\ k1.name = "Function" /\ k1.cdata_size = 1 /\ k1.obj_size = 1 + 1
      /\ Bare(k1) /\ Apart(k1)
      /\ k2 \in Klasses /\ k2.name = "Object" /\ Bare(k2) /\ Apart(k2)
  <2>1. "Function" \in KlassNames /\ "Object" \in KlassNames /\ 0 \in Nat /\ 1 \in Nat
    BY DEF KlassNames
  <2> QED
    BY <1>1, <1>2, <2>1, NewFacts
<1>4. klasses = <<k1, k2>>
  BY <1>1, <1>2 DEF RegInit
<1>5. /\ klasses \in Seq(Klasses) /\ Len(klasses) = 2 /\ klasses[1] = k1 /\ klasses[2] = k2
  BY <1>3, <1>4
<1>6. \A i \in 1..Len(klasses) : i = 1 \/ i = 2
  BY <1>5
<1>7. GoodKlasses(klasses)
  <2>1. k1.num_fields = 0
    BY <1>3 DEF Bare
  <2> QED
    BY <1>3, <1>5, <1>6, <2>1 DEF GoodKlasses
<1>8. Names(klasses) = {"Function", "Object"}
  BY <1>3, <1>5 DEF Names
<1>9. PhaseInv
  BY <1>3, <1>5, <1>6, <1>8 DEF RegInit, PhaseInv, Modules
<1>10. MadeInv
  <2>1. made = {<<"Function", 2>>} /\ said = "fine" /\ phase = "1a"
    BY <1>1, <1>3 DEF RegInit
  <2>2. DOMAIN klasses = 1..Len(klasses)
    BY <1>5
  <2>3. ObjectsFit
    BY <1>3, <1>5, <1>6, <2>1, <2>2 DEF ObjectsFit, Bare
  <2> QED
    BY <2>1, <2>3 DEF MadeInv
<1>11. ObjInv
  <2>1. DOMAIN objects = {} /\ DOMAIN last = {} /\ gone = {} /\ destroying = <<>> /\ said = "fine"
    BY DEF RegInit
  <2> QED
    BY <2>1 DEF ObjInv
<1> QED
  BY <1>7, <1>9, <1>10, <1>11 DEF RegInv

LEMMA Init1aStep ==
  ASSUME RegInv, NEW m \in Modules, init1a(m)
  PROVE  RegInv'
<1> DEFINE d == DeclOf(m)
<1>1. /\ phase = "1a" /\ m \in todo /\ decl' = decl /\ made' = made /\ NoObjects
      /\ made = {<<"Function", 2>>} /\ said # "both" /\ said # "another"
  BY DEF init1a, RegInv, MadeInv, ObjInv
<1>2. GoodKlasses(klasses) /\ PhaseInv
  BY DEF RegInv
<1>3. IsDecl(d) /\ \A n \in Modules : DeclOf(n)' = DeclOf(n)
  BY <1>1, <1>2, DeclFacts DEF PhaseInv, DeclOf
<1>4. klasses \in Seq(Klasses) /\ Len(klasses) \in Nat /\ DOMAIN klasses = 1..Len(klasses)
  BY <1>2 DEF GoodKlasses
<1>5. CASE Known(d.name)
  <2>1. phase' = "exit" /\ said' = "initialized twice" /\ todo' = todo /\ klasses' = klasses
    BY <1>5 DEF init1a
  <2>2. PhaseInv'
    BY <1>1, <1>2, <2>1 DEF PhaseInv
  <2>3. ObjectsFit'
    BY <1>1, <2>1 DEF RegInv, MadeInv, ObjectsFit
  <2>4. MadeInv'
    BY <2>1, <2>3 DEF MadeInv
  <2>5. ObjInv'
    BY <1>1, <2>1, NoObjectsStep
  <2> QED
    BY <1>2, <2>1, <2>2, <2>4, <2>5 DEF RegInv
<1>6. CASE ~Known(d.name)
  <2>1. PICK k : k = klass_new(d.name, d.cdata)
    OBVIOUS
  <2>2. /\ k \in Klasses /\ k.name = d.name /\ Bare(k) /\ Apart(k)
    <3>1. d.name \in KlassNames /\ d.cdata \in Nat
      BY <1>3 DEF IsDecl, KlassNames
    <3> HIDE DEF d
    <3> QED
      BY <2>1, <3>1, NewFacts
  <2>3. klasses' = Append(klasses, k) /\ Onward(m, "1b") /\ said' = said
    BY <1>6, <2>1 DEF init1a
  <2>4. PICK N \in Nat : N = Len(klasses)
    BY <1>4
  <2>5. /\ klasses' \in Seq(Klasses) /\ Len(klasses') = N + 1 /\ klasses'[N + 1] = k
        /\ \A i \in 1..N : klasses'[i] = klasses[i]
    BY <1>4, <2>2, <2>3, <2>4
  <2>6. \A i \in 1..Len(klasses') : (i \in 1..N /\ klasses'[i] = klasses[i]) \/ (i = N + 1 /\ klasses'[i] = k)
    BY <2>4, <2>5
  <2>7. d.name \notin Names(klasses) /\ \A i \in 1..N : klasses[i].name # d.name
    BY <1>2, <1>6, <2>4, KnownNames DEF Names
  <2>8. GoodKlasses(klasses')
    <3>1. k.name # "Function"
      BY <1>3, <2>2 DEF IsDecl
    <3>2. \A i, j \in 1..Len(klasses') : klasses'[i].name = klasses'[j].name => i = j
      BY <1>2, <2>2, <2>4, <2>6, <2>7 DEF GoodKlasses
    <3>3. \A i \in 1..Len(klasses') : Apart(klasses'[i])
      BY <1>2, <2>2, <2>4, <2>6 DEF GoodKlasses
    <3>4. \A i \in 1..Len(klasses') : klasses'[i].name = "Function" =>
           klasses'[i].num_fields = 0 /\ klasses'[i].cdata_size = 1 /\ klasses'[i].obj_size = 2
      BY <1>2, <2>2, <2>4, <2>6, <3>1 DEF GoodKlasses
    <3>5. \A i \in 1..Len(klasses') : Bare(klasses'[i])
      BY <1>1, <1>2, <2>2, <2>4, <2>6 DEF PhaseInv
    <3> QED
      BY <2>5, <3>2, <3>3, <3>4, <3>5 DEF GoodKlasses, Bare
  <2>9. Names(klasses') = Names(klasses) \union {d.name}
    <3>1. \A i \in 1..N : i \in 1..Len(klasses')
      BY <2>5
    <3>2. N + 1 \in 1..Len(klasses')
      BY <2>5
    <3> QED
      BY <2>2, <2>4, <2>5, <2>6, <3>1, <3>2 DEF Names
  <2>10. d.name = "Own" \/ m # "program"
    <3>1. d.name # "Object"
      BY <1>2, <2>7 DEF PhaseInv
    <3> QED
      BY <1>2, <3>1, DeclFacts DEF PhaseInv
  <2>11. PhaseInv'
    <3>1. /\ \A i \in 1..Len(klasses') : Bare(klasses'[i])
          /\ \A n \in (Modules \ todo) \union {m} : DeclOf(n)'.name \in Names(klasses')
          /\ "program" \notin todo \ {m} => decl.name = "Own"
          /\ todo \in SUBSET Modules
          /\ {"Function", "Object"} \subseteq Names(klasses')
      <4>1. "program" \notin todo \ {m} => decl.name = "Own"
        <5>1. CASE m = "program"
          BY <1>2, <2>10, <5>1, DeclFacts DEF PhaseInv
        <5>2. CASE m # "program"
          BY <1>1, <1>2, <5>2 DEF PhaseInv
        <5> QED
          BY <5>1, <5>2
      <4>2. \A i \in 1..Len(klasses') : Bare(klasses'[i])
        BY <1>1, <1>2, <2>2, <2>4, <2>6 DEF PhaseInv
      <4>3. \A n \in (Modules \ todo) \union {m} : DeclOf(n)'.name \in Names(klasses')
        BY <1>1, <1>2, <1>3, <2>9 DEF PhaseInv
      <4> QED
        BY <1>2, <2>9, <4>1, <4>2, <4>3 DEF PhaseInv
    <3>2. CASE todo = {m}
      <4>1. phase' = "1b" /\ todo' = Modules
        BY <2>3, <3>2 DEF Onward
      <4>2. \A n \in Modules : DeclOf(n).name \in Names(klasses')
        BY <1>3, <3>1, <3>2
      <4>3. decl.name = "Own" /\ {"Own", "Error", "Destroyed"} \subseteq Names(klasses')
        <5>1. decl.name = "Own"
          BY <3>1, <3>2
        <5>2. {"program", "Error", "Destroyed"} \subseteq Modules
          BY DEF Modules
        <5> QED
          BY <1>2, <4>2, <5>1, <5>2, DeclFacts DEF PhaseInv
      <4> QED
        BY <1>1, <1>2, <3>1, <4>1, <4>3 DEF PhaseInv
    <3>3. CASE todo # {m}
      <4>1. phase' = "1a" /\ todo' = todo \ {m}
        BY <1>1, <2>3, <3>3 DEF Onward
      <4>2. Modules \ todo' = (Modules \ todo) \union {m}
        BY <4>1
      <4> QED
        BY <1>1, <1>2, <3>1, <4>1, <4>2 DEF PhaseInv
    <3> QED
      BY <3>2, <3>3
  <2>12. MadeInv'
    <3>1. phase' \in {"1a", "1b"}
      BY <1>1, <2>3 DEF Onward
    <3>2. ObjectsFit'
      <4>1. DOMAIN klasses' = 1..Len(klasses')
        BY <2>5
      <4>2. made' = {<<"Function", 2>>}
        BY <1>1
      <4>3. ASSUME NEW i \in 1..Len(klasses'), klasses'[i].name = "Function"
            PROVE  2 >= 1 + klasses'[i].num_fields + klasses'[i].cdata_size
        <5>1. klasses'[i].num_fields = 0 /\ klasses'[i].cdata_size = 1
          BY <2>8, <4>3 DEF GoodKlasses
        <5> QED
          BY <5>1
      <4> QED
        BY <4>1, <4>2, <4>3 DEF ObjectsFit
    <3> QED
      BY <1>1, <2>3, <3>1, <3>2 DEF MadeInv
  <2>13. ObjInv'
    BY <1>1, <2>3, NoObjectsStep
  <2> QED
    BY <2>8, <2>11, <2>12, <2>13 DEF RegInv
<1> QED
  BY <1>5, <1>6

(* Only the class of the module changes, and it keeps its name.             *)
LEMMA Init1bStep ==
  ASSUME RegInv, NEW m \in Modules, init1b(m)
  PROVE  RegInv'
<1> DEFINE d == DeclOf(m)
<1>1. /\ phase = "1b" /\ m \in todo /\ decl' = decl /\ NoObjects
      /\ made = {<<"Function", 2>>} /\ said # "both" /\ said # "another"
  BY DEF init1b, RegInv, MadeInv, ObjInv
<1>2. GoodKlasses(klasses) /\ PhaseInv
  BY DEF RegInv
<1>3. IsDecl(d) /\ \A n \in Modules : DeclOf(n)' = DeclOf(n)
  BY <1>1, <1>2, DeclFacts DEF PhaseInv, DeclOf
<1>4. klasses \in Seq(Klasses) /\ Len(klasses) \in Nat /\ DOMAIN klasses = 1..Len(klasses)
  BY <1>2 DEF GoodKlasses
<1>5. CASE d.destructor > 1
  <2>1. phase' = "crash" /\ said' = "destructor" /\ todo' = todo /\ klasses' = klasses
        /\ made' = made
    BY <1>5 DEF init1b
  <2>2. PhaseInv'
    BY <1>1, <1>2, <2>1 DEF PhaseInv
  <2>3. ObjectsFit'
    BY <1>1, <2>1 DEF RegInv, MadeInv, ObjectsFit
  <2>4. MadeInv'
    BY <2>1, <2>3 DEF MadeInv
  <2>5. ObjInv'
    BY <1>1, <2>1, NoObjectsStep
  <2> QED
    BY <1>2, <2>1, <2>2, <2>4, <2>5 DEF RegInv
<1>6. CASE ~(d.destructor > 1)
  <2>1. PICK i : i = klass_get(d.name)
    OBVIOUS
  <2>2. d.name \in Names(klasses) /\ d.name # "Function"
    <3>1. CASE m = "program"
      BY <1>1, <1>2, <3>1, DeclFacts DEF PhaseInv
    <3>2. CASE m = "Error"
      BY <1>1, <1>2, <3>2, DeclFacts DEF PhaseInv
    <3>3. CASE m = "Destroyed"
      BY <1>1, <1>2, <3>3, DeclFacts DEF PhaseInv
    <3> QED
      BY <3>1, <3>2, <3>3 DEF Modules
  <2>3. /\ i \in 1..Len(klasses) /\ klasses[i].name = d.name /\ klasses[i] \in Klasses
    <3> HIDE DEF d
    <3> QED
      BY <1>2, <2>1, <2>2, GetFacts
  <2>4. Bare(klasses[i])
    BY <1>1, <1>2, <2>3 DEF PhaseInv
  <2>5. PICK k : k = Populated(klasses[i], d)
    OBVIOUS
  <2>6. /\ k \in Klasses /\ k.name = d.name /\ Apart(k)
        /\ Idle(d) => DOMAIN k.readable = {} /\ DOMAIN k.writable = {} /\ k.destructor = FALSE
    <3> HIDE DEF d
    <3> QED
      BY <1>3, <2>3, <2>4, <2>5, PopulatedFacts
  <2>7. /\ klasses' = [klasses EXCEPT ![i] = k] /\ Onward(m, "1.5") /\ said' = said
        /\ made' = made \union {<<"Function", klasses[klass_get("Function")].obj_size>>}
    BY <1>6, <2>1, <2>5 DEF init1b
  <2>8. /\ klasses' \in Seq(Klasses) /\ Len(klasses') = Len(klasses) /\ klasses'[i] = k
        /\ \A j \in 1..Len(klasses) : j # i => klasses'[j] = klasses[j]
    BY <1>4, <2>3, <2>6, <2>7
  <2>9. \A j \in 1..Len(klasses) : klasses'[j].name = klasses[j].name
    BY <2>3, <2>6, <2>8
  <2>10. GoodKlasses(klasses')
    <3>1. \A j, l \in 1..Len(klasses') : klasses'[j].name = klasses'[l].name => j = l
      BY <1>2, <2>8, <2>9 DEF GoodKlasses
    <3>2. \A j \in 1..Len(klasses') : Apart(klasses'[j])
      BY <1>2, <2>6, <2>8 DEF GoodKlasses
    <3>3. \A j \in 1..Len(klasses') : klasses'[j].name = "Function" =>
            klasses'[j].num_fields = 0 /\ klasses'[j].cdata_size = 1 /\ klasses'[j].obj_size = 2
      BY <1>2, <2>2, <2>6, <2>8 DEF GoodKlasses
    <3>4. d.name = "Destroyed" => Idle(d)
      BY <1>2, DeclFacts DEF PhaseInv
    <3>5. \A j \in 1..Len(klasses') : klasses'[j].name = "Destroyed" =>
            DOMAIN klasses'[j].readable = {} /\ DOMAIN klasses'[j].writable = {}
            /\ klasses'[j].destructor = FALSE
      BY <1>2, <2>6, <2>8, <3>4 DEF GoodKlasses
    <3> QED
      BY <2>8, <3>1, <3>2, <3>3, <3>5 DEF GoodKlasses
  <2>11. Names(klasses') = Names(klasses)
    BY <2>8, <2>9 DEF Names
  <2>12. PhaseInv'
    <3>1. phase' \in {"1b", "1.5"} /\ todo' \in SUBSET Modules
          /\ (phase' = "1b" => todo' = todo \ {m})
      BY <1>1, <1>2, <2>7 DEF Onward, PhaseInv
    <3>2. ASSUME NEW n \in todo \ {m}, NEW j \in 1..Len(klasses'),
                 klasses'[j].name = DeclOf(n)'.name
          PROVE  Bare(klasses'[j])
      <4>1. n \in Modules /\ n # m /\ n \in todo
        BY <1>2 DEF PhaseInv
      <4>2. DeclOf(n).name # d.name
        BY <1>2, <4>1, DeclFacts DEF PhaseInv
      <4>3. j # i /\ klasses[j].name = DeclOf(n).name /\ j \in 1..Len(klasses)
        BY <1>3, <2>3, <2>8, <2>9, <3>2, <4>1, <4>2
      <4>4. Bare(klasses[j])
        BY <1>1, <1>2, <4>1, <4>3 DEF PhaseInv
      <4> QED
        BY <2>8, <4>3, <4>4
    <3>3. /\ decl' \in Decls /\ {"Function", "Object"} \subseteq Names(klasses')
          /\ decl'.name = "Own" /\ {"Own", "Error", "Destroyed"} \subseteq Names(klasses')
      BY <1>1, <1>2, <2>11 DEF PhaseInv
    <3> QED
      BY <3>1, <3>2, <3>3 DEF PhaseInv
  <2>13. MadeInv'
    <3>1. klasses[klass_get("Function")].obj_size = 2
      <4>1. "Function" \in Names(klasses)
        BY <1>2 DEF PhaseInv
      <4>2. /\ klass_get("Function") \in 1..Len(klasses)
            /\ klasses[klass_get("Function")].name = "Function"
        BY <1>2, <4>1, GetFacts
      <4> QED
        BY <1>2, <4>2 DEF GoodKlasses
    <3>2. made' = {<<"Function", 2>>}
      BY <1>1, <2>7, <3>1
    <3>3. ObjectsFit'
      <4>1. DOMAIN klasses' = 1..Len(klasses')
        BY <2>8
      <4>2. ASSUME NEW j \in 1..Len(klasses'), klasses'[j].name = "Function"
            PROVE  2 >= 1 + klasses'[j].num_fields + klasses'[j].cdata_size
        <5>1. klasses'[j].num_fields = 0 /\ klasses'[j].cdata_size = 1
          BY <2>10, <4>2 DEF GoodKlasses
        <5> QED
          BY <5>1
      <4> QED
        BY <3>2, <4>1, <4>2 DEF ObjectsFit
    <3>4. phase' # "exit"
      BY <1>1, <2>7 DEF Onward
    <3> QED
      BY <1>1, <2>7, <3>2, <3>3 DEF MadeInv
  <2>14. ObjInv'
    BY <1>1, <2>7, NoObjectsStep
  <2> QED
    BY <2>10, <2>12, <2>13, <2>14 DEF RegInv
<1> QED
  BY <1>5, <1>6

(* A class that has got its final size.                                     *)
Resized(c, k) ==
  /\ c \in Klasses /\ c.name = k.name /\ c.cdata_size = k.cdata_size
  /\ c.num_fields = k.num_fields /\ c.readable = k.readable /\ c.writable = k.writable
  /\ c.destructor = k.destructor
  /\ c.obj_size = k.obj_size \/ c.obj_size = Sized(k)

LEMMA Phase15Step ==
  ASSUME RegInv, phase15
  PROVE  RegInv'
<1> DEFINE both  == {i \in DOMAIN klasses : klasses[i].cdata_size > 0 /\ klasses[i].num_fields > 0}
           sized == [i \in DOMAIN klasses |->
                       IF \E j \in both : j <= i THEN klasses[i]
                       ELSE [klasses[i] EXCEPT !.obj_size = Sized(klasses[i])]]
<1>1. /\ phase = "1.5" /\ klasses' = sized /\ todo' = todo /\ decl' = decl /\ NoObjects
      /\ made = {<<"Function", 2>>} /\ said # "both" /\ said # "another"
  BY DEF phase15, RegInv, MadeInv, ObjInv
<1>2. GoodKlasses(klasses) /\ PhaseInv
  BY DEF RegInv
<1>3. \/ both = {} /\ phase' = "run" /\ said' = said /\ made' = made
      \/ phase' = "exit" /\ said' = "both"
  BY DEF phase15
<1>4. klasses \in Seq(Klasses) /\ Len(klasses) \in Nat /\ DOMAIN klasses = 1..Len(klasses)
  BY <1>2 DEF GoodKlasses
<1>5. ASSUME NEW i \in 1..Len(klasses)
      PROVE  /\ Resized(klasses'[i], klasses[i])
             /\ both = {} => klasses'[i].obj_size = Sized(klasses'[i])
  <2>1. PICK k \in Klasses : k = klasses[i]
    BY <1>4
  <2>2. Sized(k) \in Nat
    BY DEF Sized, Klasses
  <2>3. PICK c : c = [k EXCEPT !.obj_size = Sized(k)]
    OBVIOUS
  <2>4. Resized(c, k) /\ c.obj_size = Sized(c) /\ Resized(k, k)
    <3>1. c \in Klasses
      BY <2>2, <2>3 DEF Klasses
    <3>2. /\ c.name = k.name /\ c.cdata_size = k.cdata_size /\ c.num_fields = k.num_fields
          /\ c.readable = k.readable /\ c.writable = k.writable /\ c.obj_size = Sized(k)
      BY <2>3 DEF Klasses
    <3>3. c.destructor = k.destructor
      BY <2>3 DEF Klasses
    <3> QED
      BY <3>1, <3>2, <3>3 DEF Resized, Sized
  <2>5. klasses'[i] = IF \E j \in both : j <= i THEN k ELSE c
    BY <1>1, <1>4, <2>1, <2>3
  <2> QED
    BY <2>1, <2>4, <2>5
<1>6. klasses' \in Seq(Klasses) /\ Len(klasses') = Len(klasses) /\ DOMAIN klasses' = 1..Len(klasses)
  <2>1. DOMAIN klasses' = 1..Len(klasses)
    BY <1>1, <1>4
  <2>2. klasses' = [i \in 1..Len(klasses) |-> klasses'[i]]
    BY <1>1, <1>4
  <2>3. \A i \in 1..Len(klasses) : klasses'[i] \in Klasses
    BY <1>5 DEF Resized
  <2>4. klasses' \in [1..Len(klasses) -> Klasses]
    <3> HIDE DEF sized
    <3> QED
      BY <2>2, <2>3
  <2> QED
    BY <1>4, <2>1, <2>4
<1> HIDE DEF sized, both
<1>7. \A i \in 1..Len(klasses) : Apart(klasses'[i])
  BY <1>2, <1>5 DEF Apart, Resized, GoodKlasses
<1>8. GoodKlasses(klasses')
  <2>1. \A i, j \in 1..Len(klasses') : klasses'[i].name = klasses'[j].name => i = j
    BY <1>2, <1>5, <1>6 DEF GoodKlasses, Resized
  <2>2. \A i \in 1..Len(klasses') : klasses'[i].name = "Destroyed" =>
          DOMAIN klasses'[i].readable = {} /\ DOMAIN klasses'[i].writable = {}
          /\ klasses'[i].destructor = FALSE
    BY <1>2, <1>5, <1>6 DEF GoodKlasses, Resized
  <2>3. ASSUME NEW i \in 1..Len(klasses'), klasses'[i].name = "Function"
        PROVE  klasses'[i].num_fields = 0 /\ klasses'[i].cdata_size = 1 /\ klasses'[i].obj_size = 2
    <3>1. klasses[i].num_fields = 0 /\ klasses[i].cdata_size = 1 /\ klasses[i].obj_size = 2
      BY <1>2, <1>5, <1>6, <2>3 DEF GoodKlasses, Resized
    <3>2. Sized(klasses[i]) = 2
      BY <3>1 DEF Sized
    <3> QED
      BY <1>5, <1>6, <3>1, <3>2 DEF Resized
  <2> QED
    BY <1>6, <1>7, <2>1, <2>2, <2>3 DEF GoodKlasses
<1>9. Names(klasses') = Names(klasses)
  <2>1. \A i \in 1..Len(klasses) : klasses'[i].name = klasses[i].name
    BY <1>5 DEF Resized
  <2> QED
    BY <1>6, <2>1 DEF Names
<1>10. PhaseInv'
  <2>1. phase' = "run" => \A i \in 1..Len(klasses') : klasses'[i].obj_size = Sized(klasses'[i])
    BY <1>3, <1>5, <1>6
  <2>2. phase' \in {"run", "exit"} /\ decl'.name = "Own"
    BY <1>1, <1>2, <1>3 DEF PhaseInv
  <2>4. /\ {"Function", "Object"} \subseteq Names(klasses')
        /\ {"Own", "Error", "Destroyed"} \subseteq Names(klasses')
        /\ decl' \in Decls /\ todo' \in SUBSET Modules
    BY <1>1, <1>2, <1>9 DEF PhaseInv
  <2> QED
    BY <2>1, <2>2, <2>4 DEF PhaseInv
<1>11. MadeInv'
  <2>1. CASE phase' = "exit" /\ said' = "both"
    BY <2>1 DEF MadeInv, ObjectsFit
  <2>2. CASE phase' = "run" /\ said' = said /\ made' = made
    <3>1. ObjectsFit'
      <4>1. ASSUME NEW j \in 1..Len(klasses'), klasses'[j].name = "Function"
            PROVE  2 >= 1 + klasses'[j].num_fields + klasses'[j].cdata_size
        <5>1. klasses'[j].num_fields = 0 /\ klasses'[j].cdata_size = 1
          BY <1>8, <4>1 DEF GoodKlasses
        <5> QED
          BY <5>1
      <4> QED
        BY <1>1, <1>6, <2>2, <4>1 DEF ObjectsFit
    <3> QED
      BY <1>1, <2>2, <3>1 DEF MadeInv
  <2> QED
    BY <1>3, <2>1, <2>2
<1>12. ObjInv'
  BY <1>1, <1>3, NoObjectsStep
<1> QED
  BY <1>8, <1>10, <1>11, <1>12 DEF RegInv

-----------------------------------------------------------------------------
(* The program runs.                                                        *)
LEMMA RunFacts ==
  ASSUME RegInv, Running
  PROVE  /\ phase = "run" /\ klasses' = klasses /\ decl' = decl /\ phase' = phase
         /\ GoodKlasses(klasses') /\ PhaseInv'
         /\ klasses \in Seq(Klasses) /\ DOMAIN klasses = 1..Len(klasses)
         /\ "Own" \in Names(klasses) /\ "Destroyed" \in Names(klasses) /\ decl.name = "Own"
         /\ \A p \in made : \A i \in 1..Len(klasses) :
              klasses[i].name = p[1] => p[2] >= 1 + klasses[i].num_fields + klasses[i].cdata_size
<1>1. /\ phase = "run" /\ klasses' = klasses /\ decl' = decl /\ phase' = phase /\ todo' = todo
  BY DEF Running
<1>2. GoodKlasses(klasses) /\ PhaseInv /\ MadeInv
  BY DEF RegInv
<1>3. PhaseInv'
  BY <1>1, <1>2 DEF PhaseInv
<1>4. klasses \in Seq(Klasses) /\ DOMAIN klasses = 1..Len(klasses)
  BY <1>2 DEF GoodKlasses
<1>5. "Own" \in Names(klasses) /\ "Destroyed" \in Names(klasses) /\ decl.name = "Own"
  BY <1>1, <1>2 DEF PhaseInv
<1> QED
  BY <1>1, <1>2, <1>3, <1>4, <1>5 DEF MadeInv, ObjectsFit

LEMMA MadeSame ==
  ASSUME RegInv, Running, made' = made, said' # "both"
  PROVE  MadeInv'
<1>1. /\ phase = "run" /\ klasses' = klasses /\ phase' = phase /\ said # "both"
  BY RunFacts DEF RegInv, MadeInv
<1> QED
  BY <1>1 DEF RegInv, MadeInv, ObjectsFit

(* Steps that only say something.                                           *)
LEMMA SayStep ==
  ASSUME RegInv, Running, NEW what, Say(what), what \notin {"both", "another"}
  PROVE  RegInv'
<1>1. /\ said' = what /\ made' = made /\ objects' = objects /\ last' = last
      /\ destroying' = destroying /\ gone' = gone
  BY DEF Say
<1>2. klasses' = klasses /\ phase' = phase /\ GoodKlasses(klasses') /\ PhaseInv'
  BY RunFacts
<1>3. MadeInv'
  BY <1>1, MadeSame
<1>4. ObjInv'
  BY <1>1, <1>2 DEF RegInv, ObjInv, IsObject, Absent, Present
<1> QED
  BY <1>2, <1>3, <1>4 DEF RegInv

LEMMA ObjNewStep ==
  ASSUME RegInv, NEW o \in Objects, obj_new(o)
  PROVE  RegInv'
<1>0. Running
  BY DEF obj_new
<1>1. /\ phase = "run" /\ klasses' = klasses /\ decl.name = "Own" /\ phase' = phase
      /\ GoodKlasses(klasses') /\ PhaseInv' /\ "Own" \in Names(klasses)
      /\ klasses \in Seq(Klasses) /\ DOMAIN klasses = 1..Len(klasses)
  BY <1>0, RunFacts
<1>2. PICK i : i = klass_get("Own")
  OBVIOUS
<1>3. PICK k : k = klasses[i]
  OBVIOUS
<1>4. /\ i \in 1..Len(klasses) /\ k.name = "Own" /\ k \in Klasses
      /\ \A j \in 1..Len(klasses) : klasses[j].name = "Own" => j = i
  BY <1>1, <1>2, <1>3, GetFacts
<1>5. PICK c : c = [j \in 0..k.obj_size - 2 |-> Nil]
  OBVIOUS
<1>6. PICK x : x = [klass |-> i, data |-> c]
  OBVIOUS
<1>7. PICK l : l = [f \in FieldNames |-> Nil]
  OBVIOUS
<1>8. /\ o \notin DOMAIN objects /\ said' = "fine" /\ destroying' = destroying /\ gone' = gone
      /\ made' = made \union {<<k.name, k.obj_size>>}
      /\ objects' = With(objects, o, x) /\ last' = With(last, o, l)
  BY <1>1, <1>2, <1>3, <1>5, <1>6, <1>7 DEF obj_new
<1>9. /\ DOMAIN objects' = DOMAIN objects \union {o} /\ objects'[o] = x
      /\ \A p \in DOMAIN objects : objects'[p] = objects[p]
  BY <1>8 DEF With
<1>10. /\ DOMAIN last' = DOMAIN last \union {o} /\ last'[o] = l
       /\ \A p \in DOMAIN last : p # o => last'[p] = last[p]
  BY <1>8 DEF With
<1>11. x.klass = i /\ x.data = c /\ x = [klass |-> x.klass, data |-> x.data]
  BY <1>6
<1>12. k.obj_size = 1 + k.num_fields + k.cdata_size
  BY <1>1, <1>3, <1>4 DEF RegInv, PhaseInv, Sized
<1>13. Holds(k, c, l)
  <2>1. \A n \in 0..k.num_fields-1 : n \in 0..k.obj_size-2
    BY <1>4, <1>12 DEF Klasses
  <2>2. Apart(k) /\ k.readable \in Tables /\ k.writable \in Tables
    BY <1>1, <1>3, <1>4 DEF GoodKlasses, Klasses
  <2>3. DOMAIN k.readable \subseteq FieldNames /\ DOMAIN k.writable \subseteq FieldNames
    BY <2>2 DEF Tables
  <2>4. \A f \in FieldNames : l[f] = Nil
    BY <1>7
  <2>5. \A n \in 0..k.obj_size-2 : c[n] = Nil
    BY <1>5
  <2>6. DOMAIN c = 0..k.obj_size-2 /\ DOMAIN l = FieldNames
    BY <1>5, <1>7
  <2> QED
    BY <2>1, <2>2, <2>3, <2>4, <2>5, <2>6 DEF Holds, Apart
<1>14. MadeInv'
  <2>1. ASSUME NEW p \in made', NEW j \in 1..Len(klasses), klasses[j].name = p[1]
        PROVE  p[2] >= 1 + klasses[j].num_fields + klasses[j].cdata_size
    <3>1. CASE p \in made
      BY <1>0, <2>1, <3>1, RunFacts
    <3>2. CASE p = <<k.name, k.obj_size>>
      <4>1. klasses[j].name = "Own" /\ p[2] = k.obj_size
        BY <1>4, <2>1, <3>2
      <4>2. klasses[j] = k
        BY <1>3, <1>4, <4>1
      <4>3. k.obj_size \in Nat
        BY <1>4 DEF Klasses
      <4> QED
        BY <1>12, <4>1, <4>2, <4>3
    <3> QED
      BY <1>8, <3>1, <3>2
  <2>2. ObjectsFit'
    BY <1>1, <2>1 DEF ObjectsFit
  <2> QED
    BY <1>1, <1>8, <2>2 DEF MadeInv
<1>15. ObjInv'
  <2>1. /\ gone' \in SUBSET DOMAIN objects' /\ o \notin gone' /\ DOMAIN last' = DOMAIN objects'
        /\ DOMAIN last = DOMAIN objects
    BY <1>8, <1>9, <1>10 DEF RegInv, ObjInv
  <2>2. destroying' \in Seq(DOMAIN objects')
    <3>1. destroying \in Seq(DOMAIN objects) /\ DOMAIN objects \subseteq DOMAIN objects'
      BY <1>9 DEF RegInv, ObjInv
    <3> QED
      BY <1>8, <3>1
  <2>3. ASSUME NEW p \in DOMAIN objects'
        PROVE  /\ IsObject(klasses, objects'[p])
               /\ p \in gone' => Absent(klasses, objects'[p])
               /\ p \notin gone' => Present(klasses, objects'[p], last'[p])
    <3>1. CASE p = o
      <4>1. IsObject(klasses, x) /\ Present(klasses, x, l)
        BY <1>1, <1>3, <1>4, <1>11, <1>13 DEF IsObject, Present
      <4> QED
        BY <1>9, <1>10, <2>1, <3>1, <4>1
    <3>2. CASE p # o
      <4>1. p \in DOMAIN objects /\ objects'[p] = objects[p] /\ last'[p] = last[p]
        BY <1>9, <1>10, <2>1, <3>2
      <4> QED
        BY <1>1, <1>8, <4>1 DEF RegInv, ObjInv, IsObject, Absent, Present
    <3> QED
      BY <3>1, <3>2
  <2> QED
    BY <1>1, <1>8, <2>1, <2>2, <2>3 DEF ObjInv
<1> QED
  BY <1>1, <1>14, <1>15 DEF RegInv

LEMMA FieldGetStep ==
  ASSUME RegInv, NEW o \in Objects, NEW f \in FieldNames, field_get(o, f)
  PROVE  RegInv'
<1>0. Running /\ o \in DOMAIN objects
  BY DEF field_get
<1>1. PICK k : k = klasses[objects[o].klass]
  OBVIOUS
<1>2. \/ f \notin DOMAIN k.readable /\ Say("raised")
      \/ /\ f \in DOMAIN k.readable /\ k.readable[f] < FieldLimit
         /\ objects[o].data[k.readable[f]] = last[o][f] => Say("fine")
      \/ Say("accessor") \/ Say("accessor mismatch") \/ Say("limit")
  BY <1>1 DEF field_get, Accessed
<1>3. ASSUME f \in DOMAIN k.readable, k.readable[f] < FieldLimit
      PROVE  objects[o].data[k.readable[f]] = last[o][f]
  <2>1. o \notin gone
    <3> SUFFICES ASSUME o \in gone PROVE FALSE
      OBVIOUS
    <3>1. k.name = "Destroyed" /\ objects[o].klass \in 1..Len(klasses)
      BY <1>0, <1>1 DEF RegInv, ObjInv, Absent, IsObject
    <3> QED
      BY <1>1, <1>3, <3>1 DEF RegInv, GoodKlasses
  <2>2. Holds(k, objects[o].data, last[o])
    BY <1>0, <1>1, <2>1 DEF RegInv, ObjInv, Present
  <2> QED
    BY <1>3, <2>2 DEF Holds
<1>4. \/ Say("raised") \/ Say("fine") \/ Say("accessor") \/ Say("accessor mismatch")
      \/ Say("limit")
  BY <1>2, <1>3
<1> QED
  BY <1>0, <1>4, SayStep

(* Writing a field changes what was last written to this field only.        *)
LEMMA SetHolds ==
  ASSUME NEW k \in Klasses, Apart(k), NEW c, NEW l, Holds(k, c, l),
         NEW f \in FieldNames, f \in DOMAIN k.writable, k.writable[f] < FieldLimit, NEW v,
         k.obj_size = 1 + k.num_fields + k.cdata_size
  PROVE  Holds(k, [c EXCEPT ![k.writable[f]] = v], [l EXCEPT ![f] = v])
<1>1. PICK n : n = k.writable[f]
  OBVIOUS
<1>2. PICK d : d = [c EXCEPT ![n] = v]
  OBVIOUS
<1>3. PICK h : h = [l EXCEPT ![f] = v]
  OBVIOUS
<1>4. n \in 0..k.obj_size-2
  <2>1. n \in 0..k.num_fields-1
    BY <1>1 DEF Apart
  <2>2. k.num_fields \in Nat /\ k.cdata_size \in Nat
    BY DEF Klasses
  <2> QED
    BY <2>1, <2>2
<1>5. /\ DOMAIN c = 0..k.obj_size-2 /\ DOMAIN l = FieldNames
      /\ \A g \in DOMAIN k.readable : k.readable[g] < FieldLimit => c[k.readable[g]] = l[g]
      /\ \A g \in DOMAIN k.writable : k.writable[g] < FieldLimit => c[k.writable[g]] = l[g]
  BY DEF Holds
<1>6. /\ DOMAIN d = 0..k.obj_size-2 /\ d[n] = v /\ \A j \in DOMAIN c : j # n => d[j] = c[j]
  BY <1>2, <1>4, <1>5
<1>7. /\ DOMAIN h = FieldNames /\ h[f] = v /\ \A g \in FieldNames : g # f => h[g] = l[g]
  BY <1>3, <1>5
<1>8. \A j \in 0..k.num_fields-1 : j \in DOMAIN c
  <2>1. k.num_fields \in Nat /\ k.cdata_size \in Nat
    BY DEF Klasses
  <2> QED
    BY <1>5, <2>1
<1>9. DOMAIN k.readable \subseteq FieldNames /\ DOMAIN k.writable \subseteq FieldNames
  <2>1. k.readable \in Tables /\ k.writable \in Tables
    BY DEF Klasses
  <2> QED
    BY <2>1 DEF Tables
<1>10. ASSUME NEW g \in DOMAIN k.readable, k.readable[g] < FieldLimit
       PROVE  d[k.readable[g]] = h[g]
  <2>1. k.readable[g] = n <=> g = f
    BY <1>1, <1>10 DEF Apart
  <2>2. k.readable[g] \in DOMAIN c
    BY <1>8, <1>10 DEF Apart
  <2> QED
    BY <1>5, <1>6, <1>7, <1>9, <1>10, <2>1, <2>2
<1>11. ASSUME NEW g \in DOMAIN k.writable, k.writable[g] < FieldLimit
       PROVE  d[k.writable[g]] = h[g]
  <2>1. k.writable[g] = n <=> g = f
    BY <1>1, <1>11 DEF Apart
  <2>2. k.writable[g] \in DOMAIN c
    BY <1>8, <1>11 DEF Apart
  <2> QED
    BY <1>5, <1>6, <1>7, <1>9, <1>11, <2>1, <2>2
<1>12. Holds(k, d, h)
  BY <1>6, <1>7, <1>10, <1>11 DEF Holds
<1> QED
  BY <1>1, <1>2, <1>3, <1>12

LEMMA FieldSetStep ==
  ASSUME RegInv, NEW o \in Objects, NEW f \in FieldNames, NEW v, field_set(o, f, v)
  PROVE  RegInv'
<1>0. Running /\ o \in DOMAIN objects
  BY DEF field_set
<1>1. PICK k : k = klasses[objects[o].klass]
  OBVIOUS
<1>2. CASE ~(f \in DOMAIN k.writable /\ k.writable[f] < FieldLimit)
  <2>1. Say("raised") \/ Say("accessor") \/ Say("accessor mismatch") \/ Say("limit")
    BY <1>1, <1>2 DEF field_set, Accessed
  <2> QED
    BY <1>0, <2>1, SayStep
<1>3. CASE f \in DOMAIN k.writable /\ k.writable[f] < FieldLimit
  <2>1. /\ objects' = [objects EXCEPT ![o].data[k.writable[f]] = v]
        /\ last' = [last EXCEPT ![o][f] = v]
        /\ said' = "fine" /\ made' = made /\ destroying' = destroying /\ gone' = gone
    BY <1>1, <1>3 DEF field_set
  <2>2. /\ phase = "run" /\ klasses' = klasses /\ phase' = phase
        /\ GoodKlasses(klasses') /\ PhaseInv' /\ klasses \in Seq(Klasses)
    BY <1>0, RunFacts
  <2>3. PICK x : x = objects[o]
    OBVIOUS
  <2>4. /\ x = [klass |-> x.klass, data |-> x.data] /\ x.klass \in 1..Len(klasses)
        /\ k = klasses[x.klass] /\ k \in Klasses /\ Apart(k)
        /\ k.obj_size = 1 + k.num_fields + k.cdata_size
    <3>1. IsObject(klasses, x)
      BY <1>0, <2>3 DEF RegInv, ObjInv
    <3>2. x.klass \in 1..Len(klasses) /\ k = klasses[x.klass]
      BY <1>1, <2>3, <3>1 DEF IsObject
    <3>3. k \in Klasses
      BY <2>2, <3>2
    <3>4. Apart(k) /\ k.obj_size = Sized(k)
      BY <2>2, <3>2 DEF RegInv, GoodKlasses, PhaseInv
    <3> QED
      BY <3>1, <3>2, <3>3, <3>4 DEF IsObject, Sized
  <2>5. o \notin gone
    <3> SUFFICES ASSUME o \in gone PROVE FALSE
      OBVIOUS
    <3>1. k.name = "Destroyed"
      BY <1>0, <1>1 DEF RegInv, ObjInv, Absent
    <3> QED
      BY <1>3, <2>4, <3>1 DEF RegInv, GoodKlasses
  <2>6. k.name = "Own" /\ Holds(k, x.data, last[o])
    BY <1>0, <1>1, <2>3, <2>5 DEF RegInv, ObjInv, Present
  <2>7. PICK c : c = [x.data EXCEPT ![k.writable[f]] = v]
    OBVIOUS
  <2>8. PICK l : l = [last[o] EXCEPT ![f] = v]
    OBVIOUS
  <2>9. Holds(k, c, l)
    BY <1>3, <2>4, <2>6, <2>7, <2>8, SetHolds
  <2>10. /\ DOMAIN objects' = DOMAIN objects
         /\ objects'[o] = [x EXCEPT !.data = c]
         /\ \A p \in DOMAIN objects : p # o => objects'[p] = objects[p]
    BY <1>0, <2>1, <2>3, <2>7
  <2>11. PICK y : y = [klass |-> x.klass, data |-> c]
    OBVIOUS
  <2>12. objects'[o] = y
    BY <2>4, <2>10, <2>11
  <2>13. DOMAIN last = DOMAIN objects
    BY DEF RegInv, ObjInv
  <2>14. /\ DOMAIN last' = DOMAIN last /\ last'[o] = l
         /\ \A p \in DOMAIN last : p # o => last'[p] = last[p]
    BY <1>0, <2>1, <2>8, <2>13
  <2>15. IsObject(klasses, y) /\ Present(klasses, y, l)
    <3>1. y.klass = x.klass /\ y.data = c /\ y = [klass |-> y.klass, data |-> y.data]
      BY <2>11
    <3> QED
      BY <2>4, <2>6, <2>9, <3>1 DEF IsObject, Present
  <2>16. ObjInv'
    <3>1. ASSUME NEW p \in DOMAIN objects'
          PROVE  /\ IsObject(klasses, objects'[p])
                 /\ p \in gone => Absent(klasses, objects'[p])
                 /\ p \notin gone => Present(klasses, objects'[p], last'[p])
      <4>1. CASE p = o
        BY <2>5, <2>12, <2>14, <2>15, <4>1
      <4>2. CASE p # o
        <5>1. p \in DOMAIN objects /\ objects'[p] = objects[p] /\ last'[p] = last[p]
          BY <2>10, <2>13, <2>14, <4>2
        <5> QED
          BY <5>1 DEF RegInv, ObjInv
      <4> QED
        BY <4>1, <4>2
    <3>2. /\ gone \in SUBSET DOMAIN objects /\ destroying \in Seq(DOMAIN objects)
      BY DEF RegInv, ObjInv
    <3> QED
      BY <2>1, <2>2, <2>10, <2>13, <2>14, <3>1, <3>2 DEF ObjInv
  <2>17. MadeInv'
    BY <1>0, <2>1, MadeSame
  <2> QED
    BY <2>2, <2>16, <2>17 DEF RegInv
<1> QED
  BY <1>2, <1>3

(* The end of obj_destroy(), for an object of whatever class.               *)
LEMMA MorphStep ==
  ASSUME RegInv, Running, NEW o \in DOMAIN objects, objects' = Morphed(o),
         gone' = gone \union {o}, made' = made, last' = last,
         destroying' \in Seq(DOMAIN objects), said' \notin {"both", "another"}
  PROVE  RegInv'
<1>1. /\ phase = "run" /\ klasses' = klasses /\ phase' = phase /\ "Destroyed" \in Names(klasses)
      /\ GoodKlasses(klasses') /\ PhaseInv' /\ GoodKlasses(klasses)
  BY RunFacts
<1>2. PICK i : i = klass_get("Destroyed")
  OBVIOUS
<1>3. i \in 1..Len(klasses) /\ klasses[i].name = "Destroyed"
  BY <1>1, <1>2, GetFacts
<1>4. PICK c : c = [j \in DOMAIN objects[o].data |-> Nil]
  OBVIOUS
<1>5. PICK x : x = [klass |-> i, data |-> c]
  OBVIOUS
<1>6. objects' = [objects EXCEPT ![o] = x]
  BY <1>2, <1>4, <1>5 DEF Morphed
<1>7. /\ DOMAIN objects' = DOMAIN objects /\ objects'[o] = x
      /\ \A p \in DOMAIN objects : p # o => objects'[p] = objects[p]
  BY <1>6
<1>8. x.klass = i /\ x.data = c /\ x = [klass |-> x.klass, data |-> x.data]
  BY <1>5
<1>9. \A j \in DOMAIN c : c[j] = Nil
  BY <1>4
<1>10. IsObject(klasses, x) /\ Absent(klasses, x)
  BY <1>3, <1>8, <1>9 DEF IsObject, Absent
<1>11. ASSUME NEW p \in DOMAIN objects'
       PROVE  /\ IsObject(klasses, objects'[p])
              /\ p \in gone' => Absent(klasses, objects'[p])
              /\ p \notin gone' => Present(klasses, objects'[p], last[p])
  <2>1. CASE p = o
    BY <1>7, <1>10, <2>1
  <2>2. CASE p # o
    <3>1. p \in DOMAIN objects /\ objects'[p] = objects[p] /\ (p \in gone' <=> p \in gone)
      BY <1>7, <2>2
    <3> QED
      BY <3>1 DEF RegInv, ObjInv
  <2> QED
    BY <2>1, <2>2
<1>12. ObjInv'
  <2>1. gone \in SUBSET DOMAIN objects /\ DOMAIN last = DOMAIN objects
    BY DEF RegInv, ObjInv
  <2> QED
    BY <1>1, <1>7, <1>11, <2>1 DEF ObjInv
<1>13. MadeInv'
  BY MadeSame
<1> QED
  BY <1>1, <1>12, <1>13 DEF RegInv

(* A destructor begins or is left: objects are as they are.                 *)
LEMMA DestroyingStep ==
  ASSUME RegInv, Running, UNCHANGED <<made, objects, last, gone>>,
         destroying' \in Seq(DOMAIN objects), said' \notin {"both", "another"}
  PROVE  RegInv'
<1>1. /\ phase = "run" /\ klasses' = klasses /\ phase' = phase
      /\ GoodKlasses(klasses') /\ PhaseInv'
  BY RunFacts
<1>2. ObjInv'
  BY <1>1 DEF RegInv, ObjInv
<1>3. MadeInv'
  BY MadeSame
<1> QED
  BY <1>1, <1>2, <1>3 DEF RegInv

LEMMA ObjDestroyStep ==
  ASSUME RegInv, NEW o \in Objects, obj_destroy(o)
  PROVE  RegInv'
<1>1. /\ Running /\ o \in DOMAIN objects /\ said' = "fine"
      /\ \/ destroying' = Append(destroying, o) /\ UNCHANGED <<made, objects, last, gone>>
         \/ /\ objects' = Morphed(o) /\ gone' = gone \union {o}
            /\ UNCHANGED <<made, last, destroying>>
  BY DEF obj_destroy
<1>2. destroying \in Seq(DOMAIN objects)
  BY DEF RegInv, ObjInv
<1>3. Append(destroying, o) \in Seq(DOMAIN objects)
  BY <1>1, <1>2
<1> QED
  BY <1>1, <1>2, <1>3, MorphStep, DestroyingStep

LEMMA PrefixOfSeq ==
  ASSUME NEW S, NEW s \in Seq(S), NEW n \in 0..Len(s)
  PROVE  SubSeq(s, 1, n) \in Seq(S)
OBVIOUS

LEMMA DestructedStep ==
  ASSUME RegInv, Destructed
  PROVE  RegInv'
<1>1. destroying \in Seq(DOMAIN objects) /\ destroying # <<>> /\ said # "both" /\ said # "another"
      /\ Running
  BY DEF RegInv, ObjInv, MadeInv, Destructed, Running
<1>2. Len(destroying) \in Nat \ {0}
  BY <1>1
<1>3. PICK o \in DOMAIN objects : o = destroying[Len(destroying)]
  BY <1>1, <1>2
<1>4. /\ objects' = Morphed(o) /\ gone' = gone \union {o} /\ said' = said
      /\ destroying' = SubSeq(destroying, 1, Len(destroying) - 1)
      /\ made' = made /\ last' = last
  BY <1>3 DEF Destructed
<1>5. Len(destroying) - 1 \in 0..Len(destroying)
  BY <1>2
<1>6. destroying' \in Seq(DOMAIN objects)
  BY <1>1, <1>4, <1>5, PrefixOfSeq
<1> QED
  BY <1>1, <1>4, <1>6, MorphStep

LEMMA RaisesStep ==
  ASSUME RegInv, DestructorRaises
  PROVE  RegInv'
<1>1. destroying \in Seq(DOMAIN objects) /\ Running /\ said' = "raised"
      /\ UNCHANGED <<made, objects, last, gone>>
  BY DEF RegInv, ObjInv, DestructorRaises
<1>2. PICK n \in 0..Len(destroying) - 1 : destroying' = SubSeq(destroying, 1, n)
  BY DEF DestructorRaises
<1>3. n \in 0..Len(destroying)
  BY <1>1, <1>2
<1>4. destroying' \in Seq(DOMAIN objects)
  BY <1>1, <1>2, <1>3, PrefixOfSeq
<1> QED
  BY <1>1, <1>4, DestroyingStep

LEMMA RegStep ==
  ASSUME RegInv, [RegNext]_regVars
  PROVE  RegInv'
<1>1. ASSUME NEW m \in Modules, init1a(m) \/ init1b(m) PROVE RegInv'
  BY <1>1, Init1aStep, Init1bStep
<1>2. CASE phase15
  BY <1>2, Phase15Step
<1>3. ASSUME NEW o \in Objects, obj_new(o) \/ obj_destroy(o) PROVE RegInv'
  BY <1>3, ObjNewStep, ObjDestroyStep
<1>4. ASSUME NEW o \in Objects, NEW f \in FieldNames, field_get(o, f) PROVE RegInv'
  BY <1>4, FieldGetStep
<1>5. ASSUME NEW o \in Objects, NEW f \in FieldNames, NEW v \in FieldValues, field_set(o, f, v)
      PROVE  RegInv'
  BY <1>5, FieldSetStep
<1>6. CASE Destructed \/ DestructorRaises
  BY <1>6, DestructedStep, RaisesStep
<1>7. ASSUME NEW n \in Arguments, NEW o \in Objects, method_call(o, n) PROVE RegInv'
  <2>1. Running /\ (Say("raised") \/ Say("fine") \/ Say("method mismatch"))
    BY <1>7 DEF method_call
  <2> QED
    BY <2>1, SayStep
<1>8. ASSUME NEW n \in Arguments, func_call(n) PROVE RegInv'
  <2>1. Running /\ (Say("fine") \/ Say("function mismatch"))
    BY <1>8 DEF func_call
  <2> QED
    BY <2>1, SayStep
<1>9. CASE UNCHANGED regVars
  <2>1. /\ phase' = phase /\ todo' = todo /\ decl' = decl /\ klasses' = klasses /\ made' = made
        /\ objects' = objects /\ last' = last /\ destroying' = destroying /\ gone' = gone
        /\ said' = said
    BY <1>9 DEF regVars
  <2>2. \A m \in Modules : DeclOf(m)' = DeclOf(m)
    BY <2>1 DEF DeclOf
  <2>3. PhaseInv'
    BY <2>1, <2>2 DEF RegInv, PhaseInv
  <2>4. MadeInv' /\ ObjInv'
    BY <2>1 DEF RegInv, MadeInv, ObjInv, ObjectsFit
  <2> QED
    BY <2>1, <2>3, <2>4 DEF RegInv
<1> QED
  BY <1>1, <1>2, <1>3, <1>4, <1>5, <1>6, <1>7, <1>8, <1>9 DEF RegNext

(* The invariant of the classes and objects.                                *)
THEOREM RegInvariance == RegSpec => []RegInv
<1>1. RegInit => RegInv
  BY InitKlasses
<1>2. RegInv /\ [RegNext]_regVars => RegInv'
  BY RegStep
<1> QED
  BY <1>1, <1>2, PTL DEF RegSpec

(* Whatever is allocated, in whatever phase and whatever order the modules  *)
(* come in, has room for the fields and the C data of its class.            *)
THEOREM ObjectsFitCorrect == RegSpec => []ObjectsFit
<1>1. RegInv => ObjectsFit
  BY DEF RegInv, MadeInv
<1> QED
  BY <1>1, RegInvariance, PTL

(* A field is read as it was last written, for any number of fields, with   *)
(* and without virtual accessors, as long as the object is not destroyed.   *)
THEOREM FieldsKeepCorrect == RegSpec => []FieldsKeep
<1>1. RegInv => FieldsKeep
  BY DEF RegInv, ObjInv, Present, Holds, FieldsKeep
<1> QED
  BY <1>1, RegInvariance, PTL

(* An object for which obj_destroy() has returned stays Destroyed, however  *)
(* the calls of destructors nest and whichever of them raise.               *)
THEOREM GoneForGoodCorrect == RegSpec => []GoneForGood
<1>1. RegInv => GoneForGood
  BY DEF RegInv, ObjInv, Absent, GoneForGood
<1> QED
  BY <1>1, RegInvariance, PTL

-----------------------------------------------------------------------------
(***************************************************************************)
(* UTF-8.                                                                  *)
(***************************************************************************)

(* The characters that utf8_write() accepts. *)
Valid == {u \in Nat : utf8_valid(u)}

LEMMA NeedsCases ==
  ASSUME NEW u \in Nat
  PROVE  /\ u <= 127 => utf8_needs(u) = 1
         /\ u > 127 /\ u <= 2047 => utf8_needs(u) = 2
         /\ u > 2047 /\ u <= 65535 => utf8_needs(u) = 3
         /\ u > 65535 => utf8_needs(u) = 4
<1>1. CASE u <= 127
  BY SMT, <1>1 DEF utf8_needs
<1>2. CASE u > 127 /\ u <= 2047
  BY SMT, <1>2 DEF utf8_needs
<1>3. CASE u > 2047 /\ u <= 65535
  BY SMT, <1>3 DEF utf8_needs
<1>4. CASE u > 65535
  BY SMT, <1>4 DEF utf8_needs
<1> QED BY SMT, <1>1, <1>2, <1>3, <1>4

LEMMA NeedsRange ==
  ASSUME NEW u \in Nat
  PROVE  utf8_needs(u) \in 1..4
BY SMT, NeedsCases

(* Groups of six bits. *)
LEMMA Sixes ==
  ASSUME NEW u \in Nat
  PROVE  /\ u \div 64 \in Nat /\ u % 64 \in 0..63 /\ u = 64 * (u \div 64) + (u % 64)
         /\ u \div 4096 \in Nat /\ (u \div 64) % 64 \in 0..63
         /\ u \div 64 = 64 * (u \div 4096) + ((u \div 64) % 64)
         /\ u \div 262144 \in Nat /\ (u \div 4096) % 64 \in 0..63
         /\ u \div 4096 = 64 * (u \div 262144) + ((u \div 4096) % 64)
<1>1. u \div 64 \in Nat /\ u % 64 \in 0..63 /\ u = 64 * (u \div 64) + (u % 64)
  BY SMT
<1>2. PICK a \in Nat : a = u \div 64
  BY SMT, <1>1
<1>3. a \div 64 \in Nat /\ a % 64 \in 0..63 /\ a = 64 * (a \div 64) + (a % 64)
  BY SMT
<1>4. PICK b \in Nat : b = a \div 64
  BY SMT, <1>3
<1>5. b = u \div 4096
  <2>1. 4096 * b <= u /\ u < 4096 * b + 4096
    BY SMT, <1>1, <1>2, <1>3, <1>4
  <2> QED BY SMT, <2>1
<1>6. b \div 64 \in Nat /\ b % 64 \in 0..63 /\ b = 64 * (b \div 64) + (b % 64)
  BY SMT
<1>7. PICK d \in Nat : d = b \div 64
  BY SMT, <1>6
<1>8. d = u \div 262144
  <2>1. 262144 * d <= u /\ u < 262144 * d + 262144
    BY SMT, <1>1, <1>2, <1>3, <1>4, <1>6, <1>7
  <2> QED BY SMT, <2>1
<1> QED BY SMT, <1>1, <1>2, <1>3, <1>4, <1>5, <1>6, <1>7, <1>8

LEMMA ValidNat ==
  ASSUME NEW u \in Valid
  PROVE  u \in Nat /\ u <= 1114111
BY SMT DEF Valid, utf8_valid

(* What Decoding() makes of octets that follow each other. *)
OfTwo(c, d)         == (c % 32) * 64 + (d % 64)
OfThree(c, d, e)    == (c % 16) * 4096 + (d % 64) * 64 + (e % 64)
OfFour(c, d, e, f)  == (c % 8) * 262144 + (d % 64) * 4096 + (e % 64) * 64 + (f % 64)

(* The octets of a character and what the first of them says of it. *)
IsTwo(u, c, d) ==
  /\ Encoding(u) = <<c, d>>
  /\ LengthOf(c) = 2 /\ ~utf8_in_middle(c) /\ utf8_in_middle(d)
  /\ OfTwo(c, d) = u

IsThree(u, c, d, e) ==
  /\ Encoding(u) = <<c, d, e>>
  /\ LengthOf(c) = 3 /\ ~utf8_in_middle(c) /\ utf8_in_middle(d) /\ utf8_in_middle(e)
  /\ OfThree(c, d, e) = u

IsFour(u, c, d, e, f) ==
  /\ Encoding(u) = <<c, d, e, f>>
  /\ LengthOf(c) = 4 /\ ~utf8_in_middle(c)
  /\ utf8_in_middle(d) /\ utf8_in_middle(e) /\ utf8_in_middle(f)
  /\ OfFour(c, d, e, f) = u

LEMMA EncodingOne ==
  ASSUME NEW u \in Valid, utf8_needs(u) = 1
  PROVE  /\ Encoding(u) = <<u>>
         /\ u \in 0..255 /\ LengthOf(u) = 1 /\ ~utf8_in_middle(u)
<1>0. u \in Nat
  BY SMT, ValidNat
<1>1. u \in 0..127
  BY SMT, <1>0, NeedsCases
<1>2. u % 256 = u
  BY SMT, <1>1
<1> QED BY SMT, <1>1, <1>2 DEF Encoding, LengthOf, utf8_in_middle

LEMMA EncodingTwo ==
  ASSUME NEW u \in Valid, utf8_needs(u) = 2
  PROVE  \E c, d \in 0..255 : IsTwo(u, c, d)
<1>0. u \in Nat
  BY SMT, ValidNat
<1>1. u > 127 /\ u <= 2047
  BY SMT, <1>0, NeedsCases
<1>2a. PICK y \in 0..63 : y = (u \div 64) % 64
  BY SMT, <1>0, Sixes
<1>2b. PICK z \in 0..63 : z = u % 64
  BY SMT, <1>0, Sixes
<1>3. y <= 31 /\ y * 64 + z = u
  BY SMT, <1>0, <1>1, <1>2a, <1>2b, Sixes
<1>4a. PICK c \in 0..255 : c = 192 + y
  BY SMT, <1>3
<1>4b. PICK d \in 0..255 : d = 128 + z
  BY SMT
<1>5. y % 32 = y /\ c % 32 = y /\ d % 64 = z
  BY SMT, <1>3, <1>4a, <1>4b
<1>6. LengthOf(c) = 2 /\ ~utf8_in_middle(c) /\ utf8_in_middle(d)
  BY SMT, <1>3, <1>4a, <1>4b DEF LengthOf, utf8_in_middle
<1>7. Encoding(u) = <<c, d>>
  BY SMT, <1>2a, <1>2b, <1>4a, <1>4b, <1>5 DEF Encoding
<1>8. OfTwo(c, d) = u
  BY SMT, <1>3, <1>5 DEF OfTwo
<1>9. IsTwo(u, c, d)
  BY <1>6, <1>7, <1>8 DEF IsTwo
<1> QED BY <1>9

LEMMA EncodingThree ==
  ASSUME NEW u \in Valid, utf8_needs(u) = 3
  PROVE  \E c, d, e \in 0..255 : IsThree(u, c, d, e)
<1>0. u \in Nat
  BY SMT, ValidNat
<1>1. u > 2047 /\ u <= 65535
  <2>1. ~(u <= 127) /\ ~(u > 127 /\ u <= 2047) /\ ~(u > 65535)
    BY SMT, <1>0, NeedsCases
  <2> QED BY SMT, <1>0, <2>1
<1>2a. PICK x \in 0..63 : x = (u \div 4096) % 64
  BY SMT, <1>0, Sixes
<1>2b. PICK y \in 0..63 : y = (u \div 64) % 64
  BY SMT, <1>0, Sixes
<1>2c. PICK z \in 0..63 : z = u % 64
  BY SMT, <1>0, Sixes
<1>3. u \div 4096 \in 0..15
  BY SMT, <1>0, <1>1
<1>4. x = u \div 4096
  BY SMT, <1>2a, <1>2b, <1>2c, <1>3
<1>5. x <= 15 /\ x * 4096 + y * 64 + z = u
  BY SMT, <1>0, <1>2a, <1>2b, <1>2c, <1>3, <1>4, Sixes
<1>7a. PICK c \in 0..255 : c = 224 + x
  BY SMT, <1>5
<1>7b. PICK d \in 0..255 : d = 128 + y
  BY SMT
<1>7c. PICK e \in 0..255 : e = 128 + z
  BY SMT
<1>10. x % 16 = x /\ c % 16 = x /\ d % 64 = y /\ e % 64 = z
  BY SMT, <1>5, <1>7a, <1>7b, <1>7c
<1>11. LengthOf(c) = 3 /\ ~utf8_in_middle(c)
  BY SMT, <1>5, <1>7a, <1>7b, <1>7c DEF LengthOf, utf8_in_middle
<1>12. utf8_in_middle(d) /\ utf8_in_middle(e)
  BY SMT, <1>7a, <1>7b, <1>7c DEF utf8_in_middle
<1>13. Encoding(u) = <<c, d, e>>
  BY SMT, <1>2a, <1>2b, <1>2c, <1>7a, <1>7b, <1>7c, <1>10 DEF Encoding
<1>14. OfThree(c, d, e) = u
  BY SMT, <1>5, <1>10 DEF OfThree
<1>15. IsThree(u, c, d, e)
  BY <1>11, <1>12, <1>13, <1>14 DEF IsThree
<1> WITNESS c \in 0..255, d \in 0..255, e \in 0..255
<1> QED BY <1>15

LEMMA EncodingFour ==
  ASSUME NEW u \in Valid, utf8_needs(u) = 4
  PROVE  \E c, d, e, f \in 0..255 : IsFour(u, c, d, e, f)
<1>0. u \in Nat /\ u <= 1114111
  BY SMT, ValidNat
<1>2a. PICK x \in 0..63 : x = (u \div 4096) % 64
  BY SMT, <1>0, Sixes
<1>2b. PICK y \in 0..63 : y = (u \div 64) % 64
  BY SMT, <1>0, Sixes
<1>2c. PICK z \in 0..63 : z = u % 64
  BY SMT, <1>0, Sixes
<1>3. PICK w \in 0..7 : w = u \div 262144
  BY SMT, <1>0
<1>4. w = (u \div 262144) % 8
  BY SMT, <1>3
<1>5. w * 262144 + x * 4096 + y * 64 + z = u
  BY SMT, <1>0, <1>2a, <1>2b, <1>2c, <1>3, Sixes
<1>7a. PICK c \in 0..255 : c = 240 + w
  BY SMT
<1>7b. PICK d \in 0..255 : d = 128 + x
  BY SMT
<1>7c. PICK e \in 0..255 : e = 128 + y
  BY SMT
<1>7d. PICK f \in 0..255 : f = 128 + z
  BY SMT
<1>11. c % 8 = w /\ d % 64 = x /\ e % 64 = y /\ f % 64 = z
  BY SMT, <1>7a, <1>7b, <1>7c, <1>7d
<1>12. LengthOf(c) = 4 /\ ~utf8_in_middle(c)
  BY SMT, <1>7a, <1>7b, <1>7c, <1>7d DEF LengthOf, utf8_in_middle
<1>13. utf8_in_middle(d) /\ utf8_in_middle(e) /\ utf8_in_middle(f)
  BY SMT, <1>7a, <1>7b, <1>7c, <1>7d DEF utf8_in_middle
<1>14. Encoding(u) = <<c, d, e, f>>
  BY SMT, <1>2a, <1>2b, <1>2c, <1>4, <1>7a, <1>7b, <1>7c, <1>7d DEF Encoding
<1>15. OfFour(c, d, e, f) = u
  BY SMT, <1>5, <1>11 DEF OfFour
<1>16. IsFour(u, c, d, e, f)
  BY <1>12, <1>13, <1>14, <1>15 DEF IsFour
<1> WITNESS c \in 0..255, d \in 0..255, e \in 0..255, f \in 0..255
<1> QED BY <1>16

LEMMA Encoded ==
  ASSUME NEW u \in Valid
  PROVE  /\ Encoding(u) \in Seq(0..255) /\ Len(Encoding(u)) = utf8_needs(u)
         /\ utf8_needs(u) \in 1..4
         /\ LengthOf(Encoding(u)[1]) = utf8_needs(u) /\ ~utf8_in_middle(Encoding(u)[1])
         /\ \A j \in 2..utf8_needs(u) : utf8_in_middle(Encoding(u)[j])
<1>0. u \in Nat
  BY SMT, ValidNat
<1>1. utf8_needs(u) \in 1..4
  BY <1>0, NeedsRange
<1>2. CASE utf8_needs(u) = 1
  <2>1. Encoding(u) = <<u>> /\ u \in 0..255 /\ LengthOf(u) = 1 /\ ~utf8_in_middle(u)
    BY <1>2, EncodingOne
  <2>2. Len(Encoding(u)) = 1 /\ Encoding(u)[1] = u
    BY SMT, <2>1
  <2>3. Encoding(u) \in Seq(0..255)
    BY SMT, <2>1
  <2>4. \A j \in 2..utf8_needs(u) : FALSE
    BY SMT, <1>2
  <2> QED BY <1>1, <1>2, <2>1, <2>2, <2>3, <2>4
<1>3. CASE utf8_needs(u) = 2
  <2>1. PICK c, d \in 0..255 : IsTwo(u, c, d)
    BY <1>3, EncodingTwo
  <2> QED BY SMT, <1>3, <2>1 DEF IsTwo
<1>4. CASE utf8_needs(u) = 3
  <2>1. PICK c, d, e \in 0..255 : IsThree(u, c, d, e)
    BY <1>4, EncodingThree
  <2> QED BY SMT, <1>4, <2>1 DEF IsThree
<1>5. CASE utf8_needs(u) = 4
  <2>1. PICK c, d, e, f \in 0..255 : IsFour(u, c, d, e, f)
    BY <1>5, EncodingFour
  <2> QED BY SMT, <1>5, <2>1 DEF IsFour
<1> QED BY SMT, <1>1, <1>2, <1>3, <1>4, <1>5

(* The character u stands in memory os from place s on. *)
Laid(os, u, s) ==
  /\ u \in Valid /\ s \in Nat /\ 1 <= s /\ s + utf8_needs(u) - 1 <= Len(os)
  /\ \A q \in s..s + utf8_needs(u) - 1 : os[q] = Encoding(u)[q - s + 1]

(* Where it stands it is read back. *)
LEMMA DecodingLaid ==
  ASSUME NEW u, NEW s, octets \in Seq(0..255), Laid(octets, u, s)
  PROVE  Decoding(s, utf8_needs(u)) = u
<1>1. u \in Valid /\ u \in Nat /\ s \in Nat /\ utf8_needs(u) \in 1..4
  BY SMT, ValidNat, Encoded DEF Laid
<1>2. \A j \in 0..utf8_needs(u) - 1 : octets[s + j] = Encoding(u)[j + 1]
  <2> TAKE j \in 0..utf8_needs(u) - 1
  <2>1. PICK q \in s..s + utf8_needs(u) - 1 : q = s + j
    BY SMT, <1>1
  <2>2. octets[q] = Encoding(u)[q - s + 1]
    BY SMT DEF Laid
  <2>3. q - s + 1 = j + 1
    BY SMT, <1>1, <2>1
  <2> QED BY <2>1, <2>2, <2>3
<1>3. octets[s] = Encoding(u)[1]
  BY SMT, <1>1 DEF Laid
<1>4. CASE utf8_needs(u) = 1
  BY SMT, <1>1, <1>3, <1>4, EncodingOne DEF Decoding
<1>5. CASE utf8_needs(u) = 2
  <2>1. PICK c, d \in 0..255 : IsTwo(u, c, d)
    BY <1>1, <1>5, EncodingTwo
  <2>2. octets[s] = c /\ octets[s + 1] = d
    BY SMT, <1>2, <1>3, <1>5, <2>1 DEF IsTwo
  <2>3. Decoding(s, utf8_needs(u)) = OfTwo(c, d)
    BY SMT, <1>5, <2>2 DEF Decoding, OfTwo
  <2> QED BY <2>1, <2>3 DEF IsTwo
<1>6. CASE utf8_needs(u) = 3
  <2>1. PICK c, d, e \in 0..255 : IsThree(u, c, d, e)
    BY <1>1, <1>6, EncodingThree
  <2>2. octets[s] = c /\ octets[s + 1] = d /\ octets[s + 2] = e
    BY SMT, <1>2, <1>3, <1>6, <2>1 DEF IsThree
  <2>3. Decoding(s, utf8_needs(u)) = OfThree(c, d, e)
    BY SMT, <1>6, <2>2 DEF Decoding, OfThree
  <2> QED BY <2>1, <2>3 DEF IsThree
<1>7. CASE utf8_needs(u) = 4
  <2>1. PICK c, d, e, f \in 0..255 : IsFour(u, c, d, e, f)
    BY <1>1, <1>7, EncodingFour
  <2>2. octets[s] = c /\ octets[s + 1] = d /\ octets[s + 2] = e /\ octets[s + 3] = f
    BY SMT, <1>2, <1>3, <1>7, <2>1 DEF IsFour
  <2>3. Decoding(s, utf8_needs(u)) = OfFour(c, d, e, f)
    BY SMT, <1>7, <2>2 DEF Decoding, OfFour
  <2> QED BY <2>1, <2>3 DEF IsFour
<1> QED BY SMT, <1>1, <1>4, <1>5, <1>6, <1>7

(* The characters ws stand in memory os, from the places ss on, one after   *)
(* the other, and no octet is left over.                                    *)
Layout(os, ws, ss) ==
  /\ os \in Seq(0..255) /\ ws \in Seq(Valid) /\ ss \in Seq(Nat) /\ Len(ss) = Len(ws)
  /\ \A i \in 1..Len(ws) : Laid(os, ws[i], ss[i])
  /\ \A i, k \in 1..Len(ws) : i < k => ss[i] + utf8_needs(ws[i]) <= ss[k]
  /\ \A p \in 1..Len(os) :
       \E i \in 1..Len(ws) : ss[i] <= p /\ p <= ss[i] + utf8_needs(ws[i]) - 1

LEMMA LaidFacts ==
  ASSUME NEW os, NEW ws, NEW ss, Layout(os, ws, ss), NEW i \in 1..Len(ws)
  PROVE  /\ ws[i] \in Valid /\ ws[i] \in Nat /\ ss[i] \in Nat /\ 1 <= ss[i]
         /\ utf8_needs(ws[i]) \in 1..4 /\ ss[i] + utf8_needs(ws[i]) - 1 <= Len(os)
<1>1. Laid(os, ws[i], ss[i])
  BY DEF Layout
<1>2. ws[i] \in Valid
  BY <1>1 DEF Laid
<1>3. ws[i] \in Nat
  BY SMT, <1>2, ValidNat
<1>4. utf8_needs(ws[i]) \in 1..4
  BY <1>2, Encoded
<1> QED BY <1>1, <1>2, <1>3, <1>4 DEF Laid

LEMMA LayoutAppend ==
  ASSUME NEW os, NEW ws, NEW ss, Layout(os, ws, ss), NEW u \in Valid
  PROVE  Layout(os \o Encoding(u), Append(ws, u), Append(ss, Len(os) + 1))
<1> DEFINE e   == Encoding(u)
           n   == utf8_needs(u)
           os2 == os \o e
           ws2 == Append(ws, u)
           ss2 == Append(ss, Len(os) + 1)
           l   == Len(ws)
<1>1. e \in Seq(0..255) /\ Len(e) = n /\ n \in 1..4
  BY Encoded
<1>2. os \in Seq(0..255) /\ ws \in Seq(Valid) /\ ss \in Seq(Nat) /\ Len(ss) = l
  BY DEF Layout
<1>3. Len(os) \in Nat /\ l \in Nat
  BY <1>2
<1>4. os2 \in Seq(0..255) /\ Len(os2) = Len(os) + n
  BY <1>1, <1>2
<1>5. ws2 \in Seq(Valid) /\ Len(ws2) = l + 1 /\ ws2[l + 1] = u
  BY <1>2
<1>6. ss2 \in Seq(Nat) /\ Len(ss2) = l + 1 /\ ss2[l + 1] = Len(os) + 1
  BY <1>2, <1>3
<1>7. \A i \in 1..l : ws2[i] = ws[i] /\ ss2[i] = ss[i]
  BY <1>2
<1>8. \A q \in 1..Len(os) : os2[q] = os[q]
  BY <1>1, <1>2
<1>9. \A q \in Len(os) + 1..Len(os) + n : os2[q] = e[q - (Len(os) + 1) + 1]
  <2> TAKE q \in Len(os) + 1..Len(os) + n
  <2>1. os2[q] = e[q - Len(os)]
    BY <1>1, <1>2, <1>3
  <2>2. q - Len(os) = q - (Len(os) + 1) + 1
    BY <1>1, <1>3
  <2> QED BY <2>1, <2>2
<1> HIDE DEF e, n, os2, ws2, ss2, l
<1>10. \A i \in 1..l : Laid(os2, ws2[i], ss2[i])
  <2> TAKE i \in 1..l
  <2>1. Laid(os, ws[i], ss[i])
    BY DEF Layout, l
  <2>2. ws2[i] = ws[i] /\ ss2[i] = ss[i]
    BY <1>7
  <2>3. ws[i] \in Valid /\ ss[i] \in Nat /\ 1 <= ss[i] /\ ss[i] + utf8_needs(ws[i]) - 1 <= Len(os)
        /\ utf8_needs(ws[i]) \in 1..4
    BY <2>1, Encoded DEF Laid
  <2>4. ss[i] + utf8_needs(ws[i]) - 1 <= Len(os2)
    BY <1>1, <1>3, <1>4, <2>3
  <2>5. \A q \in ss[i]..ss[i] + utf8_needs(ws[i]) - 1 : os2[q] = Encoding(ws[i])[q - ss[i] + 1]
    <3> TAKE q \in ss[i]..ss[i] + utf8_needs(ws[i]) - 1
    <3>1. q \in 1..Len(os)
      BY <1>3, <2>3
    <3>2. os[q] = Encoding(ws[i])[q - ss[i] + 1]
      BY <2>1 DEF Laid
    <3> QED BY <1>8, <3>1, <3>2
  <2>6. Laid(os2, ws[i], ss[i])
    BY <2>3, <2>4, <2>5 DEF Laid
  <2> QED BY <2>2, <2>6
<1>11. Laid(os2, u, Len(os) + 1)
  <2>1. Len(os) + 1 + n - 1 = Len(os) + n
    BY <1>1, <1>3
  <2> QED BY <1>1, <1>3, <1>4, <1>9, <2>1 DEF Laid, n, e
<1>12. \A i \in 1..l + 1 : Laid(os2, ws2[i], ss2[i])
  <2> TAKE i \in 1..l + 1
  <2>1. CASE i = l + 1
    BY <1>5, <1>6, <1>11, <2>1
  <2>2. CASE i # l + 1
    BY <1>3, <1>10, <2>2
  <2> QED BY <2>1, <2>2
<1>13. \A i, k \in 1..l + 1 : i < k => ss2[i] + utf8_needs(ws2[i]) <= ss2[k]
  <2> TAKE i, k \in 1..l + 1
  <2> HAVE i < k
  <2>1. i \in 1..l /\ ss2[i] = ss[i] /\ ws2[i] = ws[i]
    BY <1>3, <1>7
  <2>2. ss[i] \in Nat /\ utf8_needs(ws[i]) \in 1..4 /\ ss[i] + utf8_needs(ws[i]) - 1 <= Len(os)
    BY <2>1, LaidFacts DEF l
  <2>3. CASE k = l + 1
    <3>1. ss2[k] = Len(os) + 1
      BY <1>6, <2>3
    <3> QED BY <1>3, <2>1, <2>2, <3>1
  <2>4. CASE k # l + 1
    <3>1. k \in 1..l /\ ss2[k] = ss[k]
      BY <1>3, <1>7, <2>4
    <3>2. ss[i] + utf8_needs(ws[i]) <= ss[k]
      BY <2>1, <3>1 DEF Layout, l
    <3> QED BY <2>1, <3>1, <3>2
  <2> QED BY <2>3, <2>4
<1>14. \A p \in 1..Len(os2) :
         \E i \in 1..l + 1 : ss2[i] <= p /\ p <= ss2[i] + utf8_needs(ws2[i]) - 1
  <2> TAKE p \in 1..Len(os2)
  <2>1. CASE p \in 1..Len(os)
    <3>1. PICK i \in 1..l : ss[i] <= p /\ p <= ss[i] + utf8_needs(ws[i]) - 1
      BY <2>1 DEF Layout, l
    <3>2. i \in 1..l + 1 /\ ss2[i] = ss[i] /\ ws2[i] = ws[i]
      BY <1>3, <1>7
    <3> QED BY <3>1, <3>2
  <2>2. CASE p \notin 1..Len(os)
    <3>1. Len(os) + 1 <= p /\ p <= Len(os) + n /\ l + 1 \in 1..l + 1
      BY <1>1, <1>3, <1>4, <2>2
    <3>2. p <= Len(os) + 1 + n - 1
      BY <1>1, <1>3, <3>1
    <3> QED BY <1>5, <1>6, <3>1, <3>2 DEF n
  <2> QED BY <2>1, <2>2
<1>15. Layout(os2, ws2, ss2)
  BY <1>4, <1>5, <1>6, <1>12, <1>13, <1>14 DEF Layout
<1> QED BY <1>15 DEF os2, ws2, ss2, e

(* The last character that was read is the i-th, and the ones before it     *)
(* were read before it.                                                     *)
Follows(rs, ws, i) ==
  /\ Len(rs) <= i
  /\ \A j \in 1..Len(rs) : rs[j] = ws[i - Len(rs) + j]

(* Reading has come to the end of a character, or is where it began. *)
Reading(rs, ws, ss, p) ==
  rs # <<>> => \E i \in 1..Len(ws) : Follows(rs, ws, i) /\ p = ss[i] + utf8_needs(ws[i])

(* No character begins at place p. *)
NoStart(ss, p) == \A i \in 1..Len(ss) : ss[i] # p

(* Why reading has stopped. *)
Stopped(st, ws, ss, p, lim) ==
  /\ st \in {"OK", "LIMITED", "SEEK"}
  /\ st = "SEEK" => p <= lim /\ NoStart(ss, p)
  /\ st = "LIMITED" => /\ p <= lim => ~NoStart(ss, p)
                       /\ \A i \in 1..Len(ws) : ss[i] >= p => ss[i] + utf8_needs(ws[i]) - 1 > lim

TextInv ==
  /\ octets \in Seq(0..255) /\ read \in Seq(Nat) /\ pos \in Nat /\ 1 <= pos /\ limit \in Nat
  /\ doing \in {"write", "read", "foreign"}
  /\ doing = "write" => read = <<>> /\ pos = 1
  /\ doing # "foreign" => Layout(octets, written, starts)
  /\ doing = "read" =>
       /\ limit <= Len(octets)
       /\ Reading(read, written, starts, pos)
       /\ Stopped(status, written, starts, pos, limit)
  /\ doing = "foreign" => limit = Len(octets) /\ Len(read) = Cardinality(Begun(pos))
  /\ read # <<>> => pos - 1 <= limit

LEMMA TextInitInv == TextInit => TextInv
<1> SUFFICES ASSUME TextInit PROVE TextInv
  OBVIOUS
<1>1. octets = <<>> /\ written = <<>> /\ starts = <<>> /\ read = <<>> /\ doing = "write"
      /\ pos = 1 /\ limit = Memory /\ Memory \in Nat
  BY TextAssumption DEF TextInit
<1>2. octets \in Seq(0..255) /\ written \in Seq(Valid) /\ starts \in Seq(Nat) /\ read \in Seq(Nat)
      /\ Len(octets) = 0 /\ Len(written) = 0 /\ Len(starts) = 0
  BY <1>1
<1>3. Layout(octets, written, starts)
  BY <1>2 DEF Layout
<1> QED BY <1>1, <1>2, <1>3 DEF TextInv

LEMMA WriteInv ==
  ASSUME TextInv, NEW u \in Unichars, utf8_write(u)
  PROVE  TextInv'
<1>1. doing = "write" /\ doing' = "write" /\ pos' = pos /\ limit' = limit /\ read' = read
  BY DEF utf8_write
<1>2. read = <<>> /\ pos = 1 /\ Layout(octets, written, starts) /\ octets \in Seq(0..255)
      /\ read \in Seq(Nat) /\ limit \in Nat
  BY <1>1 DEF TextInv
<1>3. Layout(octets', written', starts')
  <2>1. CASE octets' = octets /\ written' = written /\ starts' = starts
    BY <1>2, <2>1
  <2>2. CASE /\ utf8_valid(u) /\ octets' = octets \o Encoding(u)
             /\ written' = Append(written, u) /\ starts' = Append(starts, Len(octets) + 1)
    <3>1. u \in Valid
      BY <2>2, TextAssumption DEF Valid
    <3> QED BY <1>2, <2>2, <3>1, LayoutAppend
  <2> QED BY <2>1, <2>2 DEF utf8_write
<1>4. octets' \in Seq(0..255)
  BY <1>3 DEF Layout
<1> QED BY <1>1, <1>2, <1>3, <1>4 DEF TextInv

LEMMA RewindInv ==
  ASSUME TextInv, NEW from \in 1..Memory, NEW to \in 0..Memory, Rewind(from, to)
  PROVE  TextInv'
<1>1. /\ doing = "write" /\ doing' = "read" /\ pos' = from /\ limit' = to /\ status' = "OK"
      /\ octets' = octets /\ written' = written /\ starts' = starts /\ read' = read
      /\ from \in 1..Len(octets) /\ to \in 0..Len(octets)
  BY DEF Rewind
<1>2. read = <<>> /\ Layout(octets, written, starts) /\ octets \in Seq(0..255)
      /\ read \in Seq(Nat) /\ Len(octets) \in Nat
  BY <1>1 DEF TextInv
<1>3. pos' \in Nat /\ 1 <= pos' /\ limit' \in Nat /\ limit' <= Len(octets')
  BY <1>1, <1>2
<1>4. Reading(read', written', starts', pos')
  BY <1>1, <1>2 DEF Reading
<1>5. Stopped(status', written', starts', pos', limit')
  BY <1>1 DEF Stopped
<1> QED BY <1>1, <1>2, <1>3, <1>4, <1>5 DEF TextInv

LEMMA ForeignInv ==
  ASSUME TextInv, NEW n \in 1..3, NEW text \in [1..n -> Octets], Foreign(n, text)
  PROVE  TextInv'
<1>1. /\ doing = "write" /\ doing' = "foreign" /\ octets' = text /\ limit' = n
      /\ pos' = pos /\ read' = read
  BY DEF Foreign
<1>2. read = <<>> /\ pos = 1 /\ read \in Seq(Nat)
  BY <1>1 DEF TextInv
<1>3. text \in Seq(0..255) /\ Len(text) = n
  <2>1. n \in Nat /\ DOMAIN text = 1..n
    OBVIOUS
  <2>2. \A i \in 1..n : text[i] \in 0..255
    <3> TAKE i \in 1..n
    <3>1. text[i] \in Octets
      OBVIOUS
    <3> QED BY <3>1, TextAssumption
  <2>3. text = [i \in 1..n |-> text[i]]
    OBVIOUS
  <2> QED BY <2>1, <2>2, <2>3
<1>4. Begun(pos)' = {}
  BY <1>1, <1>2 DEF Begun
<1>5. Len(read') = Cardinality(Begun(pos)')
  BY <1>1, <1>2, <1>4, FS_EmptySet
<1> QED BY <1>1, <1>2, <1>3, <1>5 DEF TextInv

(* At the start of a character utf8_read() reads it, unless the limit cuts  *)
(* it; inside of one it gives up.                                           *)
LEMMA AtStart ==
  ASSUME Layout(octets, written, starts), NEW i \in 1..Len(written), pos = starts[i],
         limit \in Nat, limit <= Len(octets), pos <= limit
  PROVE  /\ LengthOf(octets[pos]) = utf8_needs(written[i])
         /\ Verdict = IF pos + utf8_needs(written[i]) - 1 > limit THEN "LIMITED" ELSE "OK"
<1> DEFINE u == written[i]
           n == utf8_needs(u)
<1>1. Laid(octets, u, pos)
  BY DEF Layout
<1>2. u \in Valid /\ pos \in Nat /\ 1 <= pos /\ n \in 1..4 /\ pos + n - 1 <= Len(octets)
  BY LaidFacts
<1>3. LengthOf(Encoding(u)[1]) = n /\ ~utf8_in_middle(Encoding(u)[1])
      /\ \A j \in 2..n : utf8_in_middle(Encoding(u)[j])
  BY <1>2, Encoded
<1> HIDE DEF u, n
<1>4. \A q \in pos..pos + n - 1 : octets[q] = Encoding(u)[q - pos + 1]
  BY <1>1 DEF Laid, n
<1>5. octets[pos] = Encoding(u)[1]
  <2>1. pos \in pos..pos + n - 1 /\ pos - pos + 1 = 1
    BY <1>2
  <2>2. octets[pos] = Encoding(u)[pos - pos + 1]
    BY <1>4, <2>1
  <2> QED BY <2>1, <2>2
<1>6. LengthOf(octets[pos]) = n /\ ~utf8_in_middle(octets[pos])
  BY <1>3, <1>5
<1>7. Continued(pos, n)
  <2> SUFFICES ASSUME NEW j \in 1..n - 1 PROVE utf8_in_middle(octets[pos + j])
    BY DEF Continued
  <2>1. PICK q \in pos..pos + n - 1 : q = pos + j
    BY <1>2
  <2>2. q - pos + 1 = j + 1 /\ j + 1 \in 2..n
    BY <1>2, <2>1
  <2>3. octets[q] = Encoding(u)[q - pos + 1]
    BY <1>4
  <2> QED BY <1>3, <2>1, <2>2, <2>3
<1>8. n # 0 /\ ~(pos > limit)
  BY <1>2
<1>9. Verdict = IF pos + n - 1 > limit THEN "LIMITED" ELSE "OK"
  BY <1>6, <1>7, <1>8 DEF Verdict
<1> QED BY <1>6, <1>9 DEF n, u

LEMMA AtMiddle ==
  ASSUME Layout(octets, written, starts), NEW i \in 1..Len(written),
         pos \in Nat, starts[i] < pos, pos <= starts[i] + utf8_needs(written[i]) - 1,
         limit \in Nat, pos <= limit
  PROVE  Verdict = "SEEK" /\ NoStart(starts, pos)
<1> DEFINE u == written[i]
           n == utf8_needs(u)
           s == starts[i]
<1>1. Laid(octets, u, s)
  BY DEF Layout
<1>2. u \in Valid /\ s \in Nat /\ n \in 1..4
  BY LaidFacts
<1>3. \A j \in 2..n : utf8_in_middle(Encoding(u)[j])
  BY <1>2, Encoded
<1>4. s < pos /\ pos <= s + n - 1
  OBVIOUS
<1>5. NoStart(starts, pos)
  <2>0. Len(starts) = Len(written)
    BY DEF Layout
  <2> SUFFICES ASSUME NEW k \in 1..Len(written), starts[k] = pos PROVE FALSE
    BY <2>0 DEF NoStart
  <2>1. starts[k] \in Nat /\ utf8_needs(written[k]) \in 1..4
    BY LaidFacts
  <2>2. CASE k < i
    <3>1. starts[k] + utf8_needs(written[k]) <= starts[i]
      BY <2>2 DEF Layout
    <3> QED BY <1>2, <1>4, <2>1, <3>1
  <2>3. CASE i < k
    <3>1. starts[i] + utf8_needs(written[i]) <= starts[k]
      BY <2>3 DEF Layout
    <3> QED BY <1>2, <1>4, <2>1, <3>1
  <2>4. CASE i = k
    BY <1>2, <1>4, <2>4
  <2> QED BY <2>2, <2>3, <2>4
<1> HIDE DEF u, n, s
<1>6. pos \in s..s + n - 1 /\ pos - s + 1 \in 2..n
  BY <1>2, <1>4
<1>7. octets[pos] = Encoding(u)[pos - s + 1]
  BY <1>1, <1>6 DEF Laid, n
<1>8. utf8_in_middle(octets[pos])
  BY <1>3, <1>6, <1>7
<1> QED BY <1>5, <1>8 DEF Verdict

LEMMA DecodingNat ==
  ASSUME octets \in Seq(0..255), NEW p \in Nat, NEW n \in 1..4, 1 <= p, p + n - 1 <= Len(octets)
  PROVE  Decoding(p, n) \in Nat
<1>1. \A q \in 1..Len(octets) : octets[q] \in 0..255
  BY ElementOfSeq
<1>2. octets[p] \in 0..255
  BY SMT, <1>1
<1>3. n > 1 => octets[p + 1] \in 0..255
  BY SMT, <1>1
<1>4. n > 2 => octets[p + 2] \in 0..255
  BY SMT, <1>1
<1>5. n > 3 => octets[p + 3] \in 0..255
  BY SMT, <1>1
<1>6. PICK c \in 0..255 : c = octets[p]
  BY <1>2
<1>7. CASE n = 1
  <2>1. Decoding(p, n) = octets[p]
    BY SMT, <1>7 DEF Decoding
  <2>2. c \in Nat
    OBVIOUS
  <2> QED BY <1>6, <2>1, <2>2
<1>8. CASE n = 2
  <2>1. PICK d \in 0..255 : d = octets[p + 1]
    BY <1>3, <1>8
  <2>2. Decoding(p, n) = OfTwo(c, d)
    BY SMT, <1>6, <1>8, <2>1 DEF Decoding, OfTwo
  <2>3. OfTwo(c, d) \in Nat
    BY SMT DEF OfTwo
  <2> QED BY <2>2, <2>3
<1>9. CASE n = 3
  <2>1. PICK d \in 0..255 : d = octets[p + 1]
    BY <1>3, <1>9
  <2>2. PICK e \in 0..255 : e = octets[p + 2]
    BY <1>4, <1>9
  <2>3. Decoding(p, n) = OfThree(c, d, e)
    BY SMT, <1>6, <1>9, <2>1, <2>2 DEF Decoding, OfThree
  <2>4. OfThree(c, d, e) \in Nat
    BY SMT DEF OfThree
  <2> QED BY <2>3, <2>4
<1>10. CASE n = 4
  <2>1. PICK d \in 0..255 : d = octets[p + 1]
    BY <1>3, <1>10
  <2>2. PICK e \in 0..255 : e = octets[p + 2]
    BY <1>4, <1>10
  <2>3. PICK f \in 0..255 : f = octets[p + 3]
    BY <1>5, <1>10
  <2>4. Decoding(p, n) = OfFour(c, d, e, f)
    BY SMT, <1>6, <1>10, <2>1, <2>2, <2>3 DEF Decoding, OfFour
  <2>5. OfFour(c, d, e, f) \in Nat
    BY SMT DEF OfFour
  <2> QED BY <2>4, <2>5
<1>11. n = 1 \/ n = 2 \/ n = 3 \/ n = 4
  OBVIOUS
<1> QED BY <1>7, <1>8, <1>9, <1>10, <1>11

LEMMA LengthRange ==
  ASSUME NEW c
  PROVE  LengthOf(c) \in 0..4
BY DEF LengthOf

(* What utf8_read() has found out before it gives a character. *)
LEMMA VerdictOK ==
  ASSUME Verdict = "OK", pos \in Nat, limit \in Nat
  PROVE  /\ pos <= limit /\ ~utf8_in_middle(octets[pos])
         /\ LengthOf(octets[pos]) \in 1..4
         /\ pos + LengthOf(octets[pos]) - 1 <= limit
         /\ Continued(pos, LengthOf(octets[pos]))
<1> DEFINE n == LengthOf(octets[pos])
<1>1. n \in 0..4
  BY LengthRange
<1>2. /\ ~(pos > limit) /\ ~utf8_in_middle(octets[pos]) /\ n # 0
      /\ ~(pos + n - 1 > limit) /\ Continued(pos, n)
  BY DEF Verdict
<1> HIDE DEF n
<1>3. n \in 1..4 /\ pos <= limit /\ pos + n - 1 <= limit
  BY <1>1, <1>2
<1> QED BY <1>2, <1>3 DEF n

(* One character more has begun. *)
LEMMA BegunMore ==
  ASSUME octets \in Seq(0..255), pos \in Nat, 1 <= pos, limit = Len(octets), Verdict = "OK",
         NEW n, n = LengthOf(octets[pos])
  PROVE  Cardinality(Begun(pos + n)) = Cardinality(Begun(pos)) + 1
<1>1. /\ pos <= limit /\ ~utf8_in_middle(octets[pos]) /\ n \in 1..4
      /\ pos + n - 1 <= limit /\ Continued(pos, n) /\ limit \in Nat
  BY VerdictOK
<1>2. Begun(pos + n) = Begun(pos) \union {pos}
  <2>1. ASSUME NEW i \in Begun(pos + n)
        PROVE  i \in Begun(pos) \union {pos}
    <3>1. i \in 1..pos + n - 1 /\ ~utf8_in_middle(octets[i])
      BY <1>1, <2>1 DEF Begun
    <3>2. CASE i < pos
      <4>1. i \in 1..pos - 1
        BY <1>1, <3>1, <3>2
      <4> QED BY <3>1, <4>1 DEF Begun
    <3>3. CASE i > pos
      <4>1. PICK j \in 1..n - 1 : i = pos + j
        <5>1. i - pos \in 1..n - 1 /\ i = pos + (i - pos)
          BY <1>1, <3>1, <3>3
        <5> QED BY <5>1
      <4> QED BY <1>1, <3>1, <4>1 DEF Continued
    <3> QED BY <1>1, <3>1, <3>2, <3>3
  <2>2. ASSUME NEW i \in Begun(pos)
        PROVE  i \in Begun(pos + n)
    <3>1. i \in 1..pos - 1 /\ ~utf8_in_middle(octets[i])
      BY <2>2 DEF Begun
    <3>2. i \in 1..pos + n - 1
      BY <1>1, <3>1
    <3> QED BY <1>1, <3>1, <3>2 DEF Begun
  <2>3. pos \in Begun(pos + n)
    <3>1. pos \in 1..pos + n - 1
      BY <1>1
    <3> QED BY <1>1, <3>1 DEF Begun
  <2> QED BY <2>1, <2>2, <2>3
<1>3. pos \notin Begun(pos)
  BY DEF Begun
<1>4. IsFiniteSet(Begun(pos))
  <2>1. IsFiniteSet(1..pos - 1)
    BY FS_Interval
  <2>2. Begun(pos) \subseteq 1..pos - 1
    BY DEF Begun
  <2> QED BY <2>1, <2>2, FS_Subset
<1> QED BY <1>2, <1>3, <1>4, FS_AddElement

LEMMA ReadForeignInv ==
  ASSUME TextInv, utf8_read, doing = "foreign"
  PROVE  TextInv'
<1>1. /\ octets \in Seq(0..255) /\ read \in Seq(Nat) /\ pos \in Nat /\ 1 <= pos /\ limit \in Nat
      /\ limit = Len(octets) /\ Len(read) = Cardinality(Begun(pos))
      /\ read # <<>> => pos - 1 <= limit
  BY DEF TextInv
<1>2. doing' = "foreign" /\ octets' = octets /\ limit' = limit /\ written' = written
  BY DEF utf8_read
<1>3. CASE Verdict # "OK"
  <2>1. pos' = pos /\ read' = read
    BY <1>3 DEF utf8_read
  <2>2. Begun(pos)' = Begun(pos)
    BY <1>2, <2>1 DEF Begun
  <2> QED BY <1>1, <1>2, <2>1, <2>2 DEF TextInv
<1>4. CASE Verdict = "OK"
  <2>1. PICK n : n = LengthOf(octets[pos])
    OBVIOUS
  <2>2. n \in 1..4 /\ pos + n - 1 <= limit
    BY <1>1, <1>4, <2>1, VerdictOK
  <2>3. pos' = pos + n /\ read' = Append(read, Decoding(pos, n))
    BY <1>4, <2>1 DEF utf8_read
  <2>4. Decoding(pos, n) \in Nat
    BY <1>1, <2>2, DecodingNat
  <2>5. pos' \in Nat /\ 1 <= pos' /\ pos' - 1 <= limit
    BY <1>1, <2>2, <2>3
  <2>6. read' \in Seq(Nat) /\ Len(read') = Len(read) + 1
    BY <1>1, <2>3, <2>4
  <2>7. Begun(pos)' = Begun(pos + n)
    BY <1>2, <2>3 DEF Begun
  <2>8. Len(read') = Cardinality(Begun(pos)')
    BY <1>1, <1>4, <2>1, <2>6, <2>7, BegunMore
  <2> QED BY <1>1, <1>2, <2>5, <2>6, <2>8 DEF TextInv
<1> QED BY <1>3, <1>4

(* What the limit lets through, when reading is at place p. *)
LEMMA CutFrom ==
  ASSUME NEW os, NEW ws, NEW ss, Layout(os, ws, ss), NEW p \in Nat, NEW lim \in Nat,
         NEW i \in 1..Len(ws), ss[i] = p, p + utf8_needs(ws[i]) - 1 > lim,
         NEW k \in 1..Len(ws), ss[k] >= p
  PROVE  ss[k] + utf8_needs(ws[k]) - 1 > lim
<1>1. ss[i] \in Nat /\ utf8_needs(ws[i]) \in 1..4 /\ ss[k] \in Nat /\ utf8_needs(ws[k]) \in 1..4
  BY LaidFacts
<1>2. CASE k < i
  <2>1. ss[k] + utf8_needs(ws[k]) <= ss[i]
    BY <1>2 DEF Layout
  <2> QED BY <1>1, <2>1
<1>3. CASE i < k
  <2>1. ss[i] + utf8_needs(ws[i]) <= ss[k]
    BY <1>3 DEF Layout
  <2> QED BY <1>1, <2>1
<1>4. CASE i = k
  BY <1>4
<1> QED BY <1>2, <1>3, <1>4

(* The character after the one that was read last. *)
LEMMA NextRead ==
  ASSUME NEW os, NEW ws, NEW ss, Layout(os, ws, ss), NEW rs \in Seq(Nat), NEW p \in Nat,
         Reading(rs, ws, ss, p), NEW k \in 1..Len(ws), ss[k] = p
  PROVE  Follows(Append(rs, ws[k]), ws, k)
<1> DEFINE rs2 == Append(rs, ws[k])
<1>1. ws[k] \in Nat /\ ss[k] \in Nat
  BY LaidFacts
<1>2. Len(rs) \in Nat /\ Len(rs2) = Len(rs) + 1 /\ rs2[Len(rs) + 1] = ws[k]
      /\ \A j \in 1..Len(rs) : rs2[j] = rs[j]
  BY <1>1
<1>3. Len(ws) \in Nat
  BY DEF Layout
<1> HIDE DEF rs2
<1>4. CASE rs = <<>>
  <2>1. Len(rs) = 0 /\ Len(rs2) = 1 /\ rs2[1] = ws[k]
    BY <1>2, <1>4
  <2>2. \A j \in 1..Len(rs2) : rs2[j] = ws[k - Len(rs2) + j]
    <3> TAKE j \in 1..Len(rs2)
    <3>1. j = 1 /\ k - Len(rs2) + j = k
      BY <1>3, <2>1
    <3> QED BY <2>1, <3>1
  <2>3. Len(rs2) <= k
    BY <1>3, <2>1
  <2> QED BY <2>2, <2>3 DEF Follows, rs2
<1>5. CASE rs # <<>>
  <2>1. PICK i \in 1..Len(ws) : Follows(rs, ws, i) /\ p = ss[i] + utf8_needs(ws[i])
    BY <1>5 DEF Reading
  <2>2. ss[i] \in Nat /\ utf8_needs(ws[i]) \in 1..4
    BY LaidFacts
  <2>3. k = i + 1
    <3>1. CASE k < i
      <4>1. ss[k] + utf8_needs(ws[k]) <= ss[i] /\ utf8_needs(ws[k]) \in 1..4
        BY <3>1, LaidFacts DEF Layout
      <4> QED BY <1>1, <2>1, <2>2, <4>1
    <3>2. CASE k = i
      BY <1>1, <2>1, <2>2, <3>2
    <3>3. CASE i + 1 < k
      <4>1. PICK m \in 1..Len(ws) : m = i + 1
        BY <1>3, <3>3
      <4>2. i < m /\ m < k
        BY <3>3, <4>1
      <4>3. ss[m] \in Nat /\ utf8_needs(ws[m]) \in 1..4
        BY LaidFacts
      <4>4. ss[i] + utf8_needs(ws[i]) <= ss[m] /\ ss[m] + utf8_needs(ws[m]) <= ss[k]
        BY <4>2 DEF Layout
      <4> QED BY <1>1, <2>1, <2>2, <4>3, <4>4
    <3> QED BY <1>3, <3>1, <3>2, <3>3
  <2>4. Len(rs) <= i /\ \A j \in 1..Len(rs) : rs[j] = ws[i - Len(rs) + j]
    BY <2>1 DEF Follows
  <2>5. Len(rs2) <= k
    BY <1>2, <1>3, <2>3, <2>4
  <2>6. \A j \in 1..Len(rs2) : rs2[j] = ws[k - Len(rs2) + j]
    <3> TAKE j \in 1..Len(rs2)
    <3>1. k - Len(rs2) + j = i - Len(rs) + j
      BY <1>2, <1>3, <2>3
    <3>2. CASE j \in 1..Len(rs)
      <4>1. rs2[j] = rs[j] /\ rs[j] = ws[i - Len(rs) + j]
        BY <1>2, <2>4, <3>2
      <4> QED BY <3>1, <4>1
    <3>3. CASE j \notin 1..Len(rs)
      <4>1. j = Len(rs) + 1
        BY <1>2, <3>3
      <4>2. i - Len(rs) + j = k
        BY <1>2, <1>3, <2>3, <4>1
      <4> QED BY <1>2, <3>1, <4>1, <4>2
    <3> QED BY <3>2, <3>3
  <2> QED BY <2>5, <2>6 DEF Follows, rs2
<1> QED BY <1>4, <1>5

LEMMA ReadBackInv ==
  ASSUME TextInv, utf8_read, doing = "read"
  PROVE  TextInv'
<1>1. /\ octets \in Seq(0..255) /\ read \in Seq(Nat) /\ pos \in Nat /\ 1 <= pos /\ limit \in Nat
      /\ Layout(octets, written, starts)
      /\ limit <= Len(octets) /\ Reading(read, written, starts, pos)
      /\ read # <<>> => pos - 1 <= limit
  BY DEF TextInv
<1>2. /\ doing' = "read" /\ octets' = octets /\ written' = written /\ starts' = starts
      /\ limit' = limit /\ status' = Verdict
  BY DEF utf8_read
<1>3. Len(octets) \in Nat /\ Len(written) \in Nat /\ Len(starts) = Len(written)
  BY <1>1 DEF Layout
<1>4. ASSUME Verdict # "OK", Stopped(Verdict, written, starts, pos, limit)
      PROVE  TextInv'
  <2>1. pos' = pos /\ read' = read
    BY <1>4 DEF utf8_read
  <2> QED BY <1>1, <1>2, <1>4, <2>1 DEF TextInv
<1>5. CASE pos > limit
  <2>1. Verdict = "LIMITED"
    BY <1>5 DEF Verdict
  <2>2. ~(pos <= limit)
    BY <1>1, <1>5
  <2>3. \A i \in 1..Len(written) :
          starts[i] >= pos => starts[i] + utf8_needs(written[i]) - 1 > limit
    <3> TAKE i \in 1..Len(written)
    <3>1. starts[i] \in Nat /\ utf8_needs(written[i]) \in 1..4
      BY <1>1, LaidFacts
    <3> QED BY <1>1, <1>5, <3>1
  <2>4. Stopped(Verdict, written, starts, pos, limit)
    BY <2>1, <2>2, <2>3 DEF Stopped
  <2> QED BY <1>4, <2>1, <2>4
<1>6. CASE pos <= limit
  <2>1. pos \in 1..Len(octets)
    BY <1>1, <1>3, <1>6
  <2>2. PICK i \in 1..Len(written) :
          starts[i] <= pos /\ pos <= starts[i] + utf8_needs(written[i]) - 1
    BY <1>1, <2>1 DEF Layout
  <2>3. starts[i] \in Nat /\ utf8_needs(written[i]) \in 1..4 /\ written[i] \in Nat
    BY <1>1, LaidFacts
  <2>4. CASE starts[i] < pos
    <3>1. Verdict = "SEEK" /\ NoStart(starts, pos)
      BY <1>1, <1>6, <2>2, <2>4, AtMiddle
    <3>2. Stopped(Verdict, written, starts, pos, limit)
      BY <1>6, <3>1 DEF Stopped
    <3> QED BY <1>4, <3>1, <3>2
  <2>5. CASE starts[i] = pos
    <3>1. /\ LengthOf(octets[pos]) = utf8_needs(written[i])
          /\ Verdict = IF pos + utf8_needs(written[i]) - 1 > limit THEN "LIMITED" ELSE "OK"
      BY <1>1, <1>6, <2>5, AtStart
    <3>2. CASE pos + utf8_needs(written[i]) - 1 > limit
      <4>1. Verdict = "LIMITED"
        BY <3>1, <3>2
      <4>2. ~NoStart(starts, pos)
        BY <1>3, <2>5 DEF NoStart
      <4>3. \A k \in 1..Len(written) :
              starts[k] >= pos => starts[k] + utf8_needs(written[k]) - 1 > limit
        BY <1>1, <2>5, <3>2, CutFrom
      <4>4. Stopped(Verdict, written, starts, pos, limit)
        BY <4>1, <4>2, <4>3 DEF Stopped
      <4> QED BY <1>4, <4>1, <4>4
    <3>3. CASE ~(pos + utf8_needs(written[i]) - 1 > limit)
      <4>1. Verdict = "OK"
        BY <3>1, <3>3
      <4>2. Laid(octets, written[i], pos)
        BY <1>1, <2>5 DEF Layout
      <4>3. Decoding(pos, utf8_needs(written[i])) = written[i]
        BY <1>1, <4>2, DecodingLaid
      <4>4. pos' = pos + utf8_needs(written[i]) /\ read' = Append(read, written[i])
        BY <3>1, <4>1, <4>3 DEF utf8_read
      <4>5. pos' \in Nat /\ 1 <= pos' /\ pos' - 1 <= limit /\ read' \in Seq(Nat)
        BY SMTT(60), <1>1, <2>3, <3>3, <4>4
      <4>6. Follows(read', written, i)
        BY <1>1, <2>5, <4>4, NextRead
      <4>7. Reading(read', written', starts', pos')
        BY <1>2, <2>5, <4>4, <4>6 DEF Reading
      <4>8. Stopped(status', written', starts', pos', limit')
        BY <1>2, <4>1 DEF Stopped
      <4> QED BY <1>1, <1>2, <4>5, <4>7, <4>8 DEF TextInv
    <3> QED BY <3>2, <3>3
  <2> QED BY <2>2, <2>3, <1>1, <2>4, <2>5
<1> QED BY <1>1, <1>5, <1>6

(* Reading and writing UTF-8 keep TextInv. *)
LEMMA TextInvariance == TextSpec => []TextInv
<1>1. TextInit => TextInv
  BY TextInitInv
<1>2. TextInv /\ [TextNext]_textVars => TextInv'
  <2> SUFFICES ASSUME TextInv, [TextNext]_textVars PROVE TextInv'
    OBVIOUS
  <2>1. ASSUME NEW u \in Unichars, utf8_write(u) PROVE TextInv'
    BY <2>1, WriteInv
  <2>2. ASSUME NEW from \in 1..Memory, NEW to \in 0..Memory, Rewind(from, to) PROVE TextInv'
    BY <2>2, RewindInv
  <2>3. ASSUME NEW n \in 1..3, NEW text \in [1..n -> Octets], Foreign(n, text) PROVE TextInv'
    BY <2>3, ForeignInv
  <2>4. CASE utf8_read
    <3>1. doing = "read" \/ doing = "foreign"
      BY <2>4 DEF utf8_read
    <3> QED BY <2>4, <3>1, ReadBackInv, ReadForeignInv
  <2>5. CASE UNCHANGED textVars
    BY <2>5 DEF textVars, TextInv, Begun
  <2> QED BY <2>1, <2>2, <2>3, <2>4, <2>5 DEF TextNext
<1> QED BY <1>1, <1>2, PTL DEF TextSpec

(* Whatever characters are written, utf8_read() reads them back from        *)
(* wherever one of them begins, gives up with LIMITED exactly before the    *)
(* first that the limit cuts, and with SEEK inside of a character.          *)
THEOREM ReadsBackCorrect == TextSpec => []ReadsBack
<1>1. TextInv => ReadsBack
  <2> SUFFICES ASSUME TextInv, doing = "read" PROVE ReadsBack
    BY DEF ReadsBack
  <2>1. /\ read \in Seq(Nat) /\ pos \in Nat /\ limit \in Nat
        /\ Layout(octets, written, starts) /\ Reading(read, written, starts, pos)
        /\ Stopped(status, written, starts, pos, limit)
    BY DEF TextInv
  <2>2. written \in Seq(Valid) /\ Len(written) \in Nat /\ DOMAIN written = 1..Len(written)
        /\ DOMAIN starts = 1..Len(starts) /\ Len(read) \in Nat
    BY <2>1 DEF Layout
  <2>3. status \in {"OK", "LIMITED", "SEEK"}
    BY <2>1 DEF Stopped
  <2>4. status = "SEEK" <=> /\ pos <= limit /\ status # "OK"
                            /\ \A i \in DOMAIN starts : starts[i] # pos
    BY <2>1, <2>2 DEF Stopped, NoStart
  <2>5. \E i \in Len(read)..Len(written) :
          /\ read = SubSeq(written, i - Len(read) + 1, i)
          /\ read # <<>> => pos = starts[i] + utf8_needs(written[i])
    <3>1. CASE read = <<>>
      <4>1. Len(read) = 0 /\ 0 \in Len(read)..Len(written) /\ 0 - Len(read) + 1 = 1
        BY <2>2, <3>1
      <4>2. SubSeq(written, 1, 0) = <<>>
        BY <2>2
      <4> QED BY <3>1, <4>1, <4>2
    <3>2. CASE read # <<>>
      <4>1. PICK i \in 1..Len(written) :
              Follows(read, written, i) /\ pos = starts[i] + utf8_needs(written[i])
        BY <2>1, <3>2 DEF Reading
      <4>2. Len(read) <= i /\ \A j \in 1..Len(read) : read[j] = written[i - Len(read) + j]
        BY <4>1 DEF Follows
      <4>3. PICK m \in 1..Len(written) + 1 : m = i - Len(read) + 1
        BY <2>2, <4>2
      <4>4. SubSeq(written, m, i) = [j \in 1..i - m + 1 |-> written[m + j - 1]]
        BY <2>2, <4>3
      <4>5. i - m + 1 = Len(read)
        BY <2>2, <4>3
      <4>6. \A j \in 1..Len(read) : written[m + j - 1] = read[j]
        <5> TAKE j \in 1..Len(read)
        <5>1. m + j - 1 = i - Len(read) + j
          BY <2>2, <4>3
        <5> QED BY <4>2, <5>1
      <4>7. read = [j \in 1..Len(read) |-> read[j]]
        BY <2>1
      <4>8. read = SubSeq(written, m, i)
        BY <4>4, <4>5, <4>6, <4>7
      <4>9. i \in Len(read)..Len(written)
        BY <2>2, <4>2
      <4> QED BY <4>1, <4>3, <4>8, <4>9
    <3> QED BY <3>1, <3>2
  <2>6. status = "LIMITED" => Whole(pos) = {}
    <3> SUFFICES ASSUME status = "LIMITED", NEW i \in 1..Len(written), starts[i] >= pos,
                        starts[i] + utf8_needs(written[i]) - 1 <= limit
                 PROVE  FALSE
      BY <2>2 DEF Whole
    <3>1. starts[i] + utf8_needs(written[i]) - 1 > limit
      BY <2>1 DEF Stopped
    <3>2. starts[i] \in Nat /\ utf8_needs(written[i]) \in 1..4
      BY <2>1, LaidFacts
    <3> QED BY <2>1, <3>1, <3>2
  <2> QED BY <2>3, <2>4, <2>5, <2>6 DEF ReadsBack
<1> QED BY <1>1, TextInvariance, PTL

(* Whatever the octets, utf8_read() consumes nothing beyond the limit, and  *)
(* every character it gives is one of its own with all its octets.          *)
THEOREM ReadsInsideCorrect == TextSpec => []ReadsInside
<1>1. TextInv => ReadsInside
  BY DEF TextInv, ReadsInside
<1> QED BY <1>1, TextInvariance, PTL
=============================================================================
