--------------------------- MODULE CodegenProofs ----------------------------
(***************************************************************************)
(* Proofs about Codegen, for every set of names and every depth of         *)
(* nesting.  CodeInv is the inductive invariant: the scopes of ripe        *)
(* variables and those of C nest as the statements do, and every variable  *)
(* is declared in the C scope that goes with its own.  StmtsInv is about   *)
(* the if statements that an else may follow.                              *)
(***************************************************************************)
EXTENDS Codegen, FiniteSetTheorems, TLAPS

Kinds == {"func", "expr", "if", "loop", "for", "try", "catch", "finally", "block"}

Names == Vars \union Globals \union {Self}
              \union {<<"iterator", m>> : m \in 0..MaxDepth}

Frames    == [kind : Kinds, base : Nat, cbase : Nat]
Variables == [name : Names, kind : {"REGULAR", "BLOCK_PARAM"}]
CScopes   == [fn : {0, 1}, names : SUBSET Names, left : SUBSET Names]

Typed(fs, ls, cs) ==
  fs \in Seq(Frames) /\ ls \in Seq(SUBSET Variables) /\ cs \in Seq(CScopes)

(* The scopes of a statement begin where those of the one around it end.    *)
Nested(fs, ls, cs) ==
  /\ \A k, l \in 1..Len(fs) : k <= l =>
       fs[k].base <= fs[l].base /\ fs[k].cbase <= fs[l].cbase
  /\ \A k \in 1..Len(fs) - 1 :
       /\ fs[k+1].base = fs[k].base + VarPushes(fs[k].kind)
       /\ fs[k+1].cbase = fs[k].cbase + Braces(fs[k].kind)
  /\ IF Len(fs) = 0 THEN Len(ls) = 0 /\ Len(cs) = 0
     ELSE /\ Len(ls) = fs[Len(fs)].base + VarPushes(fs[Len(fs)].kind)
          /\ Len(cs) = fs[Len(fs)].cbase + Braces(fs[Len(fs)].kind)
          /\ fs[1].base = 0 /\ fs[1].cbase = 0
  /\ \A k \in 1..Len(fs) : fs[k].kind \in {"func", "expr"} <=> k = 1

(* The i-th scope and the j-th C scope belong together: what ends or begins *)
(* with one does so with the other, except that the variables of a finally  *)
(* block are declared in the C scope around it.                             *)
Placed(fs, i, j) ==
  \A k \in 1..Len(fs) :
    IF i <= fs[k].base THEN j <= fs[k].cbase
    ELSE j > fs[k].cbase \/ (fs[k].kind = "finally" /\ j = fs[k].cbase)

(* Every variable is declared in C, and what is declared in C is a variable *)
(* or was left by a finally block.                                          *)
Declared(fs, ls, cs) ==
  /\ \A i \in 1..Len(ls) : \A v \in ls[i] :
       \E j \in 1..Len(cs) : v.name \in cs[j].names /\ Placed(fs, i, j)
  /\ \A j \in 1..Len(cs) : \A x \in cs[j].names : x \notin cs[j].left =>
       \E i \in 1..Len(ls) : (\E v \in ls[i] : v.name = x) /\ Placed(fs, i, j)

OneScope(ls) ==
  \A i, j \in 1..Len(ls) : \A v \in ls[i], w \in ls[j] :
    v.name = w.name => i = j /\ v = w

(* There is one anonymous function at most, and what is written since it    *)
(* began belongs to it.                                                     *)
HasBlock(fs) == \E k \in 1..Len(fs) : fs[k].kind = "block"

InBlock(fs, j) == \E k \in 1..Len(fs) : fs[k].kind = "block" /\ j > fs[k].cbase

OneBlock(fs, ls, cs) ==
  /\ \A k, l \in 1..Len(fs) : fs[k].kind = "block" /\ fs[l].kind = "block" => k = l
  /\ \A j \in 1..Len(cs) : cs[j].fn = IF InBlock(fs, j) THEN 1 ELSE 0
  /\ \A i \in 1..Len(ls) : \A v \in ls[i] : v.kind = "BLOCK_PARAM" =>
       \E k \in 1..Len(fs) : fs[k].kind = "block" /\ i > fs[k].base

(* The temporaries of a loop are gone after it.                             *)
Iterators(fs, ls) ==
  \A i \in 1..Len(ls) : \A v \in ls[i] : \A m \in 0..MaxDepth :
    v.name = <<"iterator", m>> => m + 1 \in 1..Len(fs) /\ i > fs[m+1].base

(* The stacker has the loops and the parts of try statements around, and    *)
(* nothing else.                                                            *)
Stacked(fs, sk) ==
  /\ sk \in Seq([kind : Kinds, depth : Nat])
  /\ \A s \in 1..Len(sk) : /\ sk[s].depth \in 1..Len(fs)
                           /\ fs[sk[s].depth].kind = sk[s].kind
                           /\ OnStacker(sk[s].kind)
  /\ \A s, t \in 1..Len(sk) : s < t => sk[s].depth < sk[t].depth
  /\ \A k \in 1..Len(fs) : OnStacker(fs[k].kind) =>
       \E s \in 1..Len(sk) : sk[s].depth = k

Shape(fs, ls, cs) ==
  /\ Typed(fs, ls, cs) /\ Nested(fs, ls, cs) /\ Declared(fs, ls, cs)
  /\ OneScope(ls) /\ OneBlock(fs, ls, cs) /\ Iterators(fs, ls)

CodeInv ==
  /\ Shape(frames, locals, cscopes)
  /\ Stacked(frames, stacker)
  /\ context_block \in BOOLEAN /\ (context_block = TRUE <=> HasBlock(frames))
  /\ entry \in Entries
  /\ pc = "idle" => frames = <<>>
  /\ pc = "gen" => frames # <<>>
  /\ pc = "gen" /\ entry \in {"METHOD", "CONSTRUCTOR"} => Self \in cscopes[1].names
  /\ CAccepts

-----------------------------------------------------------------------------
(* How many scopes a statement opens.                                       *)
LEMMA Openings ==
  \A k \in Kinds :
    /\ VarPushes(k) \in Nat /\ Braces(k) \in Nat /\ VarPops(k) = VarPushes(k)
    /\ Braces(k) = 0 <=> k = "finally"
    /\ VarPushes(k) = 0 <=> k = "expr"
    /\ k = "finally" => VarPushes(k) = 1
    /\ k = "block" => Braces(k) = 1 /\ VarPushes(k) = 2
  BY DEF Kinds, VarPushes, VarPops, Braces

LEMMA CutSeq ==
  ASSUME NEW S, NEW s \in Seq(S), NEW n \in 0..Len(s)
  PROVE  /\ Cut(s, n) \in Seq(S) /\ Len(Cut(s, n)) = Len(s) - n
         /\ \A i \in 1..(Len(s) - n) : Cut(s, n)[i] = s[i]
  <1>1. PICK m : m = Len(s) - n
    OBVIOUS
  <1>2. m \in 0..Len(s) /\ Cut(s, n) = SubSeq(s, 1, m)
    BY <1>1 DEF Cut
  <1>3. /\ SubSeq(s, 1, m) \in Seq(S) /\ Len(SubSeq(s, 1, m)) = m
        /\ \A i \in 1..m : SubSeq(s, 1, m)[i] = s[i]
    BY <1>2
  <1> QED
    BY <1>1, <1>2, <1>3

LEMMA ConcatSeq ==
  ASSUME NEW S, NEW s \in Seq(S), NEW t \in Seq(S)
  PROVE  /\ s \o t \in Seq(S) /\ Len(s \o t) = Len(s) + Len(t)
         /\ \A i \in 1..Len(s) : (s \o t)[i] = s[i]
         /\ \A i \in Len(s)+1..Len(s)+Len(t) : (s \o t)[i] = t[i - Len(s)]
  OBVIOUS

LEMMA PushSeq ==
  ASSUME NEW S, NEW s \in Seq(S), NEW e \in S
  PROVE  /\ Append(s, e) \in Seq(S) /\ Len(Append(s, e)) = Len(s) + 1
         /\ \A i \in 1..Len(s) : Append(s, e)[i] = s[i]
         /\ Append(s, e)[Len(s) + 1] = e
  OBVIOUS

(* The bases of the statements, relative to what is open.                   *)
LEMMA Bases ==
  ASSUME NEW fs, NEW ls, NEW cs, Typed(fs, ls, cs), Nested(fs, ls, cs)
  PROVE  /\ Len(fs) \in Nat /\ Len(ls) \in Nat /\ Len(cs) \in Nat
         /\ \A k \in 1..Len(fs) :
              /\ fs[k].base \in Nat /\ fs[k].cbase \in Nat /\ fs[k].kind \in Kinds
              /\ fs[k].base <= Len(ls) /\ fs[k].cbase <= Len(cs)
  <1>1. Len(fs) \in Nat /\ Len(ls) \in Nat /\ Len(cs) \in Nat
    BY DEF Typed
  <1>2. \A k \in 1..Len(fs) : fs[k] \in Frames
    BY DEF Typed
  <1>3. ASSUME NEW k \in 1..Len(fs)
        PROVE  /\ fs[k].base \in Nat /\ fs[k].cbase \in Nat /\ fs[k].kind \in Kinds
    BY <1>2 DEF Frames
  <1>4. ASSUME NEW k \in 1..Len(fs)
        PROVE  fs[k].base <= Len(ls) /\ fs[k].cbase <= Len(cs)
    <2>1. PICK n : n = Len(fs) /\ n \in 1..Len(fs) /\ k <= n
      BY <1>1
    <2>2. fs[k].base <= fs[n].base /\ fs[k].cbase <= fs[n].cbase
      BY <2>1 DEF Nested
    <2>3. Len(ls) = fs[n].base + VarPushes(fs[n].kind)
          /\ Len(cs) = fs[n].cbase + Braces(fs[n].kind)
      BY <1>1, <2>1 DEF Nested
    <2> QED
      BY <1>1, <1>3, <2>1, <2>2, <2>3, Openings
  <1> QED
    BY <1>1, <1>3, <1>4

-----------------------------------------------------------------------------
(* A statement is opened: what is in the scopes that it opens.              *)
NewScopes(fs, ls, cs, kind, ls1, cs1) ==
  /\ ls1 \in Seq(SUBSET Variables) /\ Len(ls1) = Len(ls) + VarPushes(kind)
  /\ cs1 \in Seq(CScopes) /\ Len(cs1) = Len(cs) + Braces(kind)
  /\ \A i \in 1..Len(ls) : ls1[i] = ls[i]
  /\ \A j \in 1..Len(cs) : cs1[j] = cs[j]

(* Only the outermost statement is a function or an initialiser.            *)
Outermost(fs, kind) == kind \in {"func", "expr"} <=> Len(fs) = 0

NewVariables(fs, ls, cs, kind, ls1, cs1) ==
  /\ \A i \in Len(ls)+1..Len(ls1) : \A v \in ls1[i] :
       /\ ~LocalIn(ls, v.name)
       /\ \E j \in Len(cs)+1..Len(cs1) : v.name \in cs1[j].names
       /\ v.kind = "BLOCK_PARAM" => kind = "block"
       /\ \A m \in 0..MaxDepth : v.name = <<"iterator", m>> => m = Len(fs)
  /\ \A i, j \in Len(ls)+1..Len(ls1) : \A v \in ls1[i], w \in ls1[j] :
       v.name = w.name => i = j /\ v = w
  /\ \A j \in Len(cs)+1..Len(cs1) :
       /\ cs1[j].fn = IF kind = "block" \/ HasBlock(fs) THEN 1 ELSE 0
       /\ \A x \in cs1[j].names :
            \E i \in Len(ls)+1..Len(ls1) : \E v \in ls1[i] : v.name = x

(* The frames with one more on top.                                         *)
Added(fs, ls, cs, kind, fs1) ==
  /\ Len(fs1) = Len(fs) + 1 /\ \A k \in 1..Len(fs) : fs1[k] = fs[k]
  /\ fs1[Len(fs)+1].kind = kind
  /\ fs1[Len(fs)+1].base = Len(ls) /\ fs1[Len(fs)+1].cbase = Len(cs)

LEMMA OpenNested ==
  ASSUME NEW fs, NEW ls, NEW cs, Typed(fs, ls, cs), Nested(fs, ls, cs),
         NEW kind \in Kinds, Outermost(fs, kind),
         NEW ls1, NEW cs1, NewScopes(fs, ls, cs, kind, ls1, cs1),
         NEW fs1, fs1 = Append(fs, NewFrame(kind, ls, cs))
  PROVE  /\ Typed(fs1, ls1, cs1) /\ Nested(fs1, ls1, cs1)
         /\ Added(fs, ls, cs, kind, fs1)
  <1> DEFINE n == Len(fs)
  <1>0. PICK f : f = NewFrame(kind, ls, cs) /\ fs1 = Append(fs, f)
    OBVIOUS
  <1>1. /\ n \in Nat /\ Len(ls) \in Nat /\ Len(cs) \in Nat
        /\ \A k \in 1..n : /\ fs[k].base \in Nat /\ fs[k].cbase \in Nat
                            /\ fs[k].kind \in Kinds
                            /\ fs[k].base <= Len(ls) /\ fs[k].cbase <= Len(cs)
    BY Bases
  <1>2. f \in Frames /\ f.kind = kind /\ f.base = Len(ls) /\ f.cbase = Len(cs)
    BY <1>0, <1>1 DEF Frames, NewFrame
  <1>3. /\ fs1 \in Seq(Frames) /\ Len(fs1) = n + 1
        /\ \A k \in 1..n : fs1[k] = fs[k] /\ fs1[n+1] = f
    BY <1>0, <1>2, PushSeq DEF Typed
  <1>4. fs1[n+1] = f
    BY <1>0, <1>2, PushSeq DEF Typed
  <1>5. Typed(fs1, ls1, cs1)
    BY <1>3 DEF Typed, NewScopes
  <1>6. \A k, l \in 1..Len(fs1) : k <= l =>
          fs1[k].base <= fs1[l].base /\ fs1[k].cbase <= fs1[l].cbase
    <2> SUFFICES ASSUME NEW k \in 1..n+1, NEW l \in 1..n+1, k <= l
                 PROVE  fs1[k].base <= fs1[l].base /\ fs1[k].cbase <= fs1[l].cbase
      BY <1>3
    <2>1. CASE l = n + 1 /\ k = n + 1
      BY <1>1, <1>2, <1>4, <2>1
    <2>2. CASE l = n + 1 /\ k # n + 1
      <3>1. k \in 1..n
        BY <1>1, <2>2
      <3> QED
        BY <1>1, <1>2, <1>3, <1>4, <2>2, <3>1
    <2>3. CASE l # n + 1
      <3>1. k \in 1..n /\ l \in 1..n
        BY <1>1, <2>3
      <3> QED
        BY <1>3, <3>1 DEF Nested
    <2> QED
      BY <2>1, <2>2, <2>3
  <1>7. \A k \in 1..Len(fs1) - 1 :
          /\ fs1[k+1].base = fs1[k].base + VarPushes(fs1[k].kind)
          /\ fs1[k+1].cbase = fs1[k].cbase + Braces(fs1[k].kind)
    <2> SUFFICES ASSUME NEW k \in 1..n
                 PROVE  /\ fs1[k+1].base = fs1[k].base + VarPushes(fs1[k].kind)
                        /\ fs1[k+1].cbase = fs1[k].cbase + Braces(fs1[k].kind)
      BY <1>1, <1>3
    <2>0. fs1[k] = fs[k]
      BY <1>3
    <2>1. CASE k = n
      <3>1. Len(ls) = fs[n].base + VarPushes(fs[n].kind)
            /\ Len(cs) = fs[n].cbase + Braces(fs[n].kind)
        BY <1>1, <2>1 DEF Nested
      <3> QED
        BY <1>2, <1>4, <2>0, <2>1, <3>1
    <2>2. CASE k # n
      <3>1. k \in 1..n-1 /\ k + 1 \in 1..n
        BY <1>1, <2>2
      <3> QED
        BY <1>3, <2>0, <3>1 DEF Nested
    <2> QED
      BY <2>1, <2>2
  <1>8. /\ Len(ls1) = fs1[Len(fs1)].base + VarPushes(fs1[Len(fs1)].kind)
        /\ Len(cs1) = fs1[Len(fs1)].cbase + Braces(fs1[Len(fs1)].kind)
    BY <1>2, <1>3, <1>4 DEF NewScopes
  <1>9. fs1[1].base = 0 /\ fs1[1].cbase = 0
    <2>1. CASE n = 0
      BY <1>2, <1>4, <2>1 DEF Nested
    <2>2. CASE n # 0
      <3>1. 1 \in 1..n
        BY <1>1, <2>2
      <3> QED
        BY <1>3, <2>2, <3>1 DEF Nested
    <2> QED
      BY <2>1, <2>2
  <1>10. \A k \in 1..Len(fs1) : fs1[k].kind \in {"func", "expr"} <=> k = 1
    <2> SUFFICES ASSUME NEW k \in 1..n+1
                 PROVE  fs1[k].kind \in {"func", "expr"} <=> k = 1
      BY <1>3
    <2>1. CASE k = n + 1
      BY <1>1, <1>2, <1>4, <2>1 DEF Outermost
    <2>2. CASE k # n + 1
      <3>1. k \in 1..n
        BY <1>1, <2>2
      <3> QED
        BY <1>3, <3>1 DEF Nested
    <2> QED
      BY <2>1, <2>2
  <1>11. Added(fs, ls, cs, kind, fs1)
    BY <1>2, <1>3, <1>4 DEF Added
  <1> QED
    BY SMTT(60), <1>1, <1>3, <1>5, <1>6, <1>7, <1>8, <1>9, <1>10, <1>11 DEF Nested

(* The scopes that are there stay together, and the new ones go together.   *)
LEMMA OpenPlaced ==
  ASSUME NEW fs, NEW ls, NEW cs, Typed(fs, ls, cs), Nested(fs, ls, cs), NEW kind,
         NEW fs1, Added(fs, ls, cs, kind, fs1), NEW i \in Nat, NEW j \in Nat
  PROVE  /\ i <= Len(ls) /\ j <= Len(cs) /\ Placed(fs, i, j) => Placed(fs1, i, j)
         /\ i > Len(ls) /\ j > Len(cs) => Placed(fs1, i, j)
  <1>0. PICK n, m, cm : n = Len(fs) /\ m = Len(ls) /\ cm = Len(cs)
    OBVIOUS
  <1>a. /\ n \in Nat /\ m \in Nat /\ cm \in Nat
        /\ \A k \in 1..n : /\ fs[k].base \in Nat /\ fs[k].cbase \in Nat
                            /\ fs[k].base <= m /\ fs[k].cbase <= cm
    BY <1>0, Bases
  <1>1. \A k \in 1..n+1 : k \in 1..n \/ k = n + 1
    BY <1>a
  <1>2. /\ Len(fs1) = n + 1 /\ \A k \in 1..n : fs1[k] = fs[k]
        /\ fs1[n+1].base = m /\ fs1[n+1].cbase = cm
    BY <1>0 DEF Added
  <1>3. ASSUME i <= m, j <= cm, Placed(fs, i, j)
        PROVE  Placed(fs1, i, j)
    <2> SUFFICES ASSUME NEW k \in 1..n+1
                 PROVE  IF i <= fs1[k].base THEN j <= fs1[k].cbase
                        ELSE \/ j > fs1[k].cbase
                             \/ fs1[k].kind = "finally" /\ j = fs1[k].cbase
      BY <1>2 DEF Placed
    <2>1. CASE k \in 1..n
      BY <1>0, <1>2, <1>3, <2>1 DEF Placed
    <2>2. CASE k = n + 1
      BY <1>2, <1>3, <1>a, <2>2
    <2> QED
      BY <1>1, <2>1, <2>2
  <1>4. ASSUME i > m, j > cm
        PROVE  Placed(fs1, i, j)
    <2> SUFFICES ASSUME NEW k \in 1..n+1
                 PROVE  ~(i <= fs1[k].base) /\ j > fs1[k].cbase
      BY <1>2 DEF Placed
    <2>1. CASE k \in 1..n
      <3>1. /\ fs[k].base \in Nat /\ fs[k].cbase \in Nat
            /\ fs[k].base <= m /\ fs[k].cbase <= cm /\ fs1[k] = fs[k]
        BY <1>2, <1>a, <2>1
      <3> QED
        BY <1>4, <1>a, <3>1
    <2>2. CASE k = n + 1
      BY <1>2, <1>4, <1>a, <2>2
    <2> QED
      BY <1>1, <2>1, <2>2
  <1> QED
    BY <1>0, <1>3, <1>4

LEMMA OpenShape ==
  ASSUME NEW fs, NEW ls, NEW cs, Shape(fs, ls, cs),
         NEW kind \in Kinds, Outermost(fs, kind),
         kind = "block" => ~HasBlock(fs),
         NEW ls1, NEW cs1, NewScopes(fs, ls, cs, kind, ls1, cs1),
         NewVariables(fs, ls, cs, kind, ls1, cs1),
         NEW fs1, fs1 = Append(fs, NewFrame(kind, ls, cs))
  PROVE  /\ Shape(fs1, ls1, cs1)
         /\ HasBlock(fs1) <=> kind = "block" \/ HasBlock(fs)
  <1> DEFINE n == Len(fs)
             m == Len(ls)
             cm == Len(cs)
             m1 == Len(ls1)
             cm1 == Len(cs1)
  <1>8. /\ \A i \in m+1..m1 : \A v \in ls1[i] :
             /\ ~LocalIn(ls, v.name)
             /\ \E j \in cm+1..cm1 : v.name \in cs1[j].names
             /\ v.kind = "BLOCK_PARAM" => kind = "block"
             /\ \A k \in 0..MaxDepth : v.name = <<"iterator", k>> => k = n
        /\ \A i, j \in m+1..m1 : \A v \in ls1[i], w \in ls1[j] :
             v.name = w.name => i = j /\ v = w
        /\ \A j \in cm+1..cm1 :
             /\ cs1[j].fn = IF kind = "block" \/ HasBlock(fs) THEN 1 ELSE 0
             /\ \A x \in cs1[j].names :
                  \E i \in m+1..m1 : \E v \in ls1[i] : v.name = x
    BY Zenon DEF NewVariables
  <1>0. n = Len(fs) /\ m = Len(ls) /\ cm = Len(cs) /\ m1 = Len(ls1) /\ cm1 = Len(cs1)
    OBVIOUS
  <1> HIDE DEF n, m, cm, m1, cm1
  <1>1. Typed(fs, ls, cs) /\ Nested(fs, ls, cs)
    BY DEF Shape
  <1>a. /\ Typed(fs1, ls1, cs1) /\ Nested(fs1, ls1, cs1)
        /\ Added(fs, ls, cs, kind, fs1)
    BY <1>1, OpenNested
  <1>2. /\ Typed(fs1, ls1, cs1) /\ Nested(fs1, ls1, cs1)
        /\ Len(fs1) = n + 1 /\ \A k \in 1..n : fs1[k] = fs[k]
        /\ fs1[n+1].kind = kind /\ fs1[n+1].base = m /\ fs1[n+1].cbase = cm
    BY <1>0, <1>a DEF Added
  <1>3. /\ n \in Nat /\ m \in Nat /\ cm \in Nat
        /\ \A k \in 1..n : /\ fs[k].base \in Nat /\ fs[k].cbase \in Nat
                            /\ fs[k].kind \in Kinds
                            /\ fs[k].base <= m /\ fs[k].cbase <= cm
    BY <1>0, <1>1, Bases
  <1>4. /\ m1 = Len(ls1) /\ cm1 = Len(cs1) /\ m1 \in Nat /\ cm1 \in Nat
        /\ m <= m1 /\ cm <= cm1
    BY <1>0, <1>3, Openings DEF NewScopes
  <1>5. /\ \A i \in 1..m : ls1[i] = ls[i]
        /\ \A j \in 1..cm : cs1[j] = cs[j]
    BY <1>0 DEF NewScopes
  <1>6. /\ \A i \in 1..m1 : i \in 1..m \/ (i \in m+1..m1 /\ i > m)
        /\ \A j \in 1..cm1 : j \in 1..cm \/ (j \in cm+1..cm1 /\ j > cm)
        /\ \A i \in 1..m : i \in 1..m1 /\ i <= m /\ i \in Nat
        /\ \A j \in 1..cm : j \in 1..cm1 /\ j <= cm /\ j \in Nat
        /\ \A i \in m+1..m1 : i \in 1..m1 /\ i > m /\ i \in Nat
        /\ \A j \in cm+1..cm1 : j \in 1..cm1 /\ j > cm /\ j \in Nat
        /\ \A k \in 1..n+1 : k \in 1..n \/ k = n + 1
        /\ \A k \in 1..n : k \in 1..n+1
        /\ n + 1 \in 1..n+1
    BY <1>3, <1>4
  <1>7. ASSUME NEW i \in Nat, NEW j \in Nat
        PROVE  /\ i <= m /\ j <= cm /\ Placed(fs, i, j) => Placed(fs1, i, j)
               /\ i > m /\ j > cm => Placed(fs1, i, j)
    BY <1>0, <1>1, <1>a, OpenPlaced
  <1>9. Declared(fs1, ls1, cs1)
    <2>0. /\ \A i \in 1..m : \A v \in ls[i] :
               \E j \in 1..cm : v.name \in cs[j].names /\ Placed(fs, i, j)
          /\ \A j \in 1..cm : \A x \in cs[j].names : x \notin cs[j].left =>
               \E i \in 1..m : (\E v \in ls[i] : v.name = x) /\ Placed(fs, i, j)
      BY <1>0 DEF Shape, Declared
    <2>1. ASSUME NEW i \in 1..m1, NEW v \in ls1[i]
          PROVE  \E j \in 1..cm1 : v.name \in cs1[j].names /\ Placed(fs1, i, j)
      <3>1. CASE i \in 1..m
        <4>1. PICK j \in 1..cm : v.name \in cs[j].names /\ Placed(fs, i, j)
          BY <1>5, <2>0, <2>1, <3>1
        <4> QED
          BY <1>5, <1>6, <1>7, <3>1, <4>1
      <3>2. CASE i \in m+1..m1
        <4>1. PICK j \in cm+1..cm1 : v.name \in cs1[j].names
          BY <1>8, <2>1, <3>2
        <4> QED
          BY <1>6, <1>7, <3>2, <4>1
      <3> QED
        BY <1>6, <3>1, <3>2
    <2>2. ASSUME NEW j \in 1..cm1, NEW x \in cs1[j].names, x \notin cs1[j].left
          PROVE  \E i \in 1..m1 : (\E v \in ls1[i] : v.name = x) /\ Placed(fs1, i, j)
      <3>1. CASE j \in 1..cm
        <4>1. PICK i \in 1..m : (\E v \in ls[i] : v.name = x) /\ Placed(fs, i, j)
          BY <1>5, <2>0, <2>2, <3>1
        <4> QED
          BY <1>5, <1>6, <1>7, <3>1, <4>1
      <3>2. CASE j \in cm+1..cm1
        <4>1. PICK i \in m+1..m1 : \E v \in ls1[i] : v.name = x
          BY <1>8, <2>2, <3>2
        <4> QED
          BY <1>6, <1>7, <3>2, <4>1
      <3> QED
        BY <1>6, <3>1, <3>2
    <2> QED
      BY <1>4, <2>1, <2>2 DEF Declared
  <1>10. OneScope(ls1)
    <2> SUFFICES ASSUME NEW i \in 1..m1, NEW j \in 1..m1, NEW v \in ls1[i],
                        NEW w \in ls1[j], v.name = w.name
                 PROVE  i = j /\ v = w
      BY <1>4 DEF OneScope
    <2>0. \A k \in 1..m : \A u \in ls[k] : LocalIn(ls, u.name)
      BY <1>0 DEF LocalIn
    <2>1. CASE i \in 1..m /\ j \in 1..m
      BY <1>0, <1>5, <2>1 DEF Shape, OneScope
    <2>2. CASE i \in 1..m /\ j \in m+1..m1
      BY <1>5, <1>8, <2>0, <2>2
    <2>3. CASE i \in m+1..m1 /\ j \in 1..m
      BY <1>5, <1>8, <2>0, <2>3
    <2>4. CASE i \in m+1..m1 /\ j \in m+1..m1
      BY <1>8, <2>4
    <2> QED
      BY <1>6, <2>1, <2>2, <2>3, <2>4
  <1>11. HasBlock(fs1) <=> kind = "block" \/ HasBlock(fs)
    BY <1>0, <1>2, <1>6 DEF HasBlock
  <1>12. OneBlock(fs1, ls1, cs1)
    <2>1. ASSUME NEW k \in 1..n+1, NEW l \in 1..n+1,
                 fs1[k].kind = "block" /\ fs1[l].kind = "block"
          PROVE  k = l
      <3>1. CASE k \in 1..n /\ l \in 1..n
        BY <1>0, <1>2, <2>1, <3>1 DEF Shape, OneBlock
      <3>2. CASE k = n + 1 /\ l \in 1..n
        BY <1>0, <1>2, <2>1, <3>2 DEF HasBlock
      <3>3. CASE k \in 1..n /\ l = n + 1
        BY <1>0, <1>2, <2>1, <3>3 DEF HasBlock
      <3> QED
        BY <1>6, <3>1, <3>2, <3>3
    <2>2. ASSUME NEW j \in 1..cm1
          PROVE  cs1[j].fn = IF InBlock(fs1, j) THEN 1 ELSE 0
      <3>1. CASE j \in 1..cm
        <4>1. InBlock(fs1, j) <=> InBlock(fs, j)
          BY <1>0, <1>2, <1>3, <1>6, <3>1 DEF InBlock
        <4>2. cs[j].fn = IF InBlock(fs, j) THEN 1 ELSE 0
          BY <1>0, <3>1 DEF Shape, OneBlock
        <4> QED
          BY <1>5, <3>1, <4>1, <4>2
      <3>2. CASE j \in cm+1..cm1
        <4>1. j > cm /\ j \in Nat
          BY <1>6, <3>2
        <4>2. \A k \in 1..n : j > fs[k].cbase
          BY <1>3, <4>1
        <4>3. InBlock(fs1, j) <=> kind = "block" \/ HasBlock(fs)
          <5>1. \A k \in 1..n+1 : j > fs1[k].cbase
            BY <1>2, <1>6, <4>1, <4>2
          <5>2. InBlock(fs1, j) <=> HasBlock(fs1)
            BY <1>2, <5>1 DEF InBlock, HasBlock
          <5> QED
            BY <1>11, <5>2
        <4> QED
          BY <1>8, <3>2, <4>3
      <3> QED
        BY <1>6, <3>1, <3>2
    <2>3. ASSUME NEW i \in 1..m1, NEW v \in ls1[i], v.kind = "BLOCK_PARAM"
          PROVE  \E k \in 1..n+1 : fs1[k].kind = "block" /\ i > fs1[k].base
      <3>1. CASE i \in 1..m
        <4>1. PICK k \in 1..n : fs[k].kind = "block" /\ i > fs[k].base
          BY <1>0, <1>5, <2>3, <3>1 DEF Shape, OneBlock
        <4> QED
          BY <1>2, <1>6, <4>1
      <3>2. CASE i \in m+1..m1
        BY <1>2, <1>6, <1>8, <2>3, <3>2
      <3> QED
        BY <1>6, <3>1, <3>2
    <2> QED
      BY <1>2, <1>4, <2>1, <2>2, <2>3 DEF OneBlock
  <1>13. Iterators(fs1, ls1)
    <2> SUFFICES ASSUME NEW i \in 1..m1, NEW v \in ls1[i], NEW d \in 0..MaxDepth,
                        v.name = <<"iterator", d>>
                 PROVE  d + 1 \in 1..n+1 /\ i > fs1[d+1].base
      BY <1>2, <1>4 DEF Iterators
    <2>1. CASE i \in 1..m
      <3>1. d + 1 \in 1..n /\ i > fs[d+1].base
        BY <1>0, <1>5, <2>1 DEF Shape, Iterators
      <3> QED
        BY <1>2, <1>6, <3>1
    <2>2. CASE i \in m+1..m1
      BY <1>2, <1>6, <1>8, <2>2
    <2> QED
      BY <1>6, <2>1, <2>2
  <1> QED
    BY <1>2, <1>9, <1>10, <1>11, <1>12, <1>13 DEF Shape

-----------------------------------------------------------------------------
(* A statement is closed: what it opened is gone, except that the variables *)
(* of a finally block are left in C.                                        *)
LeftScopes(fs, ls, cs, ls1, cs1) ==
  LET f == fs[Len(fs)]
  IN  /\ ls1 \in Seq(SUBSET Variables) /\ Len(ls1) = f.base
      /\ cs1 \in Seq(CScopes) /\ Len(cs1) = f.cbase
      /\ \A i \in 1..f.base : ls1[i] = ls[i]
      /\ \A j \in 1..f.cbase : /\ cs1[j].fn = cs[j].fn /\ cs1[j].names = cs[j].names
                                /\ cs[j].left \subseteq cs1[j].left
      /\ f.kind = "finally" =>
           \A v \in ls[Len(ls)] : v.name \in cs1[Len(cs1)].left

LEMMA CutShape ==
  ASSUME NEW fs, NEW ls, NEW cs, Shape(fs, ls, cs), Len(fs) > 0,
         NEW ls1, NEW cs1, LeftScopes(fs, ls, cs, ls1, cs1),
         NEW fs1, fs1 = Cut(fs, 1)
  PROVE  /\ Shape(fs1, ls1, cs1)
         /\ fs[Len(fs)].kind = "block" => ~HasBlock(fs1)
         /\ fs[Len(fs)].kind # "block" => (HasBlock(fs1) <=> HasBlock(fs))
  <1>0. PICK n, f, m, cm : n = Len(fs) /\ f = fs[n] /\ m = f.base /\ cm = f.cbase
    OBVIOUS
  <1>1. Typed(fs, ls, cs) /\ Nested(fs, ls, cs)
    BY DEF Shape
  <1>2. /\ n \in Nat /\ n > 0 /\ n \in 1..n /\ Len(ls) \in Nat /\ Len(cs) \in Nat
        /\ \A k \in 1..n : /\ fs[k].base \in Nat /\ fs[k].cbase \in Nat
                            /\ fs[k].kind \in Kinds
                            /\ fs[k].base <= Len(ls) /\ fs[k].cbase <= Len(cs)
    BY <1>0, <1>1, Bases
  <1>3. /\ m \in Nat /\ cm \in Nat /\ m <= Len(ls) /\ cm <= Len(cs) /\ f.kind \in Kinds
    BY <1>0, <1>2
  <1>4. /\ fs1 \in Seq(Frames) /\ Len(fs1) = n - 1 /\ \A k \in 1..n-1 : fs1[k] = fs[k]
    <2>1. fs \in Seq(Frames) /\ 1 \in 0..Len(fs)
      BY <1>0, <1>1, <1>2 DEF Typed
    <2> QED
      BY <1>0, <2>1, CutSeq
  <1>5. /\ ls1 \in Seq(SUBSET Variables) /\ Len(ls1) = m
        /\ cs1 \in Seq(CScopes) /\ Len(cs1) = cm
        /\ \A i \in 1..m : ls1[i] = ls[i]
        /\ \A j \in 1..cm : /\ cs1[j].fn = cs[j].fn /\ cs1[j].names = cs[j].names
                             /\ cs[j].left \subseteq cs1[j].left
        /\ f.kind = "finally" => \A v \in ls[Len(ls)] : v.name \in cs1[cm].left
    BY <1>0 DEF LeftScopes
  <1>6. /\ \A i \in 1..m : i \in 1..Len(ls) /\ i <= m /\ i \in Nat
        /\ \A j \in 1..cm : j \in 1..Len(cs) /\ j <= cm /\ j \in Nat
        /\ \A k \in 1..n-1 : k \in 1..n /\ k # n /\ k \in Nat
        /\ \A k \in 1..n : k \in 1..n-1 \/ k = n
        /\ \A i \in 1..Len(ls) : i \in 1..m \/ i > m
    BY <1>2, <1>3
  <1>7. Typed(fs1, ls1, cs1)
    BY <1>4, <1>5 DEF Typed
  <1>8. Nested(fs1, ls1, cs1)
    <2>1. \A k, l \in 1..n-1 : k <= l =>
            fs1[k].base <= fs1[l].base /\ fs1[k].cbase <= fs1[l].cbase
      BY <1>0, <1>1, <1>4, <1>6 DEF Nested
    <2>2. ASSUME NEW k \in 1..n-1-1
          PROVE  /\ fs1[k+1].base = fs1[k].base + VarPushes(fs1[k].kind)
                 /\ fs1[k+1].cbase = fs1[k].cbase + Braces(fs1[k].kind)
      <3>1. k \in 1..n-1 /\ k + 1 \in 1..n-1
        BY <1>2
      <3> QED
        BY <1>0, <1>1, <1>4, <3>1 DEF Nested
    <2>3. CASE n = 1
      <3>1. m = 0 /\ cm = 0
        BY <1>0, <1>1, <2>3 DEF Nested
      <3> QED
        BY <1>4, <1>5, <2>1, <2>3, <3>1 DEF Nested
    <2>4. CASE n # 1
      <3>1. n - 1 \in 1..n-1 /\ 1 \in 1..n-1 /\ n - 1 + 1 = n
        BY <1>2, <2>4
      <3>2. /\ m = fs1[n-1].base + VarPushes(fs1[n-1].kind)
            /\ cm = fs1[n-1].cbase + Braces(fs1[n-1].kind)
        BY <1>0, <1>1, <1>4, <3>1 DEF Nested
      <3>3. fs1[1].base = 0 /\ fs1[1].cbase = 0
        BY <1>0, <1>1, <1>2, <1>4, <3>1 DEF Nested
      <3>4. \A k \in 1..n-1 : fs1[k].kind \in {"func", "expr"} <=> k = 1
        BY <1>0, <1>1, <1>4, <1>6 DEF Nested
      <3> QED
        BY SMTT(60), <1>2, <1>4, <1>5, <2>1, <2>2, <2>4, <3>2, <3>3, <3>4 DEF Nested
    <2> QED
      BY <2>3, <2>4
  <1>9. \A i, j : Placed(fs, i, j) => Placed(fs1, i, j)
    <2> SUFFICES ASSUME NEW i, NEW j, Placed(fs, i, j), NEW k \in 1..n-1
                 PROVE  IF i <= fs1[k].base THEN j <= fs1[k].cbase
                        ELSE \/ j > fs1[k].cbase
                             \/ fs1[k].kind = "finally" /\ j = fs1[k].cbase
      BY <1>4 DEF Placed
    <2>1. fs1[k] = fs[k] /\ k \in 1..Len(fs)
      BY <1>0, <1>4, <1>6
    <2> QED
      BY <2>1 DEF Placed
  <1>10. Declared(fs1, ls1, cs1)
    <2>1. ASSUME NEW i \in 1..m, NEW v \in ls1[i]
          PROVE  \E j \in 1..cm : v.name \in cs1[j].names /\ Placed(fs1, i, j)
      <3>1. i \in 1..Len(ls) /\ v \in ls[i] /\ i <= m
        BY <1>5, <1>6, <2>1
      <3>2. PICK j \in 1..Len(cs) : v.name \in cs[j].names /\ Placed(fs, i, j)
        BY <3>1 DEF Shape, Declared
      <3>3. j <= cm
        BY <1>0, <1>2, <3>1, <3>2 DEF Placed
      <3>4. j \in 1..cm
        BY <1>2, <1>3, <3>2, <3>3
      <3> QED
        BY <1>5, <1>9, <3>2, <3>4
    <2>2. ASSUME NEW j \in 1..cm, NEW x \in cs1[j].names, x \notin cs1[j].left
          PROVE  \E i \in 1..m : (\E v \in ls1[i] : v.name = x) /\ Placed(fs1, i, j)
      <3>1. j \in 1..Len(cs) /\ x \in cs[j].names /\ x \notin cs[j].left /\ j <= cm
        BY <1>5, <1>6, <2>2
      <3>2. PICK i \in 1..Len(ls) : (\E v \in ls[i] : v.name = x) /\ Placed(fs, i, j)
        BY <3>1 DEF Shape, Declared
      <3>3. i \in 1..m
        <4> SUFFICES ASSUME i > m PROVE FALSE
          BY <1>6, <3>2
        <4>1. f.kind = "finally" /\ j = cm
          BY <1>0, <1>2, <1>3, <3>1, <3>2 DEF Placed
        <4>2. Len(ls) = m + 1
          BY <1>0, <1>1, <1>2, <4>1, Openings DEF Nested
        <4>3. i = Len(ls)
          BY <1>3, <3>2, <4>2
        <4> QED
          BY <1>5, <2>2, <3>2, <4>1, <4>3
      <3> QED
        BY <1>5, <1>9, <3>2, <3>3
    <2> QED
      BY <1>5, <2>1, <2>2 DEF Declared
  <1>11. OneScope(ls1)
    BY <1>5, <1>6 DEF Shape, OneScope
  <1>12. OneBlock(fs1, ls1, cs1)
    <2>1. \A k, l \in 1..n-1 : fs1[k].kind = "block" /\ fs1[l].kind = "block" => k = l
      BY <1>0, <1>4, <1>6 DEF Shape, OneBlock
    <2>2. ASSUME NEW j \in 1..cm
          PROVE  cs1[j].fn = IF InBlock(fs1, j) THEN 1 ELSE 0
      <3>1. cs[j].fn = IF InBlock(fs, j) THEN 1 ELSE 0
        BY <1>6, <2>2 DEF Shape, OneBlock
      <3>2. ~(j > f.cbase)
        BY <1>0, <1>3, <1>6, <2>2
      <3>3. InBlock(fs1, j) <=> InBlock(fs, j)
        BY <1>0, <1>4, <1>6, <3>2 DEF InBlock
      <3> QED
        BY <1>5, <3>1, <3>3
    <2>3. ASSUME NEW i \in 1..m, NEW v \in ls1[i], v.kind = "BLOCK_PARAM"
          PROVE  \E k \in 1..n-1 : fs1[k].kind = "block" /\ i > fs1[k].base
      <3>1. PICK k \in 1..n : fs[k].kind = "block" /\ i > fs[k].base
        BY <1>0, <1>5, <1>6, <2>3 DEF Shape, OneBlock
      <3>2. k # n
        BY <1>0, <1>3, <1>6, <3>1
      <3> QED
        BY <1>4, <1>6, <3>1, <3>2
    <2> QED
      BY <1>4, <1>5, <2>1, <2>2, <2>3 DEF OneBlock
  <1>13. Iterators(fs1, ls1)
    <2> SUFFICES ASSUME NEW i \in 1..m, NEW v \in ls1[i], NEW d \in 0..MaxDepth,
                        v.name = <<"iterator", d>>
                 PROVE  d + 1 \in 1..n-1 /\ i > fs1[d+1].base
      BY <1>4, <1>5 DEF Iterators
    <2>1. d + 1 \in 1..n /\ i > fs[d+1].base
      BY <1>0, <1>5, <1>6 DEF Shape, Iterators
    <2>2. d + 1 # n
      BY SMTT(60), <1>0, <1>3, <1>6, <2>1
    <2> QED
      BY <1>4, <1>6, <2>1, <2>2
  <1>14. Shape(fs1, ls1, cs1)
    BY <1>7, <1>8, <1>10, <1>11, <1>12, <1>13 DEF Shape
  <1>15. f.kind = "block" => ~HasBlock(fs1)
    BY <1>0, <1>2, <1>4, <1>6 DEF HasBlock, Shape, OneBlock
  <1>16. f.kind # "block" => (HasBlock(fs1) <=> HasBlock(fs))
    BY <1>0, <1>4, <1>6 DEF HasBlock
  <1> QED
    BY <1>0, <1>14, <1>15, <1>16

-----------------------------------------------------------------------------
(* A variable is declared in the topmost scope, here and in C.              *)
LEMMA TopPlaced ==
  ASSUME NEW fs, NEW ls, NEW cs, Typed(fs, ls, cs), Nested(fs, ls, cs), Len(fs) > 0,
         fs[Len(fs)].kind # "expr"
  PROVE  /\ Len(ls) \in 1..Len(ls) /\ Len(cs) \in 1..Len(cs)
         /\ Placed(fs, Len(ls), Len(cs))
         /\ \A k \in 1..Len(fs) : fs[k].base < Len(ls)
  <1>0. PICK n : n = Len(fs)
    OBVIOUS
  <1>1. /\ n \in Nat /\ n > 0 /\ n \in 1..n /\ 1 \in 1..n
        /\ Len(ls) \in Nat /\ Len(cs) \in Nat
        /\ \A k \in 1..n : /\ fs[k].base \in Nat /\ fs[k].cbase \in Nat
                            /\ fs[k].kind \in Kinds
                            /\ fs[k].base <= Len(ls) /\ fs[k].cbase <= Len(cs)
    BY <1>0, Bases
  <1>2. /\ Len(ls) = fs[n].base + VarPushes(fs[n].kind)
        /\ Len(cs) = fs[n].cbase + Braces(fs[n].kind)
        /\ \A k \in 1..n : fs[k].base <= fs[n].base /\ fs[k].cbase <= fs[n].cbase
    BY <1>0, <1>1 DEF Nested
  <1>3. \A k \in 1..n : fs[k].base < Len(ls)
    <2>1. VarPushes(fs[n].kind) \in Nat /\ VarPushes(fs[n].kind) # 0
      BY <1>0, <1>1, Openings
    <2> QED
      BY <1>1, <1>2, <2>1
  <1>4. ASSUME NEW k \in 1..n
        PROVE  \/ Len(cs) > fs[k].cbase
               \/ fs[k].kind = "finally" /\ Len(cs) = fs[k].cbase
    <2> SUFFICES ASSUME Len(cs) = fs[k].cbase PROVE fs[k].kind = "finally"
      BY <1>1
    <2>1. CASE k = n
      <3>1. Braces(fs[n].kind) \in Nat /\ fs[n].cbase \in Nat /\ fs[n].kind \in Kinds
        BY <1>1, Openings
      <3>a. fs[n].cbase = fs[n].cbase + Braces(fs[n].kind)
        BY <1>2, <2>1
      <3>2. Braces(fs[n].kind) = 0
        BY <3>1, <3>a
      <3> QED
        BY <2>1, <3>1, <3>2, Openings
    <2>2. CASE k # n
      <3>1. k \in 1..n-1 /\ k + 1 \in 1..n
        BY <1>1, <2>2
      <3>2. fs[k+1].cbase = fs[k].cbase + Braces(fs[k].kind)
        BY <1>0, <3>1 DEF Nested
      <3>3. fs[k+1].cbase <= Len(cs) /\ Braces(fs[k].kind) \in Nat /\ fs[k].cbase \in Nat
        BY <1>1, <3>1, Openings
      <3>4. Braces(fs[k].kind) = 0
        BY <1>1, <3>2, <3>3
      <3> QED
        BY <1>1, <3>4, Openings
    <2> QED
      BY <2>1, <2>2
  <1>5. Len(ls) > 0 /\ Len(cs) > 0
    <2>1. Len(ls) > 0
      BY <1>1, <1>3
    <2>2. fs[1].kind # "finally" /\ fs[1].cbase \in Nat
      BY <1>0, <1>1 DEF Nested
    <2> QED
      BY <1>1, <1>4, <2>1, <2>2
  <1>6. Placed(fs, Len(ls), Len(cs))
    BY <1>0, <1>1, <1>3, <1>4 DEF Placed
  <1> QED
    BY <1>0, <1>1, <1>3, <1>5, <1>6

LEMMA DeclareShape ==
  ASSUME NEW fs, NEW ls, NEW cs, Shape(fs, ls, cs), Len(fs) > 0,
         fs[Len(fs)].kind # "expr",
         NEW x \in Vars \union Globals \union {Self}, ~LocalIn(ls, x),
         NEW ls1, ls1 = WithLocal(ls, x), NEW cs1, cs1 = WithName(cs, x)
  PROVE  /\ Shape(fs, ls1, cs1) /\ Len(cs1) = Len(cs)
         /\ \A j \in 1..Len(cs) : cs[j].names \subseteq cs1[j].names
  <1>0. PICK m, cm, v : m = Len(ls) /\ cm = Len(cs) /\ v = Variable(x, "REGULAR")
    OBVIOUS
  <1>1. Typed(fs, ls, cs) /\ Nested(fs, ls, cs)
    BY DEF Shape
  <1>2. /\ m \in 1..m /\ cm \in 1..cm /\ Placed(fs, m, cm) /\ m \in Nat /\ cm \in Nat
    BY <1>0, <1>1, TopPlaced
  <1>3. v \in Variables /\ x \in Names /\ v.name = x /\ v.kind = "REGULAR"
    BY <1>0 DEF Variables, Names, Variable
  <1>4. /\ ls1 \in Seq(SUBSET Variables) /\ Len(ls1) = m /\ ls1[m] = ls[m] \union {v}
        /\ \A i \in 1..m : i # m => ls1[i] = ls[i]
    <2>1. ls1 = [ls EXCEPT ![m] = ls[m] \union {v}]
      BY <1>0, <1>2 DEF WithLocal
    <2>2. ls \in Seq(SUBSET Variables) /\ ls[m] \union {v} \in SUBSET Variables
      BY <1>0, <1>1, <1>2, <1>3 DEF Typed
    <2> QED
      BY <1>0, <1>2, <2>1, <2>2
  <1>5. /\ cs1 \in Seq(CScopes) /\ Len(cs1) = cm
        /\ cs1[cm].names = cs[cm].names \union {x} /\ cs1[cm].left = cs[cm].left
        /\ cs1[cm].fn = cs[cm].fn
        /\ \A j \in 1..cm : j # cm => cs1[j] = cs[j]
    <2>0. cs \in Seq(CScopes) /\ cs[cm] \in CScopes
      BY <1>0, <1>1, <1>2 DEF Typed
    <2>1. PICK c : c = [cs[cm] EXCEPT !.names = cs[cm].names \union {x}]
      OBVIOUS
    <2>2. /\ c \in CScopes /\ c.names = cs[cm].names \union {x}
          /\ c.left = cs[cm].left /\ c.fn = cs[cm].fn
      BY <1>3, <2>0, <2>1 DEF CScopes
    <2>3. cs1 = [cs EXCEPT ![cm] = c]
      BY <1>0, <1>2, <2>0, <2>1 DEF WithName
    <2> QED
      BY <1>0, <1>2, <2>0, <2>2, <2>3
  <1>6. /\ \A i \in 1..m : \A w \in ls1[i] : w \in ls[i] \/ (i = m /\ w = v)
        /\ \A i \in 1..m : ls[i] \subseteq ls1[i]
        /\ \A j \in 1..cm : /\ cs[j].names \subseteq cs1[j].names
                             /\ cs1[j].left = cs[j].left /\ cs1[j].fn = cs[j].fn
                             /\ \A y \in cs1[j].names :
                                  y \in cs[j].names \/ (j = cm /\ y = x)
    BY <1>4, <1>5
  <1>7. Typed(fs, ls1, cs1) /\ Nested(fs, ls1, cs1)
    BY <1>0, <1>1, <1>4, <1>5 DEF Typed, Nested
  <1>8. Declared(fs, ls1, cs1)
    <2>1. ASSUME NEW i \in 1..m, NEW w \in ls1[i]
          PROVE  \E j \in 1..cm : w.name \in cs1[j].names /\ Placed(fs, i, j)
      <3>1. CASE w \in ls[i]
        BY <1>0, <1>6, <3>1 DEF Shape, Declared
      <3>2. CASE i = m /\ w = v
        BY <1>2, <1>3, <1>5, <3>2
      <3> QED
        BY <1>6, <2>1, <3>1, <3>2
    <2>2. ASSUME NEW j \in 1..cm, NEW y \in cs1[j].names, y \notin cs1[j].left
          PROVE  \E i \in 1..m : (\E w \in ls1[i] : w.name = y) /\ Placed(fs, i, j)
      <3>1. CASE y \in cs[j].names
        <4>1. PICK i \in 1..m : (\E w \in ls[i] : w.name = y) /\ Placed(fs, i, j)
          BY <1>0, <1>6, <2>2, <3>1 DEF Shape, Declared
        <4> QED
          BY <1>6, <4>1
      <3>2. CASE j = cm /\ y = x
        BY <1>2, <1>3, <1>4, <3>2
      <3> QED
        BY <1>6, <2>2, <3>1, <3>2
    <2> QED
      BY <1>4, <1>5, <2>1, <2>2 DEF Declared
  <1>9. OneScope(ls1)
    <2>1. \A i \in 1..m : \A w \in ls[i] : w.name # x
      BY <1>0 DEF LocalIn
    <2> SUFFICES ASSUME NEW i \in 1..m, NEW j \in 1..m, NEW u \in ls1[i],
                        NEW w \in ls1[j], u.name = w.name
                 PROVE  i = j /\ u = w
      BY <1>4 DEF OneScope
    <2>2. CASE u \in ls[i] /\ w \in ls[j]
      BY <1>0, <2>2 DEF Shape, OneScope
    <2>3. CASE u = v /\ i = m
      BY <1>3, <1>6, <2>1, <2>3
    <2>4. CASE w = v /\ j = m
      BY <1>3, <1>6, <2>1, <2>4
    <2> QED
      BY <1>6, <2>2, <2>3, <2>4
  <1>10. OneBlock(fs, ls1, cs1)
    <2>1. \A j \in 1..cm : cs1[j].fn = IF InBlock(fs, j) THEN 1 ELSE 0
      BY <1>0, <1>6 DEF Shape, OneBlock
    <2>2. \A i \in 1..m : \A w \in ls1[i] : w.kind = "BLOCK_PARAM" =>
            \E k \in 1..Len(fs) : fs[k].kind = "block" /\ i > fs[k].base
      BY <1>0, <1>3, <1>6 DEF Shape, OneBlock
    <2> QED
      BY <1>4, <1>5, <2>1, <2>2 DEF Shape, OneBlock
  <1>11. Iterators(fs, ls1)
    <2>1. \A d \in 0..MaxDepth : x # <<"iterator", d>>
      BY NamesAssumption
    <2> SUFFICES ASSUME NEW i \in 1..m, NEW w \in ls1[i], NEW d \in 0..MaxDepth,
                        w.name = <<"iterator", d>>
                 PROVE  d + 1 \in 1..Len(fs) /\ i > fs[d+1].base
      BY <1>4 DEF Iterators
    <2>2. w \in ls[i]
      BY <1>3, <1>6, <2>1
    <2> QED
      BY <1>0, <2>2 DEF Shape, Iterators
  <1> QED
    BY <1>0, <1>5, <1>6, <1>7, <1>8, <1>9, <1>10, <1>11 DEF Shape

-----------------------------------------------------------------------------
(* The stacker follows the statements.                                      *)
Entered(fs, sk, kind) ==
  IF OnStacker(kind) THEN Append(sk, [kind |-> kind, depth |-> Len(fs) + 1]) ELSE sk

Exited(fs, sk) == IF OnStacker(fs[Len(fs)].kind) THEN Cut(sk, 1) ELSE sk

LEMMA StackPush ==
  ASSUME NEW fs \in Seq(Frames), NEW sk, Stacked(fs, sk), NEW f \in Frames,
         NEW sk1, sk1 = Entered(fs, sk, f.kind)
  PROVE  Stacked(Append(fs, f), sk1)
  <1>0. PICK fs1, n, m : fs1 = Append(fs, f) /\ n = Len(fs) /\ m = Len(sk)
    OBVIOUS
  <1>1. /\ n \in Nat /\ Len(fs1) = n + 1 /\ fs1[n+1] = f /\ \A k \in 1..n : fs1[k] = fs[k]
        /\ \A k \in 1..n+1 : k \in 1..n \/ k = n + 1
        /\ \A k \in 1..n : k \in 1..n+1
    BY <1>0
  <1>2. sk \in Seq([kind : Kinds, depth : Nat]) /\ m \in Nat
    BY <1>0 DEF Stacked
  <1>3. CASE ~OnStacker(f.kind)
    BY <1>0, <1>1, <1>3 DEF Stacked, Entered
  <1>4. CASE OnStacker(f.kind)
    <2>0. PICK e : e = [kind |-> f.kind, depth |-> n + 1]
      OBVIOUS
    <2>1. /\ e \in [kind : Kinds, depth : Nat] /\ e.kind = f.kind /\ e.depth = n + 1
      BY <1>1, <2>0 DEF Frames
    <2>2. sk1 = Append(sk, e)
      BY <1>0, <1>4, <2>0 DEF Entered
    <2>3. /\ sk1 \in Seq([kind : Kinds, depth : Nat]) /\ Len(sk1) = m + 1
          /\ sk1[m+1] = e /\ \A s \in 1..m : sk1[s] = sk[s]
      BY <1>0, <1>2, <2>1, <2>2, PushSeq
    <2>4. /\ \A s \in 1..m+1 : s \in 1..m \/ s = m + 1
          /\ \A s \in 1..m : s \in 1..m+1
          /\ m + 1 \in 1..m+1
      BY <1>2
    <2>5. \A s \in 1..m : /\ sk[s].depth \in 1..n /\ fs[sk[s].depth].kind = sk[s].kind
                          /\ OnStacker(sk[s].kind)
      BY <1>0 DEF Stacked
    <2>6. \A s \in 1..m+1 : /\ sk1[s].depth \in 1..n+1
                            /\ fs1[sk1[s].depth].kind = sk1[s].kind
                            /\ OnStacker(sk1[s].kind)
      BY <1>1, <1>4, <2>1, <2>3, <2>4, <2>5
    <2>7. ASSUME NEW s \in 1..m+1, NEW t \in 1..m+1, s < t
          PROVE  sk1[s].depth < sk1[t].depth
      <3>1. s \in 1..m
        BY <1>2, <2>7
      <3>2. CASE t \in 1..m
        BY <1>0, <2>3, <2>7, <3>1, <3>2 DEF Stacked
      <3>3. CASE t = m + 1
        BY <1>1, <2>1, <2>3, <2>5, <3>1, <3>3
      <3> QED
        BY <2>4, <3>2, <3>3
    <2>8. ASSUME NEW k \in 1..n+1, OnStacker(fs1[k].kind)
          PROVE  \E s \in 1..m+1 : sk1[s].depth = k
      <3>1. CASE k \in 1..n
        <4>1. PICK s \in 1..m : sk[s].depth = k
          BY <1>0, <1>1, <2>8, <3>1 DEF Stacked
        <4> QED
          BY <2>3, <2>4, <4>1
      <3>2. CASE k = n + 1
        BY <2>1, <2>3, <2>4, <3>2
      <3> QED
        BY <1>1, <3>1, <3>2
    <2> QED
      BY <1>0, <1>1, <2>3, <2>6, <2>7, <2>8 DEF Stacked
  <1> QED
    BY <1>3, <1>4

LEMMA StackPop ==
  ASSUME NEW fs \in Seq(Frames), Len(fs) > 0, NEW sk, Stacked(fs, sk),
         NEW sk1, sk1 = Exited(fs, sk)
  PROVE  Stacked(Cut(fs, 1), sk1)
  <1>0. PICK fs1, n, m : fs1 = Cut(fs, 1) /\ n = Len(fs) /\ m = Len(sk)
    OBVIOUS
  <1>1. /\ n \in Nat /\ n > 0 /\ Len(fs1) = n - 1 /\ \A k \in 1..n-1 : fs1[k] = fs[k]
    <2>1. 1 \in 0..Len(fs) /\ Len(fs) \in Nat
      OBVIOUS
    <2>2. /\ Len(Cut(fs, 1)) = Len(fs) - 1
          /\ \A k \in 1..(Len(fs) - 1) : Cut(fs, 1)[k] = fs[k]
      BY <2>1, CutSeq
    <2> QED
      BY <1>0, <2>1, <2>2
  <1>2. /\ \A k \in 1..n : k \in 1..n-1 \/ k = n
        /\ \A k \in 1..n-1 : k \in 1..n /\ k # n
        /\ n \in 1..n
    BY <1>1
  <1>3. sk \in Seq([kind : Kinds, depth : Nat]) /\ m \in Nat
    BY <1>0 DEF Stacked
  <1>4. /\ \A s \in 1..m : /\ sk[s].depth \in 1..n /\ fs[sk[s].depth].kind = sk[s].kind
                            /\ OnStacker(sk[s].kind)
        /\ \A s, t \in 1..m : s < t => sk[s].depth < sk[t].depth
        /\ \A k \in 1..n : OnStacker(fs[k].kind) => \E s \in 1..m : sk[s].depth = k
    BY <1>0 DEF Stacked
  <1>5. CASE ~OnStacker(fs[n].kind)
    <2>1. sk1 = sk
      BY <1>0, <1>5 DEF Exited
    <2>2. ASSUME NEW s \in 1..m PROVE sk[s].depth \in 1..n-1
      <3>1. sk[s].depth \in 1..n /\ OnStacker(fs[sk[s].depth].kind)
        BY <1>4
      <3> QED
        BY <1>2, <1>5, <3>1
    <2>3. \A s \in 1..m : fs1[sk[s].depth].kind = sk[s].kind
      BY <1>1, <1>4, <2>2
    <2>4. \A k \in 1..n-1 : OnStacker(fs1[k].kind) => \E s \in 1..m : sk[s].depth = k
      BY <1>1, <1>2, <1>4
    <2> QED
      BY <1>0, <1>1, <1>3, <1>4, <2>1, <2>2, <2>3, <2>4 DEF Stacked
  <1>6. CASE OnStacker(fs[n].kind)
    <2>1. PICK u \in 1..m : sk[u].depth = n
      BY <1>2, <1>4, <1>6
    <2>2. m > 0 /\ m \in 1..m /\ u = m
      <3>1. m > 0 /\ m \in 1..m
        BY <1>3, <2>1
      <3>2. ~(u < m)
        <4> SUFFICES ASSUME u < m PROVE FALSE
          OBVIOUS
        <4>1. sk[u].depth < sk[m].depth /\ sk[m].depth \in 1..n
          BY <1>4, <3>1
        <4> QED
          BY <1>1, <2>1, <4>1
      <3> QED
        BY <1>3, <2>1, <3>1, <3>2
    <2>3. sk1 = Cut(sk, 1)
      BY <1>0, <1>6 DEF Exited
    <2>4. /\ sk1 \in Seq([kind : Kinds, depth : Nat]) /\ Len(sk1) = m - 1
          /\ \A s \in 1..m-1 : sk1[s] = sk[s]
      <3>1. 1 \in 0..Len(sk)
        BY <1>0, <1>3, <2>2
      <3> QED
        BY <1>0, <1>3, <2>3, <3>1, CutSeq
    <2>5. \A s \in 1..m-1 : s \in 1..m /\ s < m
      BY <1>3
    <2>6. \A s \in 1..m-1 : sk[s].depth \in 1..n-1
      <3> SUFFICES ASSUME NEW s \in 1..m-1 PROVE sk[s].depth \in 1..n-1
        OBVIOUS
      <3>1. sk[s].depth < n /\ sk[s].depth \in 1..n
        BY <1>4, <2>1, <2>2, <2>5
      <3> QED
        BY <1>1, <3>1
    <2>7. \A s \in 1..m-1 : /\ fs1[sk1[s].depth].kind = sk1[s].kind
                            /\ OnStacker(sk1[s].kind)
      BY SMTT(60), <1>1, <1>4, <2>4, <2>5, <2>6
    <2>8. \A s, t \in 1..m-1 : s < t => sk1[s].depth < sk1[t].depth
      BY <1>4, <2>4, <2>5
    <2>9. ASSUME NEW k \in 1..n-1, OnStacker(fs1[k].kind)
          PROVE  \E s \in 1..m-1 : sk1[s].depth = k
      <3>1. PICK s \in 1..m : sk[s].depth = k
        BY <1>1, <1>2, <1>4, <2>9
      <3>2. s # m
        BY <1>2, <2>1, <2>2, <3>1
      <3>3. s \in 1..m-1
        BY <1>3, <3>1, <3>2
      <3> QED
        BY <2>4, <3>1, <3>3
    <2> QED
      BY <1>0, <1>1, <2>4, <2>6, <2>7, <2>8, <2>9 DEF Stacked
  <1> QED
    BY <1>5, <1>6

(* stacker_unwind() answers the n-th loop around, with nothing but loops    *)
(* between.                                                                 *)
LEMMA UnwindsLoops ==
  ASSUME Stacked(frames, stacker), frames \in Seq(Frames), NEW n \in Nat,
         ~UnwindFails(n), NEW d, d = Unwind(n).depth
  PROVE  /\ Left(d) \intersect Tries = {}
         /\ n = Cardinality({i \in d..Len(frames) : frames[i].kind \in {"loop", "for"}})
  <1>0. PICK m, N, b, X : /\ m = Len(stacker) /\ N = Len(frames) /\ b = m - n + 1
                          /\ X = {i \in d..N : frames[i].kind \in {"loop", "for"}}
    OBVIOUS
  <1>1. m \in Nat /\ N \in Nat
    BY <1>0 DEF Stacked
  <1>2. n >= 1 /\ n <= m /\ \A i \in b..m : stacker[i].kind \notin Tries
    BY <1>0, <1>1 DEF UnwindFails
  <1>3. b \in 1..m /\ d = stacker[b].depth
    BY <1>0, <1>1, <1>2 DEF Unwind
  <1>4. /\ \A s \in 1..m : /\ stacker[s].depth \in 1..N
                            /\ frames[stacker[s].depth].kind = stacker[s].kind
                            /\ OnStacker(stacker[s].kind)
        /\ \A s, t \in 1..m : s < t => stacker[s].depth < stacker[t].depth
        /\ \A k \in 1..N : OnStacker(frames[k].kind) =>
             \E s \in 1..m : stacker[s].depth = k
    BY <1>0 DEF Stacked
  <1>5. d \in 1..N /\ \A i \in d..N : i \in 1..N
    BY <1>1, <1>3, <1>4
  <1>6. ASSUME NEW i \in d..N, OnStacker(frames[i].kind)
        PROVE  /\ frames[i].kind \in {"loop", "for"}
               /\ \E s \in b..m : stacker[s].depth = i
    <2>1. PICK s \in 1..m : stacker[s].depth = i
      BY <1>4, <1>5, <1>6
    <2>2. ~(s < b)
      <3> SUFFICES ASSUME s < b PROVE FALSE
        OBVIOUS
      <3>1. stacker[s].depth < d /\ stacker[s].depth \in 1..N
        BY <1>3, <1>4
      <3> QED
        BY <1>1, <1>5, <2>1, <3>1
    <2>3. s \in b..m
      BY <1>1, <1>3, <2>1, <2>2
    <2>4. frames[i].kind \notin Tries
      BY <1>2, <1>4, <2>1, <2>3
    <2> QED
      BY <1>6, <2>1, <2>3, <2>4 DEF OnStacker, Tries
  <1>7. Left(d) \intersect Tries = {}
    <2> SUFFICES ASSUME NEW i \in d..N, frames[i].kind \in Tries PROVE FALSE
      BY <1>0 DEF Left
    <2>1. OnStacker(frames[i].kind)
      BY DEF Tries, OnStacker
    <2> QED
      BY <1>6, <2>1 DEF Tries
  <1>8. n = Cardinality(X)
    <2> DEFINE g == [s \in b..m |-> stacker[s].depth]
    <2>1. \A s \in b..m : s \in 1..m /\ (s = b \/ b < s)
      BY <1>1, <1>3
    <2>2. ASSUME NEW s \in b..m
          PROVE  stacker[s].depth \in X
      <3>1. stacker[s].depth \in d..N
        <4>1. stacker[s].depth \in 1..N /\ (s = b \/ d < stacker[s].depth)
          BY <1>3, <1>4, <2>1
        <4> QED
          BY <1>1, <1>3, <1>5, <4>1
      <3>2. OnStacker(frames[stacker[s].depth].kind)
        BY <1>4, <2>1
      <3> QED
        BY <1>0, <1>6, <3>1, <3>2
    <2>3. g \in [b..m -> X]
      BY <2>2
    <2>4. \A s, t \in b..m : g[s] = g[t] => s = t
      <3> SUFFICES ASSUME NEW s \in b..m, NEW t \in b..m,
                          stacker[s].depth = stacker[t].depth
                   PROVE  s = t
        OBVIOUS
      <3>1. /\ stacker[s].depth \in 1..N /\ stacker[t].depth \in 1..N
            /\ s < t => stacker[s].depth < stacker[t].depth
            /\ t < s => stacker[t].depth < stacker[s].depth
        BY <1>4, <2>1
      <3>2. ~(s < t) /\ ~(t < s)
        BY <1>1, <3>1
      <3> QED
        BY <1>1, <1>3, <3>2
    <2>5. \A i \in X : \E s \in b..m : g[s] = i
      <3>1. \A i \in X : i \in d..N /\ OnStacker(frames[i].kind)
        BY <1>0 DEF OnStacker
      <3> QED
        BY <1>6, <3>1
    <2>6. g \in Bijection(b..m, X)
      BY <2>3, <2>4, <2>5 DEF Bijection, Injection, Surjection, IsInjective
    <2>7. ExistsBijection(b..m, X)
      BY <2>6 DEF ExistsBijection
    <2>8. IsFiniteSet(b..m) /\ Cardinality(b..m) = n
      <3>1. b \in Int /\ m \in Int /\ b <= m /\ m - b + 1 = n
        BY <1>0, <1>1, <1>2, <1>3
      <3> QED
        BY <3>1, FS_Interval
    <2> QED
      BY <2>7, <2>8, FS_Bijection
  <1> QED
    BY <1>0, <1>7, <1>8

-----------------------------------------------------------------------------
(* Where the C compiler finds a variable.                                   *)
LEMMA Found ==
  ASSUME NEW fs, NEW ls, NEW cs, Shape(fs, ls, cs),
         NEW i \in 1..Len(ls), NEW v \in ls[i]
  PROVE  /\ (\E k \in 1..Len(fs) : fs[k].kind = "block" /\ i > fs[k].base) =>
              Resolves(cs, 1, v.name)
         /\ (\A k \in 1..Len(fs) : fs[k].kind = "block" => i <= fs[k].base) =>
              Resolves(cs, 0, v.name)
  <1>0. /\ Len(fs) \in Nat /\ Len(ls) \in Nat /\ Len(cs) \in Nat
        /\ \A k \in 1..Len(fs) : fs[k].base \in Nat /\ fs[k].cbase \in Nat
    BY Bases DEF Shape
  <1>1. PICK j \in 1..Len(cs) : v.name \in cs[j].names /\ Placed(fs, i, j)
    BY DEF Shape, Declared
  <1>2. cs[j].fn = IF InBlock(fs, j) THEN 1 ELSE 0
    BY DEF Shape, OneBlock
  <1>3. ASSUME NEW k \in 1..Len(fs), fs[k].kind = "block", i > fs[k].base
        PROVE  Resolves(cs, 1, v.name)
    <2>1. ~(i <= fs[k].base)
      BY <1>0, <1>3
    <2>2. j > fs[k].cbase
      BY <1>1, <1>3, <2>1 DEF Placed
    <2>3. cs[j].fn = 1
      BY <1>2, <1>3, <2>2 DEF InBlock
    <2> QED
      BY <1>1, <2>3 DEF Resolves
  <1>4. ASSUME \A k \in 1..Len(fs) : fs[k].kind = "block" => i <= fs[k].base
        PROVE  Resolves(cs, 0, v.name)
    <2>1. \A k \in 1..Len(fs) : fs[k].kind = "block" => j <= fs[k].cbase
      BY <1>1, <1>4 DEF Placed
    <2>2. ~InBlock(fs, j)
      BY <1>0, <2>1 DEF InBlock
    <2> QED
      BY <1>1, <1>2, <2>2 DEF Resolves
  <1> QED
    BY <1>3, <1>4

LEMMA BlockIs ==
  ASSUME CodeInv, context_block = TRUE
  PROVE  /\ BlockAt \in 1..Len(frames) /\ frames[BlockAt].kind = "block"
         /\ \A k \in 1..Len(frames) : frames[k].kind = "block" => k = BlockAt
  <1>1. PICK k \in 1..Len(frames) : frames[k].kind = "block"
    BY DEF CodeInv, HasBlock
  <1>2. BlockAt \in 1..Len(frames) /\ frames[BlockAt].kind = "block"
    BY <1>1 DEF BlockAt
  <1> QED
    BY <1>2 DEF CodeInv, Shape, OneBlock

LEMMA LocalResolves ==
  ASSUME CodeInv, NEW i \in 1..Len(locals), NEW v \in locals[i]
  PROVE  /\ ~(context_block = TRUE) => Resolves(cscopes, 0, v.name)
         /\ context_block = TRUE =>
              /\ i > frames[BlockAt].base => Resolves(cscopes, 1, v.name)
              /\ ~(i > frames[BlockAt].base) => Resolves(cscopes, 0, v.name)
         /\ v.kind = "BLOCK_PARAM" => context_block = TRUE /\ i > frames[BlockAt].base
  <1>0. /\ Shape(frames, locals, cscopes) /\ Len(locals) \in Nat
        /\ \A k \in 1..Len(frames) : frames[k].base \in Nat
    BY Bases DEF CodeInv, Shape
  <1>1. CASE ~(context_block = TRUE)
    <2>1. ~HasBlock(frames)
      BY <1>1 DEF CodeInv
    <2>2. \A k \in 1..Len(frames) : frames[k].kind # "block"
      BY <2>1 DEF HasBlock
    <2>3. Resolves(cscopes, 0, v.name)
      BY <1>0, <2>2, Found
    <2>4. v.kind # "BLOCK_PARAM"
      BY <1>0, <2>2 DEF Shape, OneBlock
    <2> QED
      BY <1>1, <2>3, <2>4
  <1>2. CASE context_block = TRUE
    <2>1. /\ BlockAt \in 1..Len(frames) /\ frames[BlockAt].kind = "block"
          /\ \A k \in 1..Len(frames) : frames[k].kind = "block" => k = BlockAt
      BY <1>2, BlockIs
    <2>2. i > frames[BlockAt].base => Resolves(cscopes, 1, v.name)
      BY <1>0, <2>1, Found
    <2>3. ~(i > frames[BlockAt].base) => i <= frames[BlockAt].base
      BY <1>0, <2>1
    <2>4. ~(i > frames[BlockAt].base) => Resolves(cscopes, 0, v.name)
      BY <1>0, <2>1, <2>3, Found
    <2>5. v.kind = "BLOCK_PARAM" => i > frames[BlockAt].base
      BY <1>0, <2>1 DEF Shape, OneBlock
    <2> QED
      BY <1>2, <2>2, <2>4, <2>5
  <1> QED
    BY <1>1, <1>2

(* A name of the C scope that is open is visible, or left by a finally      *)
(* block.                                                                   *)
LEMMA TopNames ==
  ASSUME CodeInv, pc = "gen", NEW x, x \in cscopes[Len(cscopes)].names,
         Frame.kind # "expr", ~LocalIn(locals, x)
  PROVE  x \in cscopes[Len(cscopes)].left
  <1>1. Len(cscopes) \in 1..Len(cscopes)
    <2>1. Typed(frames, locals, cscopes) /\ Nested(frames, locals, cscopes)
          /\ frames # <<>>
      BY DEF CodeInv, Shape
    <2>2. Len(frames) > 0 /\ frames[Len(frames)].kind # "expr"
      BY <2>1 DEF Typed, Frame
    <2> QED
      BY <2>1, <2>2, TopPlaced
  <1> QED
    BY <1>1 DEF CodeInv, Shape, Declared, LocalIn

-----------------------------------------------------------------------------
(* Steps that write code and change no scope.                               *)
LEMMA SameInv ==
  ASSUME CodeInv, UNCHANGED <<pc, entry, frames, locals, cscopes, stacker, context_block>>,
         bad' \subseteq odd'
  PROVE  CodeInv'
  BY DEF CodeInv, CAccepts

LEMMA EmptyShape ==
  /\ Shape(<<>>, <<>>, <<>>) /\ Stacked(<<>>, <<>>) /\ ~HasBlock(<<>>)
  <1>1. Typed(<<>>, <<>>, <<>>)
    BY DEF Typed
  <1>2. Nested(<<>>, <<>>, <<>>)
    BY DEF Nested
  <1>3. Declared(<<>>, <<>>, <<>>) /\ OneScope(<<>>) /\ OneBlock(<<>>, <<>>, <<>>)
        /\ Iterators(<<>>, <<>>)
    BY DEF Declared, OneScope, OneBlock, Iterators
  <1>4. Stacked(<<>>, <<>>) /\ ~HasBlock(<<>>)
    BY DEF Stacked, HasBlock
  <1> QED
    BY <1>1, <1>2, <1>3, <1>4 DEF Shape

LEMMA FatalInv ==
  ASSUME Fatal
  PROVE  CodeInv'
  <1>1. /\ pc' = "fatal" /\ entry' = "FUNCTION"
        /\ frames' = <<>> /\ locals' = <<>> /\ cscopes' = <<>>
        /\ stacker' = <<>> /\ context_block' = FALSE /\ bad' = {} /\ odd' = {}
    BY DEF Fatal, Fine
  <1>2. Shape(frames, locals, cscopes)' /\ Stacked(frames, stacker)' /\ ~HasBlock(frames)'
    BY <1>1, EmptyShape
  <1> QED
    BY <1>1, <1>2 DEF CodeInv, CAccepts, Entries

LEMMA GlobalsResolve ==
  ASSUME NEW cs, NEW fn, NEW x \in Globals
  PROVE  Resolves(cs, fn, x)
  BY DEF Resolves

LEMMA ReadInv ==
  ASSUME CodeInv, NEW x, Read(x)
  PROVE  CodeInv'
  <1>1. CASE ~Visible(x)
    BY <1>1, FatalInv DEF Read
  <1>2. CASE Visible(x)
    <2>1. /\ UNCHANGED <<pc, entry, frames, locals, cscopes, stacker, context_block>>
          /\ odd' = Flag("name", OwnLocal(x))
          /\ \/ Captures(x) /\ bad' = Flag("name", ~Resolves(cscopes, 0, x))
             \/ /\ ~Captures(x) \/ x \in Globals
                /\ bad' = Flag("name", ~Resolves(cscopes, Fn, x))
      BY <1>2 DEF Read
    <2>2. bad' \subseteq odd'
      <3>1. CASE x \in Globals
        <4>1. Resolves(cscopes, 0, x) /\ Resolves(cscopes, Fn, x)
          BY <3>1, GlobalsResolve
        <4> QED
          BY <2>1, <4>1 DEF Flag
      <3>2. CASE x \notin Globals
        <4>1. PICK i \in 1..Len(locals) : \E v \in locals[i] : v.name = x
          BY <1>2, <3>2 DEF Visible, LocalIn
        <4>2. PICK v \in locals[i] : v.name = x
          BY <4>1
        <4>3. v.kind \in KindsOf(x) /\ v = Variable(x, v.kind)
              /\ v.kind \in {"REGULAR", "BLOCK_PARAM"}
          <5>1. v \in Variables
            BY <4>1, <4>2 DEF CodeInv, Shape, Typed
          <5> QED
            BY <4>1, <4>2, <5>1 DEF KindsOf, Variables, Variable
        <4>4. CASE Captures(x) /\ bad' = Flag("name", ~Resolves(cscopes, 0, x))
          <5>1. context_block = TRUE /\ v.kind = "REGULAR"
            BY <4>3, <4>4 DEF Captures, CodeInv
          <5>2. CASE i > frames[BlockAt].base
            <6>1. frames[BlockAt].base \in Nat /\ Len(locals) \in Nat
              BY <5>1, BlockIs, Bases DEF CodeInv, Shape
            <6>2. i \in frames[BlockAt].base + 1..Len(locals)
              BY <4>1, <5>2, <6>1
            <6>3. OwnLocal(x)
              BY <4>2, <4>3, <5>1, <6>2 DEF OwnLocal
            <6> QED
              BY <2>1, <4>4, <6>3 DEF Flag
          <5>3. CASE ~(i > frames[BlockAt].base)
            <6>1. Resolves(cscopes, 0, x)
              BY <4>2, <5>1, <5>3, LocalResolves
            <6> QED
              BY <4>4, <6>1 DEF Flag
          <5> QED
            BY <5>2, <5>3
        <4>5. CASE ~Captures(x) /\ bad' = Flag("name", ~Resolves(cscopes, Fn, x))
          <5>1. CASE ~(context_block = TRUE)
            <6>1. Resolves(cscopes, 0, x) /\ Fn = 0
              BY <4>2, <5>1, LocalResolves DEF Fn, CodeInv
            <6> QED
              BY <4>5, <6>1 DEF Flag
          <5>2. CASE context_block = TRUE
            <6>1. "BLOCK_PARAM" \in KindsOf(x)
              BY <4>5, <5>2 DEF Captures
            <6>2. PICK l \in 1..Len(locals) :
                         \E w \in locals[l] : w.name = x /\ w.kind = "BLOCK_PARAM"
              BY <6>1 DEF KindsOf
            <6>3. Resolves(cscopes, 1, x) /\ Fn = 1
              BY <5>2, <6>2, LocalResolves DEF Fn
            <6> QED
              BY <4>5, <6>3 DEF Flag
          <5> QED
            BY <5>1, <5>2
        <4> QED
          BY <2>1, <3>2, <4>4, <4>5
      <3> QED
        BY <3>1, <3>2
    <2> QED
      BY <2>1, <2>2, SameInv
  <1> QED
    BY <1>1, <1>2

(* A variable that is there is assigned to.                                 *)
LEMMA AssignResolves ==
  ASSUME CodeInv, NEW x, Visible(x), NEW cs, Len(cs) \in Nat, Len(cscopes) <= Len(cs),
         \A j \in 1..Len(cscopes) : cs[j].fn = cscopes[j].fn /\ cs[j].names = cscopes[j].names
  PROVE  ~OuterLocal(x) => Resolves(cs, Fn, x)
  <1> SUFFICES ASSUME ~OuterLocal(x) PROVE Resolves(cs, Fn, x)
    OBVIOUS
  <1>1. CASE x \in Globals
    BY <1>1, GlobalsResolve
  <1>2. CASE x \notin Globals
    <2>1. PICK i \in 1..Len(locals) : \E v \in locals[i] : v.name = x
      BY <1>2 DEF Visible, LocalIn
    <2>2. PICK v \in locals[i] : v.name = x
      BY <2>1
    <2>3. Len(cscopes) \in Nat /\ Len(locals) \in Nat
      BY Bases DEF CodeInv, Shape
    <2>4. Resolves(cscopes, Fn, x)
      <3>1. CASE ~(context_block = TRUE)
        BY <2>2, <3>1, LocalResolves DEF Fn, CodeInv
      <3>2. CASE context_block = TRUE
        <4>1. frames[BlockAt].base \in Nat
          BY <3>2, BlockIs, Bases DEF CodeInv, Shape
        <4>2. i > frames[BlockAt].base
          <5> SUFFICES ASSUME ~(i > frames[BlockAt].base) PROVE FALSE
            OBVIOUS
          <5>1. i \in 1..frames[BlockAt].base
            BY <2>1, <2>3, <4>1
          <5> QED
            BY <2>2, <3>2, <5>1 DEF OuterLocal
        <4> QED
          BY <2>2, <3>2, <4>2, LocalResolves DEF Fn
      <3> QED
        BY <3>1, <3>2
    <2>5. PICK j \in 1..Len(cscopes) : cscopes[j].fn = Fn /\ x \in cscopes[j].names
      BY <1>2, <2>4 DEF Resolves
    <2>6. j \in 1..Len(cs)
      BY <2>3, <2>5
    <2> QED
      BY <2>5, <2>6 DEF Resolves
  <1> QED
    BY <1>1, <1>2

LEMMA AssignInv ==
  ASSUME CodeInv, NEW x \in Vars \union Globals \union {Self}, AtStmt,
         AssignIn(locals, cscopes, x), NEW E, E \subseteq odd',
         bad' = AssignErrors(cscopes, x) \union E,
         LeftOver(cscopes, x) \subseteq odd', OuterLocal(x) => "name" \in odd',
         UNCHANGED <<pc, entry, frames, stacker, context_block>>
  PROVE  CodeInv'
  <1>0. pc = "gen" /\ Frame.kind # "expr"
    BY DEF AtStmt, Generating
  <1>1. CASE Visible(x)
    <2>1. locals' = locals /\ cscopes' = cscopes
      BY <1>1 DEF AssignIn
    <2>2. bad' = Flag("name", ~Resolves(cscopes, Fn, x)) \union E
      BY <1>1 DEF AssignErrors
    <2>3. Len(cscopes) \in Nat /\ Len(cscopes) <= Len(cscopes)
      BY Bases DEF CodeInv, Shape
    <2>4. ~OuterLocal(x) => Resolves(cscopes, Fn, x)
      BY <1>1, <2>3, AssignResolves
    <2>5. bad' \subseteq odd'
      BY <2>2, <2>4 DEF Flag
    <2> QED
      BY <2>1, <2>5, SameInv
  <1>2. CASE ~Visible(x)
    <2>1. /\ ~LocalIn(locals, x)
          /\ locals' = WithLocal(locals, x) /\ cscopes' = WithName(cscopes, x)
      BY <1>2 DEF AssignIn, Visible
    <2>2. /\ Shape(frames, locals, cscopes) /\ Len(frames) > 0
          /\ frames[Len(frames)].kind # "expr"
      BY <1>0 DEF CodeInv, Shape, Typed, Frame
    <2>3. /\ Shape(frames, locals', cscopes') /\ Len(cscopes') = Len(cscopes)
          /\ \A j \in 1..Len(cscopes) : cscopes[j].names \subseteq cscopes'[j].names
      BY <2>1, <2>2, DeclareShape
    <2>4. Shape(frames, locals, cscopes)'
      BY <2>3
    <2>5. 1 \in 1..Len(cscopes)
      <3>1. Len(cscopes) \in 1..Len(cscopes) /\ Len(cscopes) \in Nat
        BY <2>2, TopPlaced, Bases DEF Shape
      <3> QED
        BY <3>1
    <2>6. bad' \subseteq odd'
      <3>1. bad' = Flag("redeclared", x \in cscopes[Len(cscopes)].names) \union E
        BY <1>2 DEF AssignErrors
      <3>2. x \in cscopes[Len(cscopes)].names => x \in cscopes[Len(cscopes)].left
        BY <1>0, <2>1, TopNames
      <3> QED
        BY <3>1, <3>2 DEF Flag, LeftOver
    <2> QED
      BY <1>0, <2>3, <2>4, <2>5, <2>6 DEF CodeInv, CAccepts
  <1> QED
    BY <1>1, <1>2

(* The braces of the function itself are open in all of it.                 *)
LEMMA FunctionBraces ==
  ASSUME NEW fs, NEW ls, NEW cs, Shape(fs, ls, cs), Len(fs) > 0
  PROVE  /\ Len(cs) \in Nat /\ Len(cs) >= 1 /\ fs[1].kind \in {"func", "expr"}
         /\ \A n \in 2..Len(fs) : fs[n].cbase \in Nat /\ fs[n].cbase >= 1
  <1>1. Typed(fs, ls, cs) /\ Nested(fs, ls, cs)
    BY DEF Shape
  <1>2. /\ Len(fs) \in Nat /\ Len(cs) \in Nat /\ 1 \in 1..Len(fs)
        /\ \A k \in 1..Len(fs) : fs[k].cbase \in Nat /\ fs[k].cbase <= Len(cs)
    BY <1>1, Bases
  <1>3. fs[1].kind \in {"func", "expr"} /\ fs[1].cbase = 0
    BY <1>1, <1>2 DEF Nested
  <1>4. Braces(fs[1].kind) = 1
    BY <1>3 DEF Braces
  <1>5. ASSUME NEW n \in 2..Len(fs)
        PROVE  fs[n].cbase \in Nat /\ fs[n].cbase >= 1
    <2>1. 1 \in 1..Len(fs) - 1 /\ 2 \in 1..Len(fs) /\ n \in 1..Len(fs) /\ 2 <= n /\ 1 + 1 = 2
      BY <1>2
    <2>2. fs[1+1].cbase = fs[1].cbase + Braces(fs[1].kind)
      BY <1>1, <2>1 DEF Nested
    <2>3. fs[2].cbase <= fs[n].cbase
      BY <1>1, <2>1 DEF Nested
    <2>4. fs[2].cbase = 1
      BY <1>3, <1>4, <2>1, <2>2
    <2> QED
      BY <1>2, <2>1, <2>3, <2>4
  <1>6. Len(cs) >= 1
    <2>1. CASE Len(fs) = 1
      <3>1. Len(cs) = fs[Len(fs)].cbase + Braces(fs[Len(fs)].kind)
        BY <1>1, <1>2 DEF Nested
      <3> QED
        BY <1>3, <1>4, <2>1, <3>1
    <2>2. CASE Len(fs) # 1
      <3>0. PICK n \in Nat : n = Len(fs) /\ 1 \in 1..n
        BY <1>2
      <3>1. n \in 2..Len(fs) /\ n \in 1..Len(fs)
        BY <2>2, <3>0
      <3> QED
        BY <1>2, <1>5, <3>1
    <2> QED
      BY <2>1, <2>2
  <1> QED
    BY <1>2, <1>3, <1>5, <1>6

(* Outside of a block the function 0 is being written to, so that it finds  *)
(* there what it declares last.                                             *)
LEMMA TopResolves ==
  ASSUME NEW cs \in Seq(CScopes), Len(cs) > 0, cs[Len(cs)].fn = 0, NEW t
  PROVE  Resolves(WithName(cs, t), 0, t)
  <1>1. PICK n : n = Len(cs) /\ n \in 1..Len(cs) /\ n \in Nat
    OBVIOUS
  <1>2. PICK c : c = cs[n] /\ c \in CScopes /\ c.fn = 0
    BY <1>1
  <1>3. PICK d : d = [c EXCEPT !.names = @ \union {t}]
    OBVIOUS
  <1>4. d.fn = 0 /\ t \in d.names
    BY <1>2, <1>3 DEF CScopes
  <1>5. WithName(cs, t) = [cs EXCEPT ![n] = d]
    BY <1>1, <1>2, <1>3 DEF WithName
  <1>6. Len([cs EXCEPT ![n] = d]) = Len(cs) /\ [cs EXCEPT ![n] = d][n] = d
    BY <1>1
  <1> QED
    BY <1>1, <1>4, <1>5, <1>6 DEF Resolves

LEMMA TempReads ==
  ASSUME CodeInv, pc = "gen", NEW many \in BOOLEAN
  PROVE  TempErrors(cscopes, many) \subseteq Flag("name", many /\ context_block)
  <1>1. CASE context_block = TRUE \/ many = FALSE
    BY <1>1 DEF TempErrors, Flag
  <1>2. CASE context_block = FALSE
    <2>1. /\ cscopes \in Seq(CScopes) /\ Len(cscopes) > 0 /\ ~HasBlock(frames)
          /\ Len(cscopes) \in 1..Len(cscopes)
      BY <1>2, FunctionBraces DEF CodeInv, Shape, Typed
    <2>2. cscopes[Len(cscopes)].fn = 0
      <3>1. ~InBlock(frames, Len(cscopes))
        BY <2>1 DEF InBlock, HasBlock
      <3> QED
        BY <2>1, <3>1 DEF CodeInv, Shape, OneBlock
    <2>3. Resolves(WithName(cscopes, Temp), 0, Temp)
      BY <2>1, <2>2, TopResolves
    <2> QED
      BY <2>3 DEF TempErrors, Flag
  <1> QED
    BY <1>1, <1>2 DEF CodeInv

LEMMA AssignAny ==
  ASSUME CodeInv, NEW x \in Vars \union Globals \union {Self}, NEW many \in BOOLEAN,
         Assign(x, many)
  PROVE  CodeInv'
  <1> DEFINE E == TempErrors(cscopes, many)
  <1>1. /\ AtStmt /\ AssignIn(locals, cscopes, x)
        /\ bad' = AssignErrors(cscopes, x) \union E
        /\ UNCHANGED <<pc, entry, frames, stacker, context_block>>
        /\ odd' = Flag("name", OuterLocal(x) \/ (many /\ context_block))
                    \union LeftOver(cscopes, x)
    BY DEF Assign
  <1>2. E \subseteq Flag("name", many /\ context_block)
    BY <1>1, TempReads DEF AtStmt, Generating
  <1>3. /\ E \subseteq odd' /\ LeftOver(cscopes, x) \subseteq odd'
        /\ OuterLocal(x) => "name" \in odd'
    BY <1>1, <1>2 DEF Flag
  <1> HIDE DEF E
  <1> QED
    BY <1>1, <1>3, AssignInv

LEMMA AssignTypedAny ==
  ASSUME CodeInv, NEW x \in Vars \union Globals, NEW many \in BOOLEAN,
         AssignTyped(x, many)
  PROVE  CodeInv'
  <1>1. CASE Visible(x)
    BY <1>1, FatalInv DEF AssignTyped
  <1>2. CASE ~Visible(x)
    <2> DEFINE E == TempErrors(cscopes, many)
    <2>1. /\ AtStmt /\ AssignIn(locals, cscopes, x)
          /\ bad' = AssignErrors(cscopes, x) \union E
          /\ UNCHANGED <<pc, entry, frames, stacker, context_block>>
          /\ odd' = Flag("name", many /\ context_block) \union LeftOver(cscopes, x)
      BY <1>2 DEF AssignTyped
    <2>2. ~OuterLocal(x)
      <3> SUFFICES ASSUME OuterLocal(x) PROVE FALSE
        OBVIOUS
      <3>1. context_block = TRUE
        BY DEF OuterLocal, CodeInv
      <3>2. PICK i \in 1..frames[BlockAt].base : \E v \in locals[i] : v.name = x
        BY DEF OuterLocal
      <3>3. i \in 1..Len(locals)
        <4>1. /\ frames[BlockAt].base \in Nat /\ Len(locals) \in Nat
              /\ frames[BlockAt].base <= Len(locals)
          BY <3>1, BlockIs, Bases DEF CodeInv, Shape
        <4> QED
          BY <3>2, <4>1
      <3> QED
        BY <1>2, <3>2, <3>3 DEF Visible, LocalIn
    <2>3. E \subseteq Flag("name", many /\ context_block)
      BY <2>1, TempReads DEF AtStmt, Generating
    <2>4. /\ E \subseteq odd' /\ LeftOver(cscopes, x) \subseteq odd'
          /\ OuterLocal(x) => "name" \in odd'
      BY <2>1, <2>2, <2>3
    <2>5. x \in Vars \union Globals \union {Self}
      OBVIOUS
    <2> HIDE DEF E
    <2> QED
      BY <2>1, <2>4, <2>5, AssignInv
  <1> QED
    BY <1>1, <1>2

LEMMA SimpleInv ==
  ASSUME CodeInv, NEW many \in BOOLEAN, Simple(many)
  PROVE  CodeInv'
  <1>1. /\ pc = "gen" /\ bad' = TempErrors(cscopes, many)
        /\ odd' = Flag("name", many /\ context_block)
        /\ UNCHANGED <<pc, entry, frames, locals, cscopes, stacker, context_block>>
    BY DEF Simple, AtStmt, Generating
  <1>2. bad' \subseteq odd'
    BY <1>1, TempReads
  <1> QED
    BY <1>1, <1>2, SameInv

LEMMA AtVarInv ==
  ASSUME CodeInv, NEW a \in BOOLEAN, NEW f \in BOOLEAN, AtVar(a, f)
  PROVE  CodeInv'
  <1>1. pc = "gen"
    BY DEF AtVar, AtStmt, Generating
  <1>2. CASE Fatal
    BY <1>2, FatalInv
  <1>3. CASE /\ bad' = Flag("name", ~Resolves(cscopes, Fn, Self))
             /\ odd' = Flag("name", context_block \/ entry \in {"FUNCTION", "VAR"})
             /\ UNCHANGED <<pc, entry, frames, locals, cscopes, stacker, context_block>>
    <2>1. ASSUME ~context_block, entry \notin {"FUNCTION", "VAR"}
          PROVE  Resolves(cscopes, Fn, Self)
      <3>1. Self \in cscopes[1].names /\ ~HasBlock(frames) /\ Fn = 0
        BY <1>1, <2>1 DEF CodeInv, Entries, Fn
      <3>2. 1 \in 1..Len(cscopes)
        BY <1>1, FunctionBraces DEF CodeInv, Shape, Typed
      <3>3. cscopes[1].fn = 0
        <4>1. ~InBlock(frames, 1)
          BY <3>1 DEF InBlock, HasBlock
        <4> QED
          BY <3>2, <4>1 DEF CodeInv, Shape, OneBlock
      <3> QED
        BY <3>1, <3>2, <3>3 DEF Resolves
    <2>2. bad' \subseteq odd'
      BY <1>3, <2>1 DEF Flag
    <2> QED
      BY <1>3, <2>2, SameInv
  <1> QED
    BY <1>2, <1>3 DEF AtVar

LEMMA StaticCallInv ==
  ASSUME CodeInv, NEW n \in 0..MaxArgs, NEW m \in 0..MaxArgs, NEW v \in BOOLEAN,
         StaticCall(n, m, v)
  PROVE  CodeInv'
  <1>0. MaxArgs \in Nat /\ n \in Nat /\ m \in Nat
    BY NamesAssumption
  <1>1. CASE CallRefused(n, m, v)
    BY <1>1, FatalInv DEF StaticCall
  <1>2. CASE ~CallRefused(n, m, v)
    <2>1. CallWrites(n, m, v) = m
      <3>1. CASE v = TRUE
        <4>1. m > 0 /\ ~(n < m - 1)
          BY <1>2, <3>1 DEF StaticCall, CallRefused
        <4> QED
          BY <1>0, <3>1, <4>1 DEF CallWrites
      <3>2. CASE v = FALSE
        BY <1>2, <3>2 DEF CallRefused, CallWrites
      <3> QED
        BY <3>1, <3>2
    <2>2. bad' \subseteq odd'
          /\ UNCHANGED <<pc, entry, frames, locals, cscopes, stacker, context_block>>
      BY <1>2, <2>1 DEF StaticCall, Flag
    <2> QED
      BY <2>2, SameInv
  <1> QED
    BY <1>1, <1>2

LEMMA ReturnInv ==
  ASSUME CodeInv, Return
  PROVE  CodeInv'
  BY DEF CodeInv, Return, Fine, CAccepts, AtStmt, Generating

LEMMA GotoInv ==
  ASSUME CodeInv, NEW n \in 0..MaxDepth, Goto(n)
  PROVE  CodeInv'
  <1>1. CASE UnwindFails(n)
    BY <1>1, FatalInv DEF Goto
  <1>2. CASE ~UnwindFails(n)
    <2> DEFINE d == Unwind(n).depth
    <2>1. /\ bad' = Flag("goto", JumpsWrong(n, d))
          /\ odd' = Flag("goto", "block" \in Left(d))
          /\ UNCHANGED <<pc, entry, frames, locals, cscopes, stacker, context_block>>
      BY <1>2 DEF Goto
    <2>2. /\ Left(d) \intersect Tries = {}
          /\ n = Cardinality({i \in d..Len(frames) : frames[i].kind \in {"loop", "for"}})
      <3>1. Stacked(frames, stacker) /\ frames \in Seq(Frames) /\ n \in Nat
        BY NamesAssumption DEF CodeInv, Shape, Typed
      <3> QED
        BY <1>2, <3>1, UnwindsLoops
    <2>3. bad' \subseteq odd'
      BY <2>1, <2>2 DEF Flag, JumpsWrong
    <2> QED
      BY <2>1, <2>3, SameInv
  <1> QED
    BY <1>1, <1>2

-----------------------------------------------------------------------------
(* What the opening of scopes and the declaration of a name leave.          *)
Pushed(ls, n, ls1) ==
  /\ ls1 \in Seq(SUBSET Variables) /\ Len(ls1) = Len(ls) + n
  /\ \A i \in 1..Len(ls) : ls1[i] = ls[i]
  /\ \A i \in Len(ls)+1..Len(ls)+n : ls1[i] = {}

Braced(cs, fn, n, cs1) ==
  /\ cs1 \in Seq(CScopes) /\ Len(cs1) = Len(cs) + n
  /\ \A j \in 1..Len(cs) : cs1[j] = cs[j]
  /\ \A j \in Len(cs)+1..Len(cs)+n : cs1[j].fn = fn /\ cs1[j].names = {}

LEMMA PushScopesFacts ==
  ASSUME NEW ls \in Seq(SUBSET Variables), NEW n \in Nat
  PROVE  Pushed(ls, n, PushScopes(ls, n))
  <1>1. PICK t : t = [i \in 1..n |-> {}]
    OBVIOUS
  <1>2. t \in Seq(SUBSET Variables) /\ Len(t) = n /\ \A i \in 1..n : t[i] = {}
    BY <1>1
  <1>3. PushScopes(ls, n) = ls \o t
    BY <1>1 DEF PushScopes
  <1>4. \A i \in Len(ls)+1..Len(ls)+n : i - Len(ls) \in 1..n
    OBVIOUS
  <1>5. /\ ls \o t \in Seq(SUBSET Variables) /\ Len(ls \o t) = Len(ls) + Len(t)
        /\ \A i \in 1..Len(ls) : (ls \o t)[i] = ls[i]
        /\ \A i \in Len(ls)+1..Len(ls)+Len(t) : (ls \o t)[i] = t[i - Len(ls)]
    BY ZenonT(60), <1>2, ConcatSeq
  <1>6. \A i \in Len(ls)+1..Len(ls)+n : (ls \o t)[i] = {}
    BY <1>2, <1>4, <1>5
  <1> QED
    BY <1>2, <1>3, <1>5, <1>6 DEF Pushed

LEMMA OpenBracesFacts ==
  ASSUME NEW cs \in Seq(CScopes), NEW fn \in {0, 1}, NEW n \in Nat
  PROVE  Braced(cs, fn, n, OpenBraces(cs, fn, n))
  <1>1. PICK t : t = [i \in 1..n |-> CScope(fn, {})]
    OBVIOUS
  <1>0. CScope(fn, {}) \in CScopes /\ CScope(fn, {}).fn = fn /\ CScope(fn, {}).names = {}
    BY DEF CScope, CScopes
  <1>2. t \in Seq(CScopes) /\ Len(t) = n /\ \A i \in 1..n : t[i] = CScope(fn, {})
    BY <1>0, <1>1
  <1>3. OpenBraces(cs, fn, n) = cs \o t
    BY <1>1 DEF OpenBraces
  <1>4. \A i \in Len(cs)+1..Len(cs)+n : i - Len(cs) \in 1..n
    OBVIOUS
  <1>5. /\ cs \o t \in Seq(CScopes) /\ Len(cs \o t) = Len(cs) + Len(t)
        /\ \A j \in 1..Len(cs) : (cs \o t)[j] = cs[j]
        /\ \A j \in Len(cs)+1..Len(cs)+Len(t) : (cs \o t)[j] = t[j - Len(cs)]
    BY <1>2, ConcatSeq
  <1>6. \A j \in Len(cs)+1..Len(cs)+n : (cs \o t)[j] = CScope(fn, {})
    BY <1>2, <1>4, <1>5
  <1> QED
    BY <1>0, <1>2, <1>3, <1>5, <1>6 DEF Braced

LEMMA WithLocalFacts ==
  ASSUME NEW ls \in Seq(SUBSET Variables), Len(ls) > 0, NEW x \in Names
  PROVE  /\ WithLocal(ls, x) \in Seq(SUBSET Variables)
         /\ Len(WithLocal(ls, x)) = Len(ls)
         /\ \A i \in 1..Len(ls) - 1 : WithLocal(ls, x)[i] = ls[i]
         /\ WithLocal(ls, x)[Len(ls)] = ls[Len(ls)] \union {Variable(x, "REGULAR")}
  <1>1. Variable(x, "REGULAR") \in Variables
    BY DEF Variable, Variables
  <1>2. Len(ls) \in 1..Len(ls) /\ ls[Len(ls)] \in SUBSET Variables
    OBVIOUS
  <1>3. ls[Len(ls)] \union {Variable(x, "REGULAR")} \in SUBSET Variables
    BY <1>1, <1>2
  <1> QED
    BY <1>2, <1>3 DEF WithLocal

LEMMA WithNameFacts ==
  ASSUME NEW cs \in Seq(CScopes), Len(cs) > 0, NEW x \in Names
  PROVE  /\ WithName(cs, x) \in Seq(CScopes)
         /\ Len(WithName(cs, x)) = Len(cs)
         /\ \A j \in 1..Len(cs) - 1 : WithName(cs, x)[j] = cs[j]
         /\ WithName(cs, x)[Len(cs)].fn = cs[Len(cs)].fn
         /\ WithName(cs, x)[Len(cs)].names = cs[Len(cs)].names \union {x}
  <1>0. PICK n : n = Len(cs) /\ n \in 1..Len(cs) /\ n \in Nat
    OBVIOUS
  <1>1. PICK c : c = cs[n] /\ c \in CScopes
    BY <1>0
  <1>2. PICK d : d = [c EXCEPT !.names = @ \union {x}]
    OBVIOUS
  <1>3. d \in CScopes /\ d.fn = c.fn /\ d.names = c.names \union {x}
    BY <1>1, <1>2 DEF CScopes
  <1>4. WithName(cs, x) = [cs EXCEPT ![n] = d]
    BY <1>0, <1>1, <1>2 DEF WithName
  <1>5. /\ [cs EXCEPT ![n] = d] \in Seq(CScopes) /\ Len([cs EXCEPT ![n] = d]) = Len(cs)
        /\ [cs EXCEPT ![n] = d][n] = d
        /\ \A j \in 1..n - 1 : [cs EXCEPT ![n] = d][j] = cs[j]
    BY <1>0, <1>3
  <1> QED
    BY <1>0, <1>1, <1>3, <1>4, <1>5

LEMMA OpenEmpty ==
  ASSUME NEW fs, NEW ls, NEW cs, Shape(fs, ls, cs), NEW kind \in Kinds, NEW fn,
         fn = IF kind = "block" \/ HasBlock(fs) THEN 1 ELSE 0,
         NEW ls1, ls1 = PushScopes(ls, VarPushes(kind)),
         NEW cs1, cs1 = OpenBraces(cs, fn, Braces(kind))
  PROVE  NewScopes(fs, ls, cs, kind, ls1, cs1) /\ NewVariables(fs, ls, cs, kind, ls1, cs1)
  <1>1. /\ ls \in Seq(SUBSET Variables) /\ cs \in Seq(CScopes) /\ fn \in {0, 1}
        /\ VarPushes(kind) \in Nat /\ Braces(kind) \in Nat
    BY Openings DEF Shape, Typed
  <1>0. PICK p, q \in Nat : p = VarPushes(kind) /\ q = Braces(kind)
    BY <1>1
  <1>2. Pushed(ls, p, ls1)
    BY <1>0, <1>1, PushScopesFacts
  <1>3. Braced(cs, fn, q, cs1)
    BY <1>0, <1>1, OpenBracesFacts
  <1>4. NewScopes(fs, ls, cs, kind, ls1, cs1)
    BY <1>0, <1>2, <1>3 DEF NewScopes, Pushed, Braced
  <1>5. /\ \A i \in Len(ls)+1..Len(ls1) : ls1[i] = {}
        /\ \A j \in Len(cs)+1..Len(cs1) : cs1[j].fn = fn /\ cs1[j].names = {}
    BY <1>2, <1>3 DEF Pushed, Braced
  <1> QED
    BY <1>4, <1>5 DEF NewVariables

(* A statement is opened in scopes of the right shape.                      *)
LEMMA OpenInv ==
  ASSUME NEW fs, NEW ls, NEW cs, NEW sk, Shape(fs, ls, cs), Stacked(fs, sk), Len(fs) > 0,
         NEW kind \in Kinds \ {"func", "expr"}, kind = "block" => ~HasBlock(fs),
         NewScopes(fs, ls, cs, kind, locals', cscopes'),
         NewVariables(fs, ls, cs, kind, locals', cscopes'),
         frames' = Append(fs, NewFrame(kind, ls, cs)), stacker' = Entered(fs, sk, kind),
         context_block' \in BOOLEAN,
         context_block' = TRUE <=> kind = "block" \/ HasBlock(fs),
         pc' = "gen", entry' \in Entries,
         entry' \in {"METHOD", "CONSTRUCTOR"} => Self \in cs[1].names,
         bad' \subseteq odd'
  PROVE  CodeInv'
  <1>1. kind \in Kinds /\ Outermost(fs, kind)
    BY DEF Outermost
  <1>2. /\ Shape(frames', locals', cscopes')
        /\ HasBlock(frames') <=> kind = "block" \/ HasBlock(fs)
    <2>1. PICK fs1, ls1, cs1 : fs1 = frames' /\ ls1 = locals' /\ cs1 = cscopes'
      OBVIOUS
    <2>2. /\ NewScopes(fs, ls, cs, kind, ls1, cs1)
          /\ NewVariables(fs, ls, cs, kind, ls1, cs1)
          /\ fs1 = Append(fs, NewFrame(kind, ls, cs))
      BY <2>1
    <2>3. Shape(fs1, ls1, cs1)
      BY ZenonT(60), <1>1, <2>2, OpenShape
    <2>4. HasBlock(fs1) <=> kind = "block" \/ HasBlock(fs)
      <3>1. Typed(fs, ls, cs) /\ Nested(fs, ls, cs) /\ Len(fs) \in Nat
        BY DEF Shape, Typed
      <3>2. Added(fs, ls, cs, kind, fs1)
        BY <1>1, <2>2, <3>1, OpenNested
      <3>3. \A k \in 1..Len(fs)+1 : k \in 1..Len(fs) \/ k = Len(fs)+1
        BY <3>1
      <3>4. Len(fs)+1 \in 1..Len(fs)+1 /\ \A k \in 1..Len(fs) : k \in 1..Len(fs)+1
        BY <3>1
      <3> QED
        BY <3>2, <3>3, <3>4 DEF Added, HasBlock
    <2> QED
      BY <2>1, <2>3, <2>4
  <1>3. PICK f : f = NewFrame(kind, ls, cs) /\ frames' = Append(fs, f)
    OBVIOUS
  <1>4. fs \in Seq(Frames) /\ f \in Frames /\ f.kind = kind
    BY <1>1, <1>3, Bases DEF Shape, Typed, NewFrame, Frames
  <1>5. Stacked(frames', stacker')
    BY <1>3, <1>4, StackPush
  <1>6. frames' # <<>>
    BY <1>3, <1>4
  <1>7. entry' \in {"METHOD", "CONSTRUCTOR"} => Self \in cscopes'[1].names
    <2>1. 1 \in 1..Len(cs)
      BY FunctionBraces
    <2> QED
      BY <2>1 DEF NewScopes
  <1>8. /\ Shape(frames, locals, cscopes)' /\ Stacked(frames, stacker)'
        /\ (context_block = TRUE <=> HasBlock(frames))'
    BY <1>2, <1>5
  <1> QED
    BY <1>6, <1>7, <1>8 DEF CodeInv, CAccepts

(* A statement ends, and so do the scopes that it opened.                   *)
LEMMA CutLeft ==
  ASSUME NEW fs, NEW ls, NEW cs, Shape(fs, ls, cs), Len(fs) > 0,
         NEW kind, kind = fs[Len(fs)].kind, kind # "finally",
         NEW ls1, ls1 = Cut(ls, VarPops(kind)), NEW cs1, cs1 = Cut(cs, Braces(kind))
  PROVE  LeftScopes(fs, ls, cs, ls1, cs1)
  <1>0. PICK n, b, cb, p, q : /\ n = Len(fs) /\ b = fs[n].base /\ cb = fs[n].cbase
                              /\ p = VarPops(kind) /\ q = Braces(kind)
    OBVIOUS
  <1>1. /\ ls \in Seq(SUBSET Variables) /\ cs \in Seq(CScopes) /\ n \in 1..Len(fs)
        /\ b \in Nat /\ cb \in Nat /\ kind \in Kinds
    BY <1>0, Bases DEF Shape, Typed
  <1>2. /\ p \in Nat /\ q \in Nat /\ Len(ls) = b + p /\ Len(cs) = cb + q
    BY <1>0, <1>1, Openings DEF Shape, Nested
  <1>3. p \in 0..Len(ls) /\ q \in 0..Len(cs) /\ Len(ls) - p = b /\ Len(cs) - q = cb
    BY <1>1, <1>2
  <1>4. ls1 \in Seq(SUBSET Variables) /\ Len(ls1) = b /\ \A i \in 1..b : ls1[i] = ls[i]
    BY <1>0, <1>1, <1>3, CutSeq
  <1>5. cs1 \in Seq(CScopes) /\ Len(cs1) = cb /\ \A j \in 1..cb : cs1[j] = cs[j]
    BY <1>0, <1>1, <1>3, CutSeq
  <1> QED
    BY <1>0, <1>4, <1>5 DEF LeftScopes

LEMMA LeaveLeft ==
  ASSUME Shape(frames, locals, cscopes), Len(frames) > 0, Frame.kind = "finally",
         NEW ls1, ls1 = Cut(locals, VarPops("finally")), NEW cs1, cs1 = Leave(cscopes)
  PROVE  LeftScopes(frames, locals, cscopes, ls1, cs1)
  <1>0. PICK n, b, cb, m, cm : /\ n = Len(frames) /\ b = frames[n].base
                               /\ cb = frames[n].cbase
                               /\ m = Len(locals) /\ cm = Len(cscopes)
    OBVIOUS
  <1>1. /\ locals \in Seq(SUBSET Variables) /\ cscopes \in Seq(CScopes)
        /\ n \in 1..Len(frames) /\ m \in Nat /\ cm \in Nat
        /\ b \in Nat /\ cb \in Nat /\ frames[n].kind = "finally"
    BY <1>0, Bases DEF Shape, Typed, Frame
  <1>2. /\ VarPops("finally") = 1 /\ m = b + 1 /\ cm = cb
    <2>1. /\ VarPushes("finally") = 1 /\ VarPops("finally") = 1 /\ Braces("finally") = 0
      BY DEF VarPushes, VarPops, Braces
    <2> QED
      BY <1>0, <1>1, <2>1 DEF Shape, Nested
  <1>3. ls1 \in Seq(SUBSET Variables) /\ Len(ls1) = b /\ \A i \in 1..b : ls1[i] = locals[i]
    <2>1. 1 \in 0..Len(locals) /\ Len(locals) - 1 = b
      BY SMTT(60), <1>0, <1>1, <1>2
    <2>2. ls1 = Cut(locals, 1)
      BY <1>2
    <2> QED
      BY ZenonT(60), <1>1, <2>1, <2>2, CutSeq
  <1>4. cm >= 1
    BY <1>0, FunctionBraces
  <1>5. PICK c, X : c = cscopes[cm] /\ X = {v.name : v \in locals[m]}
    OBVIOUS
  <1>6. c \in CScopes /\ X \in SUBSET Names
    <2>1. m \in 1..Len(locals)
      BY <1>0, <1>1, <1>2
    <2>2. locals[m] \in SUBSET Variables
      BY <1>1, <2>1
    <2>3. cm \in 1..Len(cscopes)
      BY <1>0, <1>1, <1>4
    <2> QED
      BY <1>1, <1>5, <2>2, <2>3 DEF Variables
  <1>7. PICK d : d = [c EXCEPT !.left = @ \union X]
    OBVIOUS
  <1>8. d \in CScopes /\ d.fn = c.fn /\ d.names = c.names /\ d.left = c.left \union X
    BY <1>6, <1>7 DEF CScopes
  <1>9. cs1 = [cscopes EXCEPT ![cm] = d]
    BY <1>0, <1>5, <1>7 DEF Leave
  <1>10. /\ cs1 \in Seq(CScopes) /\ Len(cs1) = cm /\ cs1[cm] = d
         /\ \A j \in 1..cm : j # cm => cs1[j] = cscopes[j]
    BY <1>0, <1>1, <1>4, <1>8, <1>9
  <1>11. /\ Len(ls1) = frames[Len(frames)].base /\ Len(cs1) = frames[Len(frames)].cbase
         /\ \A j \in 1..cb : /\ cs1[j].fn = cscopes[j].fn /\ cs1[j].names = cscopes[j].names
                              /\ cscopes[j].left \subseteq cs1[j].left
         /\ \A v \in locals[Len(locals)] : v.name \in cs1[Len(cs1)].left
    BY <1>0, <1>2, <1>3, <1>5, <1>8, <1>10
  <1> QED
    BY <1>0, <1>3, <1>10, <1>11 DEF LeftScopes

LEMMA ClosedShape ==
  ASSUME CodeInv, pc = "gen", Closed
  PROVE  /\ Shape(frames', locals', cscopes') /\ Stacked(frames', stacker')
         /\ Frame.kind = "block" => ~HasBlock(frames')
         /\ Frame.kind # "block" => (HasBlock(frames') <=> HasBlock(frames))
         /\ Frame.kind \notin {"func", "expr"} =>
              frames' # <<>> /\ cscopes'[1].names = cscopes[1].names
         /\ Frame.kind \in {"func", "expr"} => frames' = <<>>
  <1>0. PICK n : n = Len(frames)
    OBVIOUS
  <1>1. /\ Shape(frames, locals, cscopes) /\ Stacked(frames, stacker)
        /\ frames \in Seq(Frames) /\ Len(frames) > 0 /\ n \in Nat
        /\ Frame = frames[Len(frames)] /\ frames' = Cut(frames, 1)
    BY <1>0 DEF CodeInv, Shape, Typed, Frame, Closed
  <1>2. LeftScopes(frames, locals, cscopes, locals', cscopes')
    <2>1. CASE Frame.kind = "finally"
      BY <1>1, <2>1, LeaveLeft DEF Closed
    <2>2. CASE Frame.kind # "finally"
      BY <1>1, <2>2, CutLeft DEF Closed
    <2> QED
      BY <2>1, <2>2
  <1>3. /\ Shape(frames', locals', cscopes')
        /\ Frame.kind = "block" => ~HasBlock(frames')
        /\ Frame.kind # "block" => (HasBlock(frames') <=> HasBlock(frames))
    BY <1>1, <1>2, CutShape
  <1>4. stacker' = Exited(frames, stacker)
    BY <1>1 DEF Closed, Exited
  <1>5. Stacked(frames', stacker')
    BY <1>1, <1>4, StackPop
  <1>6. Len(frames') = n - 1 /\ frames' \in Seq(Frames)
    <2>1. 1 \in 0..Len(frames)
      BY <1>1
    <2> QED
      BY <1>0, <1>1, <2>1, CutSeq
  <1>7. n \in 1..Len(frames) /\ (Frame.kind \in {"func", "expr"} <=> n = 1)
    BY <1>0, <1>1 DEF Shape, Nested
  <1>8. n # 1 => frames' # <<>> /\ cscopes'[1].names = cscopes[1].names
    <2> SUFFICES ASSUME n # 1
                 PROVE  frames' # <<>> /\ cscopes'[1].names = cscopes[1].names
      OBVIOUS
    <2>1. n \in 2..Len(frames) /\ Len(frames') # 0
      BY <1>0, <1>1, <1>6, <1>7
    <2>2. 1 \in 1..frames[n].cbase
      BY <1>1, <2>1, FunctionBraces
    <2> QED
      BY <1>0, <1>2, <2>1, <2>2 DEF LeftScopes
  <1>9. n = 1 => frames' = <<>>
    BY <1>6
  <1> QED
    BY <1>3, <1>5, <1>7, <1>8, <1>9

LEMMA FnIs ==
  ASSUME CodeInv
  PROVE  Fn \in {0, 1} /\ Fn = IF HasBlock(frames) THEN 1 ELSE 0
  BY DEF CodeInv, Fn

Declares(V, X, kind) == V = {Variable(x, kind) : x \in X}

LEMMA VariablesOf ==
  ASSUME NEW X, NEW kind, NEW V, Declares(V, X, kind)
  PROVE  /\ \A v \in V : v.name \in X /\ v.kind = kind
         /\ \A v, w \in V : v.name = w.name => v = w
         /\ \A x \in X : \E v \in V : v.name = x
  <1>1. \A x : Variable(x, kind).name = x /\ Variable(x, kind).kind = kind
    BY DEF Variable
  <1>2. \A v \in V : \E x \in X : v = Variable(x, kind)
    BY DEF Declares
  <1>3. \A x \in X : Variable(x, kind) \in V
    BY DEF Declares
  <1>4. \A v \in V : v.name \in X /\ v.kind = kind /\ v = Variable(v.name, kind)
    BY <1>1, <1>2
  <1> QED
    BY <1>1, <1>3, <1>4

LEMMA BodyInv ==
  ASSUME CodeInv, NEW kind \in {"if", "loop", "try"}, AtStmt, Body(kind), bad' \subseteq odd'
  PROVE  CodeInv'
  <1>1. /\ Shape(frames, locals, cscopes) /\ Stacked(frames, stacker) /\ Len(frames) > 0
        /\ kind \in Kinds \ {"func", "expr"} /\ kind \in Kinds /\ kind # "block"
    BY DEF CodeInv, Shape, Typed, Kinds, AtStmt, Generating
  <1>2. Fn = IF kind = "block" \/ HasBlock(frames) THEN 1 ELSE 0
    BY <1>1, FnIs
  <1>3. /\ locals' = PushScopes(locals, VarPushes(kind))
        /\ cscopes' = OpenBraces(cscopes, Fn, Braces(kind))
    BY DEF Body
  <1>4. /\ NewScopes(frames, locals, cscopes, kind, locals', cscopes')
        /\ NewVariables(frames, locals, cscopes, kind, locals', cscopes')
    BY <1>1, <1>2, <1>3, OpenEmpty
  <1>5. /\ frames' = Append(frames, NewFrame(kind, locals, cscopes))
        /\ stacker' = Entered(frames, stacker, kind)
        /\ context_block' \in BOOLEAN
        /\ context_block' = TRUE <=> kind = "block" \/ HasBlock(frames)
        /\ pc' = "gen" /\ entry' \in Entries
        /\ entry' \in {"METHOD", "CONSTRUCTOR"} => Self \in cscopes[1].names
    BY <1>1 DEF Body, Opened, Entered, CodeInv, AtStmt, Generating
  <1> QED
    BY <1>1, <1>4, <1>5, OpenInv

LEMMA OpenedInv ==
  ASSUME CodeInv, NEW stmt \in {"if", "case", "loop", "try"}, Open(stmt)
  PROVE  CodeInv'
  <1>1. PICK kind \in {"if", "loop", "try"} : kind = IF stmt = "case" THEN "if" ELSE stmt
    OBVIOUS
  <1>2. AtStmt /\ Body(kind) /\ bad' \subseteq odd'
    BY <1>1 DEF Open, Fine
  <1> QED
    BY <1>2, BodyInv

(* After an if, and before the next statement other than try, the code ends *)
(* with that if or with a try statement.                                    *)
Saids == [prev : {"if", "other"}, code : {"if", "try", "other"}]

Sensible(ss, n) ==
  /\ ss \in Seq(Saids) /\ Len(ss) = n
  /\ \A i \in 1..n : ss[i].prev = "if" => ss[i].code # "other"

StmtsInv == Sensible(stmts, Len(frames))

LEMMA OpenElseInv ==
  ASSUME CodeInv, StmtsInv, NEW stmt, OpenElse(stmt)
  PROVE  CodeInv'
  <1>0. AtStmt /\ Len(stmts) \in 1..Len(stmts)
    BY DEF OpenElse, AtStmt, Generating, CodeInv, StmtsInv, Sensible, Shape, Typed
  <1>1. CASE stmts[Len(stmts)].prev # "if"
    BY <1>1, FatalInv DEF OpenElse
  <1>2. CASE stmts[Len(stmts)].prev = "if"
    <2>1. stmts[Len(stmts)].code \in {"if", "try"}
      <3>1. /\ stmts[Len(stmts)] \in Saids
            /\ stmts[Len(stmts)].code # "other"
        BY <1>0, <1>2 DEF StmtsInv, Sensible
      <3> QED
        BY <3>1 DEF Saids
    <2>2. /\ Body("if")
          /\ bad' = Flag("else", stmts[Len(stmts)].code # "if")
          /\ odd' = Flag("else", stmts[Len(stmts)].code = "try")
      BY <1>2 DEF OpenElse
    <2>3. bad' \subseteq odd'
      BY <2>1, <2>2 DEF Flag
    <2> QED
      BY <1>0, <2>2, <2>3, BodyInv
  <1> QED
    BY <1>1, <1>2

LEMMA OpenBlockInv ==
  ASSUME CodeInv, NEW P \in SUBSET Vars, OpenBlock(P)
  PROVE  CodeInv'
  <1>1. CASE context_block \/ \E x \in P : Visible(x)
    BY <1>1, FatalInv DEF OpenBlock
  <1>2. CASE ~(context_block \/ \E x \in P : Visible(x))
    <2>1. /\ Shape(frames, locals, cscopes) /\ Stacked(frames, stacker) /\ Len(frames) > 0
          /\ "block" \in Kinds \ {"func", "expr"} /\ ~HasBlock(frames)
      BY <1>2 DEF CodeInv, Shape, Typed, Kinds, OpenBlock, Generating
    <2>2. /\ frames' = Append(frames, NewFrame("block", locals, cscopes))
          /\ stacker' = Entered(frames, stacker, "block")
          /\ context_block' \in BOOLEAN
          /\ context_block' = TRUE <=> "block" = "block" \/ HasBlock(frames)
          /\ pc' = "gen" /\ entry' \in Entries /\ bad' \subseteq odd'
          /\ entry' \in {"METHOD", "CONSTRUCTOR"} => Self \in cscopes[1].names
      BY <1>2 DEF OpenBlock, Entered, OnStacker, CodeInv, Fine, Generating
    <2>3. PICK V, c : /\ V = {Variable(x, "BLOCK_PARAM") : x \in P} /\ c = CScope(1, P)
                      /\ locals' = locals \o <<V, {}>> /\ cscopes' = Append(cscopes, c)
      BY <1>2 DEF OpenBlock
    <2>4. /\ V \in SUBSET Variables /\ c \in CScopes /\ c.fn = 1 /\ c.names = P
      BY <2>3 DEF Variables, CScopes, Variable, CScope, Names
    <2>5. /\ \A v \in V : v.name \in P /\ v.kind = "BLOCK_PARAM"
          /\ \A v, w \in V : v.name = w.name => v = w
          /\ \A x \in P : \E v \in V : v.name = x
      <3>1. Declares(V, P, "BLOCK_PARAM")
        BY <2>3 DEF Declares
      <3> QED
        BY <3>1, VariablesOf
    <2>6. /\ Len(locals) \in Nat /\ Len(cscopes) \in Nat
          /\ locals \in Seq(SUBSET Variables) /\ cscopes \in Seq(CScopes)
      BY <2>1, Bases DEF Shape, Typed
    <2>7. /\ cscopes' \in Seq(CScopes) /\ Len(cscopes') = Len(cscopes) + 1
          /\ \A j \in 1..Len(cscopes) : cscopes'[j] = cscopes[j]
          /\ cscopes'[Len(cscopes) + 1] = c
      BY <2>3, <2>4, <2>6, PushSeq
    <2>8. /\ locals' \in Seq(SUBSET Variables) /\ Len(locals') = Len(locals) + 2
          /\ \A i \in 1..Len(locals) : locals'[i] = locals[i]
          /\ locals'[Len(locals) + 1] = V /\ locals'[Len(locals) + 2] = {}
      <3>1. PICK t : t = <<V, {}>>
        OBVIOUS
      <3>2. t \in Seq(SUBSET Variables) /\ Len(t) = 2 /\ t[1] = V /\ t[2] = {}
        BY <2>4, <3>1
      <3> QED
        BY <2>3, <2>6, <3>1, <3>2, ConcatSeq
    <2>9. NewScopes(frames, locals, cscopes, "block", locals', cscopes')
      BY <2>7, <2>8 DEF NewScopes, VarPushes, Braces
    <2>10. NewVariables(frames, locals, cscopes, "block", locals', cscopes')
      <3>1. /\ \A i \in Len(locals)+1..Len(locals') :
                 locals'[i] = IF i = Len(locals)+1 THEN V ELSE {}
            /\ Len(locals)+1 \in Len(locals)+1..Len(locals')
        <4>1. \A i \in Len(locals)+1..Len(locals)+2 : i = Len(locals)+1 \/ i = Len(locals)+2
          BY <2>6
        <4>2. Len(locals)+1 # Len(locals)+2
              /\ Len(locals)+1 \in Len(locals)+1..Len(locals)+2
          BY <2>6
        <4> QED
          BY <2>8, <4>1, <4>2
      <3>2. /\ \A j \in Len(cscopes)+1..Len(cscopes') : cscopes'[j] = c
            /\ Len(cscopes)+1 \in Len(cscopes)+1..Len(cscopes')
        <4>1. \A j \in Len(cscopes)+1..Len(cscopes)+1 : j = Len(cscopes)+1
          BY <2>6
        <4> QED
          BY <2>6, <2>7, <4>1
      <3>3. \A x \in P : ~LocalIn(locals, x) /\ \A m \in 0..MaxDepth : x # <<"iterator", m>>
        BY <1>2, NamesAssumption DEF Visible
      <3>4. \A i \in Len(locals)+1..Len(locals') : \A v \in locals'[i] : v \in V /\ i = Len(locals)+1
        BY <3>1
      <3>5. \A i \in Len(locals)+1..Len(locals') : \A v \in locals'[i] :
               /\ ~LocalIn(locals, v.name)
               /\ \E j \in Len(cscopes)+1..Len(cscopes') : v.name \in cscopes'[j].names
               /\ v.kind = "BLOCK_PARAM" => "block" = "block"
               /\ \A m \in 0..MaxDepth : v.name = <<"iterator", m>> => m = Len(frames)
        BY <2>4, <2>5, <3>2, <3>3, <3>4
      <3>6. \A i, j \in Len(locals)+1..Len(locals') : \A v \in locals'[i], w \in locals'[j] :
               v.name = w.name => i = j /\ v = w
        BY <2>5, <3>4
      <3>7. \A j \in Len(cscopes)+1..Len(cscopes') :
             /\ cscopes'[j].fn = 1
             /\ \A x \in cscopes'[j].names :
                  \E i \in Len(locals)+1..Len(locals') : \E v \in locals'[i] : v.name = x
        BY <2>4, <2>5, <3>1, <3>2
      <3> QED
        BY <3>5, <3>6, <3>7 DEF NewVariables
    <2>11. "block" = "block" => ~HasBlock(frames)
      BY <2>1
    <2> QED
      BY <2>1, <2>2, <2>9, <2>10, <2>11, OpenInv
  <1> QED
    BY <1>1, <1>2

LEMMA CloseInv ==
  ASSUME CodeInv, Close \/ CloseBlock \/ CloseCode
  PROVE  CodeInv'
  <1>1. pc = "gen" /\ Closed /\ bad' \subseteq odd' /\ entry' = entry
    BY DEF Close, CloseBlock, CloseCode, Generating, Fine
  <1>2. /\ Shape(frames', locals', cscopes') /\ Stacked(frames', stacker')
        /\ Frame.kind = "block" => ~HasBlock(frames')
        /\ Frame.kind # "block" => (HasBlock(frames') <=> HasBlock(frames))
        /\ Frame.kind \notin {"func", "expr"} =>
             frames' # <<>> /\ cscopes'[1].names = cscopes[1].names
        /\ Frame.kind \in {"func", "expr"} => frames' = <<>>
    BY <1>1, ClosedShape
  <1>3. Shape(frames, locals, cscopes)' /\ Stacked(frames, stacker)'
    BY <1>2
  <1>4. CASE Close
    <2>1. /\ Frame.kind \notin {"func", "expr", "block"} /\ pc' = "gen"
          /\ context_block' = context_block
      BY <1>4 DEF Close, Generating
    <2> QED
      BY <1>1, <1>2, <1>3, <2>1 DEF CodeInv, CAccepts
  <1>5. CASE CloseBlock
    <2>1. Frame.kind = "block" /\ pc' = "gen" /\ context_block' = FALSE
      BY <1>5 DEF CloseBlock, Generating
    <2> QED
      BY <1>1, <1>2, <1>3, <2>1 DEF CodeInv, CAccepts
  <1>6. CASE CloseCode
    <2>1. /\ Frame.kind \in {"func", "expr"} /\ pc' = "idle"
          /\ context_block' = context_block /\ Frame.kind # "block"
      BY <1>6 DEF CloseCode
    <2> QED
      BY <1>1, <1>2, <1>3, <2>1 DEF CodeInv, CAccepts
  <1> QED
    BY <1>4, <1>5, <1>6

(* The function or the initialiser begins.                                  *)
LEMMA GenCodeInv ==
  ASSUME CodeInv, NEW e \in Entries, NEW P \in SUBSET Vars, gen_code(e, P)
  PROVE  CodeInv'
  <1>1. PICK names : names = P \union (IF e \in {"METHOD", "CONSTRUCTOR"} THEN {Self} ELSE {})
    OBVIOUS
  <1>2. /\ pc' = "gen" /\ entry' = e /\ stacker' = <<>> /\ bad' \subseteq odd'
        /\ context_block' = context_block /\ frames = <<>>
    BY DEF gen_code, Fine, CodeInv
  <1>3. locals = <<>> /\ cscopes = <<>> /\ ~HasBlock(frames) /\ context_block = FALSE
    BY <1>2 DEF CodeInv, Shape, Typed, Nested, HasBlock
  <1>4. /\ Shape(<<>>, <<>>, <<>>) /\ Stacked(<<>>, <<>>) /\ ~HasBlock(<<>>)
        /\ Len(<<>>) = 0
    BY EmptyShape
  <1>5. ASSUME NEW kind \in {"func", "expr"}, frames' = Append(<<>>, NewFrame(kind, <<>>, <<>>)),
               NewScopes(<<>>, <<>>, <<>>, kind, locals', cscopes'),
               NewVariables(<<>>, <<>>, <<>>, kind, locals', cscopes'),
               e \in {"METHOD", "CONSTRUCTOR"} => Self \in cscopes'[1].names
        PROVE  CodeInv'
    <2>1. kind \in Kinds /\ Outermost(<<>>, kind) /\ (kind = "block" => ~HasBlock(<<>>))
      BY <1>4, <1>5 DEF Outermost, Kinds
    <2>2. Shape(frames', locals', cscopes')
      BY ZenonT(60), <1>4, <1>5, <2>1, OpenShape
    <2>3. PICK f : f = NewFrame(kind, <<>>, <<>>) /\ frames' = Append(<<>>, f)
      BY <1>5
    <2>4. f \in Frames /\ f.kind = kind /\ <<>> \in Seq(Frames)
      BY <1>4, <2>1, <2>3 DEF NewFrame, Frames
    <2>5. Stacked(frames', stacker')
      <3>1. <<>> = Entered(<<>>, <<>>, f.kind)
        BY <1>5, <2>4 DEF Entered, OnStacker
      <3> QED
        BY <1>2, <1>4, <2>3, <2>4, <3>1, StackPush
    <2>6. frames' # <<>> /\ ~HasBlock(frames')
      <3>1. Len(frames') = 1 /\ frames'[1] = f
        BY <2>3, <2>4
      <3>2. f.kind # "block"
        BY <1>5, <2>4
      <3>3. \A k \in 1..1 : k = 1
        OBVIOUS
      <3> QED
        BY <3>1, <3>2, <3>3 DEF HasBlock
    <2>7. Shape(frames, locals, cscopes)' /\ Stacked(frames, stacker)' /\ ~HasBlock(frames)'
      BY <2>2, <2>5, <2>6
    <2> QED
      BY <1>2, <1>3, <1>5, <2>6, <2>7 DEF CodeInv, CAccepts
  <1>6. CASE e = "VAR"
    <2>1. /\ frames' = Append(<<>>, NewFrame("expr", <<>>, <<>>))
          /\ locals' = <<>> /\ cscopes' = OpenBraces(<<>>, 0, 1)
      BY <1>2, <1>3, <1>6 DEF gen_code
    <2>2. Braced(<<>>, 0, 1, cscopes')
      <3>1. <<>> \in Seq(CScopes) /\ 0 \in {0, 1} /\ 1 \in Nat
        OBVIOUS
      <3>2. Braced(<<>>, 0, 1, OpenBraces(<<>>, 0, 1))
        BY <3>1, OpenBracesFacts
      <3> QED
        BY <2>1, <3>2
    <2>3. /\ cscopes' \in Seq(CScopes) /\ Len(cscopes') = 1
          /\ \A j \in 1..1 : cscopes'[j].fn = 0 /\ cscopes'[j].names = {}
      BY <2>2 DEF Braced
    <2>4. NewScopes(<<>>, <<>>, <<>>, "expr", locals', cscopes')
      BY <2>1, <2>3 DEF NewScopes, VarPushes, Braces
    <2>5. NewVariables(<<>>, <<>>, <<>>, "expr", locals', cscopes')
      BY <1>4, <2>1, <2>3 DEF NewVariables
    <2> QED
      BY <1>5, <1>6, <2>1, <2>4, <2>5
  <1>7. CASE e # "VAR"
    <2>1. PICK V, c : /\ V = {Variable(x, "REGULAR") : x \in names} /\ c = CScope(0, names)
                      /\ frames' = Append(<<>>, NewFrame("func", <<>>, <<>>))
                      /\ locals' = <<>> \o <<V, {}>> /\ cscopes' = Append(<<>>, c)
      BY <1>1, <1>2, <1>3, <1>7 DEF gen_code
    <2>2. names \in SUBSET Names /\ \A x \in names : x \in Vars \union {Self}
      BY <1>1 DEF Names
    <2>3. V \in SUBSET Variables /\ c \in CScopes /\ c.fn = 0 /\ c.names = names
      BY <2>1, <2>2 DEF Variables, CScopes, Variable, CScope
    <2>4. /\ \A v \in V : v.name \in names /\ v.kind = "REGULAR"
          /\ \A v, w \in V : v.name = w.name => v = w
          /\ \A x \in names : \E v \in V : v.name = x
      <3>1. Declares(V, names, "REGULAR")
        BY <2>1 DEF Declares
      <3> QED
        BY <3>1, VariablesOf
    <2>5. /\ cscopes' \in Seq(CScopes) /\ Len(cscopes') = 1 /\ cscopes'[1] = c
      BY <2>1, <2>3
    <2>6. /\ locals' \in Seq(SUBSET Variables) /\ Len(locals') = 2
          /\ locals'[1] = V /\ locals'[2] = {}
      BY <2>1, <2>3
    <2>7. NewScopes(<<>>, <<>>, <<>>, "func", locals', cscopes')
      BY <2>5, <2>6 DEF NewScopes, VarPushes, Braces
    <2>8. NewVariables(<<>>, <<>>, <<>>, "func", locals', cscopes')
      <3>1. /\ \A i \in 1..2 : locals'[i] = IF i = 1 THEN V ELSE {}
            /\ \A j \in 1..1 : cscopes'[j] = c
            /\ 1 \in 1..2 /\ 1 \in 1..1
        <4>1. \A i \in 1..2 : i = 1 \/ i = 2
          OBVIOUS
        <4> QED
          BY <2>5, <2>6, <4>1
      <3>2. \A x \in names : ~LocalIn(<<>>, x) /\ \A m \in 0..MaxDepth : x # <<"iterator", m>>
        BY <2>2, NamesAssumption DEF LocalIn
      <3>3. \A i \in 1..2 : \A v \in locals'[i] : v \in V /\ i = 1
        BY <3>1
      <3>4. \A i \in 1..2 : \A v \in locals'[i] :
              /\ ~LocalIn(<<>>, v.name)
              /\ \E j \in 1..1 : v.name \in cscopes'[j].names
              /\ v.kind # "BLOCK_PARAM"
              /\ \A m \in 0..MaxDepth : v.name # <<"iterator", m>>
        BY <2>3, <2>4, <3>1, <3>2, <3>3
      <3>5. \A i, j \in 1..2 : \A v \in locals'[i], w \in locals'[j] :
              v.name = w.name => i = j /\ v = w
        BY <2>4, <3>3
      <3>6. \A j \in 1..1 : /\ cscopes'[j].fn = 0
                            /\ \A x \in cscopes'[j].names :
                                 \E i \in 1..2 : \E v \in locals'[i] : v.name = x
        BY <2>3, <2>4, <3>1
      <3>7. Len(<<>>)+1..Len(locals') = 1..2 /\ Len(<<>>)+1..Len(cscopes') = 1..1
        BY <2>5, <2>6
      <3> QED
        BY <1>4, <3>4, <3>5, <3>6, <3>7 DEF NewVariables
    <2>9. e \in {"METHOD", "CONSTRUCTOR"} => Self \in cscopes'[1].names
      BY <1>1, <2>3, <2>5
    <2> QED
      BY <1>5, <2>1, <2>7, <2>8, <2>9
  <1> QED
    BY <1>6, <1>7

(* A try block ends: what is around it.                                     *)
LEMMA TryShape ==
  ASSUME CodeInv, pc = "gen", Frame.kind = "try",
         NEW fs, fs = Cut(frames, 1), NEW ls, ls = Cut(locals, VarPops("try")),
         NEW cs, cs = Cut(cscopes, Braces("try")), NEW sk, sk = Cut(stacker, 1)
  PROVE  /\ Shape(fs, ls, cs) /\ Stacked(fs, sk) /\ Len(fs) > 0
         /\ Len(fs) + 1 = Len(frames)
         /\ HasBlock(fs) <=> HasBlock(frames)
         /\ cs[1].names = cscopes[1].names
  <1>0. PICK n : n = Len(frames)
    OBVIOUS
  <1>1. /\ Shape(frames, locals, cscopes) /\ Stacked(frames, stacker)
        /\ frames \in Seq(Frames) /\ Len(frames) > 0 /\ n \in Nat
        /\ "try" = frames[Len(frames)].kind
    BY <1>0 DEF CodeInv, Shape, Typed, Frame
  <1>2. LeftScopes(frames, locals, cscopes, ls, cs)
    BY <1>1, CutLeft
  <1>3. Shape(fs, ls, cs)
    BY <1>1, <1>2, CutShape
  <1>4. HasBlock(fs) <=> HasBlock(frames)
    BY <1>1, <1>2, CutShape
  <1>5. sk = Exited(frames, stacker)
    BY <1>1 DEF Exited, OnStacker
  <1>6. Stacked(fs, sk)
    BY <1>1, <1>5, StackPop
  <1>7. n \in 1..Len(frames) /\ n # 1
    BY <1>0, <1>1 DEF Shape, Nested
  <1>8. Len(fs) = n - 1
    <2>1. 1 \in 0..Len(frames)
      BY <1>1
    <2> QED
      BY <1>0, <1>1, <2>1, CutSeq
  <1>9. n \in 2..Len(frames)
    BY <1>0, <1>1, <1>7
  <1>10. 1 \in 1..frames[n].cbase
    BY <1>1, <1>9, FunctionBraces
  <1>11. cs[1].names = cscopes[1].names
    BY <1>0, <1>2, <1>10 DEF LeftScopes
  <1> QED
    BY <1>0, <1>1, <1>3, <1>4, <1>6, <1>7, <1>8, <1>11

LEMMA CloseTryInv ==
  ASSUME CodeInv, NEW kind \in {"catch", "finally"}, CloseTry(kind)
  PROVE  CodeInv'
  <1>1. PICK fs, ls, cs, sk : /\ fs = Cut(frames, 1) /\ ls = Cut(locals, VarPops("try"))
                              /\ cs = Cut(cscopes, Braces("try")) /\ sk = Cut(stacker, 1)
    OBVIOUS
  <1>2. pc = "gen" /\ Frame.kind = "try"
    BY DEF CloseTry, TryClosed, Generating
  <1>3. /\ Shape(fs, ls, cs) /\ Stacked(fs, sk) /\ Len(fs) > 0
        /\ Len(fs) + 1 = Len(frames) /\ cs[1].names = cscopes[1].names
    BY <1>1, <1>2, TryShape
  <1>4. HasBlock(fs) <=> HasBlock(frames)
    BY <1>1, <1>2, TryShape
  <1>5. kind \in Kinds \ {"func", "expr"} /\ kind \in Kinds /\ kind # "block"
    BY DEF Kinds
  <1>6. Fn = IF kind = "block" \/ HasBlock(fs) THEN 1 ELSE 0
    BY <1>4, <1>5, FnIs
  <1>7. locals' = PushScopes(ls, VarPushes(kind)) /\ cscopes' = OpenBraces(cs, Fn, Braces(kind))
    BY <1>1 DEF CloseTry
  <1>8. /\ NewScopes(fs, ls, cs, kind, locals', cscopes')
        /\ NewVariables(fs, ls, cs, kind, locals', cscopes')
    BY <1>3, <1>5, <1>6, <1>7, OpenEmpty
  <1>9. /\ frames' = Append(fs, NewFrame(kind, ls, cs))
        /\ stacker' = Entered(fs, sk, kind)
    BY <1>1, <1>3 DEF CloseTry, TryClosed, Entered
  <1>10. /\ context_block' \in BOOLEAN
         /\ context_block' = TRUE <=> kind = "block" \/ HasBlock(fs)
         /\ pc' = "gen" /\ entry' \in Entries /\ bad' \subseteq odd'
         /\ entry' \in {"METHOD", "CONSTRUCTOR"} => Self \in cs[1].names
    BY <1>2, <1>3, <1>4, <1>5 DEF CloseTry, CodeInv, Fine
  <1> QED
    BY <1>3, <1>5, <1>8, <1>9, <1>10, OpenInv

(* The scopes of a catch block with a variable for the exception.           *)
LEMMA CatchScopes ==
  ASSUME NEW fs, NEW ls, NEW cs, Shape(fs, ls, cs), NEW x \in Vars \union Globals,
         ~LocalIn(ls, x), NEW fn, fn = IF HasBlock(fs) THEN 1 ELSE 0,
         NEW ls1, ls1 = PushScopes(WithLocal(PushScopes(ls, 1), x), VarPushes("catch") - 1),
         NEW cs1, cs1 = WithName(OpenBraces(cs, fn, Braces("catch")), x)
  PROVE  /\ NewScopes(fs, ls, cs, "catch", ls1, cs1)
         /\ NewVariables(fs, ls, cs, "catch", ls1, cs1)
  <1>0. PICK m, cm, v : m = Len(ls) /\ cm = Len(cs) /\ v = Variable(x, "REGULAR")
    OBVIOUS
  <1>1. /\ ls \in Seq(SUBSET Variables) /\ cs \in Seq(CScopes) /\ fn \in {0, 1}
        /\ m \in Nat /\ cm \in Nat /\ x \in Names /\ v.name = x /\ v.kind = "REGULAR"
    BY <1>0 DEF Shape, Typed, Names, Variable
  <1>2. VarPushes("catch") = 2 /\ Braces("catch") = 1
    BY DEF VarPushes, Braces
  <1>3. PICK la, lb, ca : /\ la = PushScopes(ls, 1) /\ lb = WithLocal(la, x)
                          /\ ca = OpenBraces(cs, fn, 1)
    OBVIOUS
  <1>4. ls1 = PushScopes(lb, 1) /\ cs1 = WithName(ca, x)
    BY <1>2, <1>3
  <1>5. Pushed(ls, 1, la) /\ Braced(cs, fn, 1, ca)
    BY <1>1, <1>3, PushScopesFacts, OpenBracesFacts
  <1>6. /\ la \in Seq(SUBSET Variables) /\ Len(la) = m + 1 /\ la[m+1] = {}
        /\ \A i \in 1..m : la[i] = ls[i]
    BY <1>0, <1>1, <1>5 DEF Pushed
  <1>7. /\ ca \in Seq(CScopes) /\ Len(ca) = cm + 1 /\ ca[cm+1].fn = fn
        /\ ca[cm+1].names = {} /\ \A j \in 1..cm : ca[j] = cs[j]
    BY <1>0, <1>1, <1>5 DEF Braced
  <1>8. /\ lb \in Seq(SUBSET Variables) /\ Len(lb) = m + 1 /\ lb[m+1] = {v}
        /\ \A i \in 1..m : lb[i] = ls[i]
    <2>1. /\ WithLocal(la, x) \in Seq(SUBSET Variables)
          /\ Len(WithLocal(la, x)) = Len(la)
          /\ \A i \in 1..Len(la) - 1 : WithLocal(la, x)[i] = la[i]
          /\ WithLocal(la, x)[Len(la)] = la[Len(la)] \union {Variable(x, "REGULAR")}
      <3>1. Len(la) > 0
        BY <1>1, <1>6
      <3> QED
        BY <1>1, <1>6, <3>1, WithLocalFacts
    <2>2. Len(la) - 1 = m
      BY <1>1, <1>6
    <2> QED
      BY <1>0, <1>3, <1>6, <2>1, <2>2
  <1>9. /\ cs1 \in Seq(CScopes) /\ Len(cs1) = cm + 1 /\ cs1[cm+1].fn = fn
        /\ cs1[cm+1].names = {x} /\ \A j \in 1..cm : cs1[j] = cs[j]
    <2>1. /\ WithName(ca, x) \in Seq(CScopes)
          /\ Len(WithName(ca, x)) = Len(ca)
          /\ \A j \in 1..Len(ca) - 1 : WithName(ca, x)[j] = ca[j]
          /\ WithName(ca, x)[Len(ca)].fn = ca[Len(ca)].fn
          /\ WithName(ca, x)[Len(ca)].names = ca[Len(ca)].names \union {x}
      <3>1. Len(ca) > 0
        BY <1>1, <1>7
      <3> QED
        BY <1>1, <1>7, <3>1, WithNameFacts
    <2>2. Len(ca) - 1 = cm
      BY <1>1, <1>7
    <2> QED
      BY <1>4, <1>7, <2>1, <2>2
  <1>10. Pushed(lb, 1, ls1)
    BY <1>4, <1>8, PushScopesFacts
  <1>11. /\ ls1 \in Seq(SUBSET Variables) /\ Len(ls1) = m + 2
         /\ \A i \in 1..m : ls1[i] = ls[i]
         /\ ls1[m+1] = {v} /\ ls1[m+2] = {}
    <2>1. /\ Len(lb) + 1 = m + 2 /\ m + 2 \in Len(lb)+1..Len(lb)+1
          /\ m + 1 \in 1..Len(lb) /\ \A i \in 1..m : i \in 1..Len(lb)
      BY <1>1, <1>8
    <2> QED
      BY <1>8, <1>10, <2>1 DEF Pushed
  <1>12. NewScopes(fs, ls, cs, "catch", ls1, cs1)
    BY <1>0, <1>2, <1>9, <1>11 DEF NewScopes
  <1>13. /\ m + 1 \in m+1..m+2 /\ cm + 1 \in cm+1..cm+1 /\ m + 1 # m + 2
         /\ \A i \in m+1..m+2 : i = m + 1 \/ i = m + 2
         /\ \A j \in cm+1..cm+1 : j = cm + 1
    BY <1>1
  <1>14. \A i \in m+1..m+2 : \A w \in ls1[i] : i = m + 1 /\ w = v
    BY <1>11, <1>13
  <1>15. \A k \in 0..MaxDepth : x # <<"iterator", k>>
    BY NamesAssumption
  <1>16. \A i \in m+1..m+2 : \A w \in ls1[i] :
            /\ ~LocalIn(ls, w.name)
            /\ \E j \in cm+1..cm+1 : w.name \in cs1[j].names
            /\ w.kind = "BLOCK_PARAM" => "catch" = "block"
            /\ \A k \in 0..MaxDepth : w.name = <<"iterator", k>> => k = Len(fs)
    BY <1>1, <1>9, <1>13, <1>14, <1>15
  <1>17. \A i, j \in m+1..m+2 : \A w \in ls1[i], u \in ls1[j] :
            w.name = u.name => i = j /\ w = u
    BY <1>14
  <1>18. \A j \in cm+1..cm+1 :
            /\ cs1[j].fn = IF "catch" = "block" \/ HasBlock(fs) THEN 1 ELSE 0
            /\ \A y \in cs1[j].names : \E i \in m+1..m+2 : \E w \in ls1[i] : w.name = y
    <2>1. fn = IF "catch" = "block" \/ HasBlock(fs) THEN 1 ELSE 0
      OBVIOUS
    <2>2. \A y \in {x} : \E i \in m+1..m+2 : \E w \in ls1[i] : w.name = y
      BY <1>1, <1>11, <1>13
    <2> QED
      BY <1>9, <1>13, <2>1, <2>2
  <1>19. NewVariables(fs, ls, cs, "catch", ls1, cs1)
    <2>1. Len(ls)+1..Len(ls1) = m+1..m+2 /\ Len(cs)+1..Len(cs1) = cm+1..cm+1
      BY <1>0, <1>9, <1>11
    <2>2. \A i \in Len(ls)+1..Len(ls1) : \A w \in ls1[i] :
            /\ ~LocalIn(ls, w.name)
            /\ \E j \in Len(cs)+1..Len(cs1) : w.name \in cs1[j].names
            /\ w.kind = "BLOCK_PARAM" => "catch" = "block"
            /\ \A k \in 0..MaxDepth : w.name = <<"iterator", k>> => k = Len(fs)
      BY <1>16, <2>1
    <2>3. \A i, j \in Len(ls)+1..Len(ls1) : \A w \in ls1[i], u \in ls1[j] :
            w.name = u.name => i = j /\ w = u
      BY ZenonT(60), <1>17, <2>1
    <2>4. \A j \in Len(cs)+1..Len(cs1) :
            /\ cs1[j].fn = IF "catch" = "block" \/ HasBlock(fs) THEN 1 ELSE 0
            /\ \A y \in cs1[j].names :
                 \E i \in Len(ls)+1..Len(ls1) : \E w \in ls1[i] : w.name = y
      BY <1>18, <2>1
    <2> QED
      BY <2>2, <2>3, <2>4 DEF NewVariables
  <1> QED
    BY <1>12, <1>19

LEMMA CloseTryAsInv ==
  ASSUME CodeInv, NEW x \in Vars \union Globals, CloseTryAs(x)
  PROVE  CodeInv'
  <1>1. PICK fs, ls, cs, sk : /\ fs = Cut(frames, 1) /\ ls = Cut(locals, VarPops("try"))
                              /\ cs = Cut(cscopes, Braces("try")) /\ sk = Cut(stacker, 1)
    OBVIOUS
  <1>2. pc = "gen" /\ Frame.kind = "try"
    BY DEF CloseTryAs, Generating
  <1>3. CASE LocalIn(ls, x) \/ x \in Globals
    BY <1>1, <1>3, FatalInv DEF CloseTryAs
  <1>4. CASE ~(LocalIn(ls, x) \/ x \in Globals)
    <2>1. /\ Shape(fs, ls, cs) /\ Stacked(fs, sk) /\ Len(fs) > 0
          /\ Len(fs) + 1 = Len(frames) /\ cs[1].names = cscopes[1].names
      BY <1>1, <1>2, TryShape
    <2>2. HasBlock(fs) <=> HasBlock(frames)
      BY <1>1, <1>2, TryShape
    <2>3. /\ "catch" \in Kinds \ {"func", "expr"} /\ ("catch" = "block" => ~HasBlock(fs))
          /\ Fn = IF HasBlock(fs) THEN 1 ELSE 0
      BY <2>2, FnIs DEF Kinds
    <2>4. /\ TryClosed("catch")
          /\ locals' = PushScopes(WithLocal(PushScopes(ls, 1), x), VarPushes("catch") - 1)
          /\ cscopes' = WithName(OpenBraces(cs, Fn, Braces("catch")), x)
          /\ Fine /\ UNCHANGED <<pc, entry, context_block>>
      BY <1>1, <1>4 DEF CloseTryAs
    <2>5. /\ NewScopes(fs, ls, cs, "catch", locals', cscopes')
          /\ NewVariables(fs, ls, cs, "catch", locals', cscopes')
      BY <1>4, <2>1, <2>3, <2>4, CatchScopes
    <2>6. /\ frames' = Append(fs, NewFrame("catch", ls, cs))
          /\ stacker' = Entered(fs, sk, "catch")
      BY <1>1, <2>1, <2>4 DEF TryClosed, Entered
    <2>7. /\ context_block' \in BOOLEAN
          /\ context_block' = TRUE <=> "catch" = "block" \/ HasBlock(fs)
          /\ pc' = "gen" /\ entry' \in Entries /\ bad' \subseteq odd'
          /\ entry' \in {"METHOD", "CONSTRUCTOR"} => Self \in cs[1].names
      BY <1>2, <2>1, <2>2, <2>4 DEF CodeInv, Fine
    <2> QED
      BY <2>1, <2>3, <2>5, <2>6, <2>7, OpenInv
  <1> QED
    BY <1>3, <1>4

LEMMA WithLocalAt ==
  ASSUME NEW ls \in Seq(SUBSET Variables), NEW n \in Nat, Len(ls) = n + 1, NEW x \in Names
  PROVE  /\ WithLocal(ls, x) \in Seq(SUBSET Variables) /\ Len(WithLocal(ls, x)) = n + 1
         /\ \A i \in 1..n : WithLocal(ls, x)[i] = ls[i]
         /\ WithLocal(ls, x)[n+1] = ls[n+1] \union {Variable(x, "REGULAR")}
  <1>1. Len(ls) > 0 /\ Len(ls) - 1 = n
    OBVIOUS
  <1>2. /\ WithLocal(ls, x) \in Seq(SUBSET Variables)
        /\ Len(WithLocal(ls, x)) = Len(ls)
        /\ \A i \in 1..Len(ls) - 1 : WithLocal(ls, x)[i] = ls[i]
        /\ WithLocal(ls, x)[Len(ls)] = ls[Len(ls)] \union {Variable(x, "REGULAR")}
    BY <1>1, WithLocalFacts
  <1> QED
    BY <1>1, <1>2

LEMMA WithNameAt ==
  ASSUME NEW cs \in Seq(CScopes), NEW n \in Nat, Len(cs) = n + 1, NEW x \in Names
  PROVE  /\ WithName(cs, x) \in Seq(CScopes) /\ Len(WithName(cs, x)) = n + 1
         /\ \A j \in 1..n : WithName(cs, x)[j] = cs[j]
         /\ WithName(cs, x)[n+1].fn = cs[n+1].fn
         /\ WithName(cs, x)[n+1].names = cs[n+1].names \union {x}
  <1>1. Len(cs) > 0 /\ Len(cs) - 1 = n
    OBVIOUS
  <1>2. /\ WithName(cs, x) \in Seq(CScopes)
        /\ Len(WithName(cs, x)) = Len(cs)
        /\ \A j \in 1..Len(cs) - 1 : WithName(cs, x)[j] = cs[j]
        /\ WithName(cs, x)[Len(cs)].fn = cs[Len(cs)].fn
        /\ WithName(cs, x)[Len(cs)].names = cs[Len(cs)].names \union {x}
    BY <1>1, WithNameFacts
  <1> QED
    BY <1>1, <1>2

(* Several variables D of the names X at once, in scope n + 1.              *)
Holding(ls, n, D, ls1) ==
  /\ ls1 \in Seq(SUBSET Variables) /\ Len(ls1) = n + 1
  /\ \A i \in 1..n : ls1[i] = ls[i]
  /\ ls1[n+1] = ls[n+1] \union D

LEMMA WithLocalsAt ==
  ASSUME NEW ls \in Seq(SUBSET Variables), NEW n \in Nat, Len(ls) = n + 1,
         NEW X, X \in SUBSET Names, NEW D, Declares(D, X, "REGULAR"),
         NEW ls1, ls1 = WithLocals(ls, X)
  PROVE  Holding(ls, n, D, ls1)
  <1>1. n + 1 \in 1..Len(ls) /\ ls[n+1] \in SUBSET Variables
    OBVIOUS
  <1>2. D \in SUBSET Variables
    <2>1. \A x \in X : Variable(x, "REGULAR") \in Variables
      BY DEF Variable, Variables
    <2> QED
      BY <2>1 DEF Declares
  <1>3. PICK T : T = ls[n+1] \union D /\ T \in SUBSET Variables
    BY <1>1, <1>2
  <1>4. WithLocals(ls, X) = [ls EXCEPT ![n+1] = T]
    BY <1>3 DEF WithLocals, Declares
  <1>5. /\ [ls EXCEPT ![n+1] = T] \in Seq(SUBSET Variables)
        /\ Len([ls EXCEPT ![n+1] = T]) = n + 1
        /\ \A i \in 1..n : [ls EXCEPT ![n+1] = T][i] = ls[i]
        /\ [ls EXCEPT ![n+1] = T][n+1] = T
    BY <1>1, <1>3
  <1> QED
    BY <1>3, <1>4, <1>5 DEF Holding

LEMMA WithNamesAt ==
  ASSUME NEW cs \in Seq(CScopes), NEW n \in Nat, Len(cs) = n + 1, NEW X \in SUBSET Names
  PROVE  /\ WithNames(cs, X) \in Seq(CScopes) /\ Len(WithNames(cs, X)) = n + 1
         /\ \A j \in 1..n : WithNames(cs, X)[j] = cs[j]
         /\ WithNames(cs, X)[n+1].fn = cs[n+1].fn
         /\ WithNames(cs, X)[n+1].names = cs[n+1].names \union X
  <1>1. n + 1 \in 1..Len(cs)
    OBVIOUS
  <1>2. PICK c : c = cs[n+1] /\ c \in CScopes
    BY <1>1
  <1>3. PICK d : d = [c EXCEPT !.names = @ \union X]
    OBVIOUS
  <1>4. d \in CScopes /\ d.fn = c.fn /\ d.names = c.names \union X
    BY <1>2, <1>3 DEF CScopes
  <1>5. WithNames(cs, X) = [cs EXCEPT ![n+1] = d]
    BY <1>2, <1>3 DEF WithNames
  <1>6. /\ [cs EXCEPT ![n+1] = d] \in Seq(CScopes) /\ Len([cs EXCEPT ![n+1] = d]) = n + 1
        /\ [cs EXCEPT ![n+1] = d][n+1] = d
        /\ \A j \in 1..n : [cs EXCEPT ![n+1] = d][j] = cs[j]
    BY <1>1, <1>4
  <1> QED
    BY <1>2, <1>4, <1>5, <1>6

(* The scopes of a for loop that declares the variables X, with its         *)
(* iterator y: as OpenFor writes them, and what they are.                   *)
ForLocalsOpened(ls, X, y, ls1) ==
  ls1 = PushScopes(WithLocals(WithLocal(PushScopes(ls, 1), y), X), 1)

ForBracesOpened(cs, fn, X, y, inner, cs1) ==
  /\ inner = OpenBraces(WithName(OpenBraces(cs, fn, 1), y), fn, 1)
  /\ cs1 = WithNames(inner, X)

ForLocalsAre(ls, m, D, y, ls1) ==
  /\ ls1 \in Seq(SUBSET Variables) /\ Len(ls1) = m + 2
  /\ \A i \in 1..m : ls1[i] = ls[i]
  /\ ls1[m+1] = {Variable(y, "REGULAR")} \union D
  /\ ls1[m+2] = {}

InnerBraces(cs, m, fn, y, inner) ==
  /\ inner \in Seq(CScopes) /\ Len(inner) = m + 2
  /\ \A j \in 1..m : inner[j] = cs[j]
  /\ inner[m+1].fn = fn /\ inner[m+1].names = {y}
  /\ inner[m+2].fn = fn /\ inner[m+2].names = {}

ForBracesAre(cs, m, fn, X, y, cs1) ==
  /\ cs1 \in Seq(CScopes) /\ Len(cs1) = m + 2
  /\ \A j \in 1..m : cs1[j] = cs[j]
  /\ cs1[m+1].fn = fn /\ cs1[m+1].names = {y}
  /\ cs1[m+2].fn = fn /\ cs1[m+2].names = X

LEMMA ForLocals ==
  ASSUME NEW ls \in Seq(SUBSET Variables), NEW m \in Nat, m = Len(ls),
         NEW X \in SUBSET Names, NEW y \in Names, NEW D, Declares(D, X, "REGULAR"),
         NEW ls1, ForLocalsOpened(ls, X, y, ls1)
  PROVE  ForLocalsAre(ls, m, D, y, ls1)
  <1>1. PICK la, lb, lc : /\ la = PushScopes(ls, 1) /\ lb = WithLocal(la, y)
                          /\ lc = WithLocals(lb, X)
    OBVIOUS
  <1>2. Pushed(ls, 1, la)
    BY <1>1, PushScopesFacts
  <1>3. /\ la \in Seq(SUBSET Variables) /\ Len(la) = m + 1 /\ la[m+1] = {}
        /\ \A i \in 1..m : la[i] = ls[i]
    BY <1>2 DEF Pushed
  <1>4. /\ lb \in Seq(SUBSET Variables) /\ Len(lb) = m + 1
        /\ \A i \in 1..m : lb[i] = la[i]
        /\ lb[m+1] = la[m+1] \union {Variable(y, "REGULAR")}
    <2>1. /\ WithLocal(la, y) \in Seq(SUBSET Variables) /\ Len(WithLocal(la, y)) = m + 1
          /\ \A i \in 1..m : WithLocal(la, y)[i] = la[i]
          /\ WithLocal(la, y)[m+1] = la[m+1] \union {Variable(y, "REGULAR")}
      BY <1>3, WithLocalAt
    <2> QED
      BY <1>1, <2>1
  <1>5. /\ lc \in Seq(SUBSET Variables) /\ Len(lc) = m + 1
        /\ \A i \in 1..m : lc[i] = lb[i]
        /\ lc[m+1] = lb[m+1] \union D
    <2>1. lc = WithLocals(lb, X) /\ lb \in Seq(SUBSET Variables) /\ Len(lb) = m + 1
      BY <1>1, <1>4
    <2>2. Holding(lb, m, D, lc)
      BY <2>1, WithLocalsAt
    <2> QED
      BY <2>2 DEF Holding
  <1>6. Pushed(lc, 1, ls1)
    <2>1. ls1 = PushScopes(lc, 1)
      BY <1>1 DEF ForLocalsOpened
    <2> QED
      BY <1>5, <2>1, PushScopesFacts
  <1>7. /\ Len(lc) + 1 = m + 2 /\ m + 2 \in Len(lc)+1..Len(lc)+1
        /\ m + 1 \in 1..Len(lc) /\ \A i \in 1..m : i \in 1..Len(lc)
    BY <1>5
  <1>8. /\ ls1 \in Seq(SUBSET Variables) /\ Len(ls1) = m + 2
        /\ \A i \in 1..m : ls1[i] = lc[i]
        /\ ls1[m+1] = lc[m+1] /\ ls1[m+2] = {}
    BY <1>6, <1>7 DEF Pushed
  <1>9. lc[m+1] = {Variable(y, "REGULAR")} \union D /\ \A i \in 1..m : lc[i] = ls[i]
    BY <1>3, <1>4, <1>5
  <1> QED
    BY <1>8, <1>9 DEF ForLocalsAre

LEMMA ForBraces ==
  ASSUME NEW cs \in Seq(CScopes), NEW m \in Nat, m = Len(cs), NEW fn \in {0, 1},
         NEW X \in SUBSET Names, NEW y \in Names, NEW inner, NEW cs1,
         ForBracesOpened(cs, fn, X, y, inner, cs1)
  PROVE  InnerBraces(cs, m, fn, y, inner) /\ ForBracesAre(cs, m, fn, X, y, cs1)
  <1>1. PICK ca, cb : ca = OpenBraces(cs, fn, 1) /\ cb = WithName(ca, y)
    OBVIOUS
  <1>2. Braced(cs, fn, 1, ca)
    BY <1>1, OpenBracesFacts
  <1>3. /\ ca \in Seq(CScopes) /\ Len(ca) = m + 1 /\ ca[m+1].fn = fn /\ ca[m+1].names = {}
        /\ \A j \in 1..m : ca[j] = cs[j]
    <2>1. m + 1 \in Len(cs)+1..Len(cs)+1
      OBVIOUS
    <2> QED
      BY <1>2, <2>1 DEF Braced
  <1>4. /\ cb \in Seq(CScopes) /\ Len(cb) = m + 1 /\ \A j \in 1..m : cb[j] = ca[j]
        /\ cb[m+1].fn = ca[m+1].fn /\ cb[m+1].names = ca[m+1].names \union {y}
    BY SMTT(60), <1>1, <1>3, WithNameAt
  <1>5. Braced(cb, fn, 1, inner)
    <2>1. inner = OpenBraces(cb, fn, 1)
      BY <1>1 DEF ForBracesOpened
    <2> QED
      BY <1>4, <2>1, OpenBracesFacts
  <1>6. /\ inner \in Seq(CScopes) /\ Len(inner) = m + 2
        /\ \A j \in 1..m : inner[j] = cs[j]
        /\ inner[m+1].fn = fn /\ inner[m+1].names = {y}
        /\ inner[m+2].fn = fn /\ inner[m+2].names = {}
    <2>1. /\ Len(cb) + 1 = m + 2 /\ m + 2 \in Len(cb)+1..Len(cb)+1
          /\ m + 1 \in 1..Len(cb) /\ \A j \in 1..m : j \in 1..Len(cb)
      BY <1>4
    <2>2. inner[m+1] = cb[m+1] /\ inner[m+2].fn = fn /\ inner[m+2].names = {}
          /\ \A j \in 1..m : inner[j] = cb[j]
      BY <1>5, <2>1 DEF Braced
    <2>3. inner \in Seq(CScopes) /\ Len(inner) = m + 2
      BY <1>5, <2>1 DEF Braced
    <2> QED
      BY <1>3, <1>4, <2>2, <2>3
  <1>7. PICK n \in Nat : n = m + 1
    OBVIOUS
  <1>8. /\ Len(inner) = n + 1 /\ n \in 1..n
        /\ n + 1 = m + 2 /\ \A j \in 1..m : j \in 1..n
    BY <1>6, <1>7
  <1>9. /\ cs1 \in Seq(CScopes) /\ Len(cs1) = n + 1
        /\ \A j \in 1..n : cs1[j] = inner[j]
        /\ cs1[n+1].fn = inner[n+1].fn
        /\ cs1[n+1].names = inner[n+1].names \union X
    <2>1. cs1 = WithNames(inner, X)
      BY DEF ForBracesOpened
    <2> QED
      BY SMTT(60), <1>6, <1>8, <2>1, WithNamesAt
  <1>10. /\ Len(cs1) = m + 2 /\ \A j \in 1..m : cs1[j] = cs[j]
         /\ cs1[m+1] = inner[m+1] /\ cs1[m+2].fn = fn /\ cs1[m+2].names = X
    BY <1>6, <1>7, <1>8, <1>9
  <1> QED
    BY <1>6, <1>9, <1>10 DEF ForBracesAre, InnerBraces

IteratorIs(fs, y) == y = <<"iterator", Len(fs)>>

LEMMA ForScopes ==
  ASSUME NEW fs, NEW ls, NEW cs, Shape(fs, ls, cs), NEW X \in SUBSET (Vars \union Globals),
         \A x \in X : ~LocalIn(ls, x), Len(fs) < MaxDepth,
         NEW y, IteratorIs(fs, y), NEW fn, fn = IF HasBlock(fs) THEN 1 ELSE 0,
         NEW ls1, ForLocalsOpened(ls, X, y, ls1),
         NEW inner, NEW cs1, ForBracesOpened(cs, fn, X, y, inner, cs1)
  PROVE  /\ NewScopes(fs, ls, cs, "for", ls1, cs1)
         /\ NewVariables(fs, ls, cs, "for", ls1, cs1)
  <1>0. PICK m, cm, v, D, V : /\ m = Len(ls) /\ cm = Len(cs)
                              /\ v = Variable(y, "REGULAR")
                              /\ D = {Variable(x, "REGULAR") : x \in X}
                              /\ V = {v} \union D
    OBVIOUS
  <1>1. /\ ls \in Seq(SUBSET Variables) /\ cs \in Seq(CScopes) /\ fn \in {0, 1}
        /\ Len(fs) \in Nat /\ m \in Nat /\ cm \in Nat
    BY <1>0 DEF Shape, Typed
  <1>a. y = <<"iterator", Len(fs)>>
    BY DEF IteratorIs
  <1>2. /\ Len(fs) \in 0..MaxDepth /\ MaxDepth \in Nat /\ X \in SUBSET Names /\ y \in Names
        /\ v.name = y /\ v.kind = "REGULAR"
    BY <1>0, <1>1, <1>a, NamesAssumption DEF Names, Variable
  <1>b. Declares(D, X, "REGULAR")
    BY <1>0 DEF Declares
  <1>c. /\ \A w \in D : w.name \in X /\ w.kind = "REGULAR"
        /\ \A w, u \in D : w.name = u.name => w = u
        /\ \A x \in X : \E w \in D : w.name = x
    BY <1>b, VariablesOf
  <1>3. /\ ls1 \in Seq(SUBSET Variables) /\ Len(ls1) = m + 2
        /\ \A i \in 1..m : ls1[i] = ls[i]
        /\ ls1[m+1] = V /\ ls1[m+2] = {}
    <2>1. ForLocalsAre(ls, m, D, y, ls1)
      BY <1>0, <1>1, <1>2, <1>b, ForLocals
    <2> QED
      BY <1>0, <2>1 DEF ForLocalsAre
  <1>4. /\ cs1 \in Seq(CScopes) /\ Len(cs1) = cm + 2
        /\ \A j \in 1..cm : cs1[j] = cs[j]
        /\ cs1[cm+1].fn = fn /\ cs1[cm+1].names = {y}
        /\ cs1[cm+2].fn = fn /\ cs1[cm+2].names = X
    <2>1. ForBracesAre(cs, cm, fn, X, y, cs1)
      BY <1>0, <1>1, <1>2, ForBraces
    <2> QED
      BY <2>1 DEF ForBracesAre
  <1>5. NewScopes(fs, ls, cs, "for", ls1, cs1)
    <2>1. VarPushes("for") = 2 /\ Braces("for") = 2
      BY DEF VarPushes, Braces
    <2> QED
      BY <1>0, <1>3, <1>4, <2>1 DEF NewScopes
  <1>6. /\ m + 1 \in m+1..m+2 /\ m + 1 # m + 2
        /\ \A i \in m+1..m+2 : i = m + 1 \/ i = m + 2
        /\ cm + 1 \in cm+1..cm+2 /\ cm + 2 \in cm+1..cm+2
        /\ \A j \in cm+1..cm+2 : j = cm + 1 \/ j = cm + 2
    BY <1>1
  <1>7. \A i \in m+1..m+2 : \A u \in ls1[i] : i = m + 1 /\ u \in V
    BY <1>3, <1>6
  <1>8. /\ \A x \in X : \A k \in 0..MaxDepth : x # <<"iterator", k>>
        /\ \A k \in 0..MaxDepth : y = <<"iterator", k>> => k = Len(fs)
    <2>1. \A k \in 0..MaxDepth : <<"iterator", k>> \notin Vars \union Globals
      BY NamesAssumption
    <2> QED
      BY <1>a, <2>1
  <1>9. y \notin X
    BY <1>2, <1>8, <1>a
  <1>10. ~LocalIn(ls, y)
    <2> SUFFICES ASSUME NEW i \in 1..Len(ls), NEW u \in ls[i], u.name = y PROVE FALSE
      BY DEF LocalIn
    <2>1. Len(fs) + 1 \in 1..Len(fs)
      BY <1>2, <1>a DEF Shape, Iterators
    <2> QED
      BY <1>1, <2>1
  <1>11. \A u \in V : /\ ~LocalIn(ls, u.name) /\ u.kind # "BLOCK_PARAM"
                      /\ u.name = y \/ u.name \in X
                      /\ \A k \in 0..MaxDepth : u.name = <<"iterator", k>> => k = Len(fs)
    <2> SUFFICES ASSUME NEW u \in V
                 PROVE  /\ ~LocalIn(ls, u.name) /\ u.kind # "BLOCK_PARAM"
                        /\ u.name = y \/ u.name \in X
                        /\ \A k \in 0..MaxDepth : u.name = <<"iterator", k>> => k = Len(fs)
      OBVIOUS
    <2>1. CASE u = v
      BY <1>2, <1>8, <1>10, <2>1
    <2>2. CASE u \in D
      BY <1>8, <1>c, <2>2
    <2> QED
      BY <1>0, <2>1, <2>2
  <1>12. \A u, t \in V : u.name = t.name => u = t
    BY <1>0, <1>2, <1>9, <1>c
  <1>13. Len(ls)+1..Len(ls1) = m+1..m+2 /\ Len(cs)+1..Len(cs1) = cm+1..cm+2
    BY <1>0, <1>3, <1>4
  <1>14. \A i \in Len(ls)+1..Len(ls1) : \A u \in ls1[i] :
            /\ ~LocalIn(ls, u.name)
            /\ \E j \in Len(cs)+1..Len(cs1) : u.name \in cs1[j].names
            /\ u.kind = "BLOCK_PARAM" => "for" = "block"
            /\ \A k \in 0..MaxDepth : u.name = <<"iterator", k>> => k = Len(fs)
    <2>0. PICK I, J : I = m+1..m+2 /\ J = cm+1..cm+2
      OBVIOUS
    <2>a. I = Len(ls)+1..Len(ls1) /\ J = Len(cs)+1..Len(cs1)
      BY <1>13, <2>0
    <2> SUFFICES ASSUME NEW i \in I, NEW u \in ls1[i]
                 PROVE  /\ ~LocalIn(ls, u.name)
                        /\ \E j \in J : u.name \in cs1[j].names
                        /\ u.kind # "BLOCK_PARAM"
                        /\ \A k \in 0..MaxDepth : u.name = <<"iterator", k>> => k = Len(fs)
      BY <2>a
    <2>1. u \in V
      BY <1>7, <2>0
    <2>2. \E j \in J : u.name \in cs1[j].names
      BY <1>4, <1>6, <1>11, <2>0, <2>1
    <2> QED
      BY <1>11, <2>1, <2>2
  <1>15. \A i, j \in Len(ls)+1..Len(ls1) : \A u \in ls1[i], t \in ls1[j] :
            u.name = t.name => i = j /\ u = t
    <2>1. \A i, j \in m+1..m+2 : \A u \in ls1[i], t \in ls1[j] :
            u.name = t.name => i = j /\ u = t
      BY <1>7, <1>12
    <2> QED
      BY <1>13, <2>1
  <1>16. \A j \in Len(cs)+1..Len(cs1) :
            /\ cs1[j].fn = IF "for" = "block" \/ HasBlock(fs) THEN 1 ELSE 0
            /\ \A z \in cs1[j].names :
                 \E i \in Len(ls)+1..Len(ls1) : \E u \in ls1[i] : u.name = z
    <2>1. fn = IF "for" = "block" \/ HasBlock(fs) THEN 1 ELSE 0
      OBVIOUS
    <2>2. \A z \in {y} \union X : \E u \in V : u.name = z
      BY <1>0, <1>2, <1>c
    <2>3. \A z \in {y} \union X : \E i \in m+1..m+2 : \E u \in ls1[i] : u.name = z
      BY <1>3, <1>6, <2>2
    <2>4. \A j \in cm+1..cm+2 : cs1[j].fn = fn /\ cs1[j].names \subseteq {y} \union X
      BY <1>4, <1>6
    <2> QED
      BY <1>13, <2>1, <2>3, <2>4
  <1>17. NewVariables(fs, ls, cs, "for", ls1, cs1)
    BY <1>14, <1>15, <1>16 DEF NewVariables
  <1> QED
    BY <1>5, <1>17

(* What is written for the targets of a for loop is right, unless it is in  *)
(* a block.                                                                 *)
LEMMA ForErrors ==
  ASSUME CodeInv, NEW X \in SUBSET (Vars \union Globals), NEW many \in BOOLEAN,
         NEW m \in Nat, m = Len(cscopes), NEW inner,
         InnerBraces(cscopes, m, Fn, Iterator, inner)
  PROVE  (UNION {AssignErrors(inner, x) : x \in X})
           \union Flag("name", ~Resolves(inner, 0, Iterator))
           \union TempErrors(inner, many) \subseteq Flag("name", context_block)
  <1>1. /\ inner \in Seq(CScopes) /\ Len(inner) = m + 2
        /\ \A j \in 1..m : inner[j] = cscopes[j]
        /\ inner[m+1].fn = Fn /\ Iterator \in inner[m+1].names
        /\ inner[m+2].fn = Fn /\ inner[m+2].names = {}
    BY DEF InnerBraces
  <1>2. ASSUME NEW x \in X
        PROVE  AssignErrors(inner, x) \subseteq Flag("name", context_block)
    <2>1. CASE ~Visible(x)
      <3>1. x \notin inner[Len(inner)].names
        BY <1>1
      <3> QED
        BY <2>1, <3>1 DEF AssignErrors, Flag
    <2>2. CASE Visible(x)
      <3>1. ~OuterLocal(x) => Resolves(inner, Fn, x)
        <4>1. /\ Len(inner) \in Nat /\ Len(cscopes) <= Len(inner)
              /\ \A j \in 1..Len(cscopes) : /\ inner[j].fn = cscopes[j].fn
                                            /\ inner[j].names = cscopes[j].names
          BY <1>1
        <4> QED
          BY <2>2, <4>1, AssignResolves
      <3>2. OuterLocal(x) => context_block
        BY DEF OuterLocal
      <3> QED
        BY <2>2, <3>1, <3>2 DEF AssignErrors, Flag
    <2> QED
      BY <2>1, <2>2
  <1>3. CASE context_block = TRUE
    BY <1>2, <1>3 DEF TempErrors, Flag
  <1>4. CASE context_block = FALSE
    <2>1. Fn = 0
      BY <1>4 DEF Fn
    <2>2. Resolves(inner, 0, Iterator)
      <3>1. m + 1 \in 1..Len(inner)
        BY <1>1
      <3> QED
        BY <1>1, <2>1, <3>1 DEF Resolves
    <2>3. Resolves(WithName(inner, Temp), 0, Temp)
      <3>1. Len(inner) > 0 /\ inner[Len(inner)].fn = 0
        BY <1>1, <2>1
      <3> QED
        BY <1>1, <3>1, TopResolves
    <2> QED
      BY <1>2, <2>2, <2>3 DEF TempErrors, Flag
  <1> QED
    BY <1>3, <1>4 DEF CodeInv

LEMMA OpenForInv ==
  ASSUME CodeInv, NEW X \in SUBSET (Vars \union Globals), NEW typed \in BOOLEAN,
         NEW many \in BOOLEAN, OpenFor(X, typed, many)
  PROVE  CodeInv'
  <1>1. CASE Fatal
    BY <1>1, FatalInv
  <1>2. CASE ~Fatal
    <2>1. PICK new, y, inner :
            /\ new = {x \in X : ~Visible(x)} /\ y = Iterator
            /\ inner = OpenBraces(WithName(OpenBraces(cscopes, Fn, 1), y), Fn, 1)
      OBVIOUS
    <2>2. VarPushes("for") - 1 = 1 /\ Braces("for") - 1 = 1
      BY DEF VarPushes, Braces
    <2>3. /\ AtStmt /\ OneMore /\ Opened("for")
          /\ locals' = PushScopes(WithLocals(WithLocal(PushScopes(locals, 1), y), new), 1)
          /\ cscopes' = WithNames(inner, new)
          /\ bad' = (UNION {AssignErrors(inner, x) : x \in X})
                       \union Flag("name", ~Resolves(inner, 0, Iterator))
                       \union TempErrors(inner, many)
          /\ odd' = Flag("name", context_block)
          /\ UNCHANGED <<pc, entry, context_block>>
      BY <1>2, <2>1, <2>2 DEF OpenFor
    <2>4. /\ Shape(frames, locals, cscopes) /\ Stacked(frames, stacker) /\ Len(frames) > 0
          /\ "for" \in Kinds \ {"func", "expr"} /\ ("for" = "block" => ~HasBlock(frames))
          /\ Len(frames) < MaxDepth /\ pc = "gen"
      BY <2>3 DEF CodeInv, Shape, Typed, Kinds, AtStmt, Generating, OneMore
    <2>5. Fn \in {0, 1} /\ Fn = IF HasBlock(frames) THEN 1 ELSE 0
      BY FnIs
    <2>6. /\ ForLocalsOpened(locals, new, y, locals')
          /\ ForBracesOpened(cscopes, Fn, new, y, inner, cscopes')
          /\ new \in SUBSET (Vars \union Globals) /\ \A x \in new : ~LocalIn(locals, x)
          /\ IteratorIs(frames, y)
      BY <2>1, <2>3 DEF Visible, ForLocalsOpened, ForBracesOpened, IteratorIs, Iterator
    <2>7. /\ NewScopes(frames, locals, cscopes, "for", locals', cscopes')
          /\ NewVariables(frames, locals, cscopes, "for", locals', cscopes')
      BY <2>4, <2>5, <2>6, ForScopes
    <2>8. bad' \subseteq odd'
      <3>1. PICK m \in Nat : m = Len(cscopes) /\ cscopes \in Seq(CScopes)
        BY <2>4 DEF Shape, Typed
      <3>2. y \in Names /\ new \in SUBSET Names
        <4>1. Len(frames) \in 0..MaxDepth
          BY <2>4, NamesAssumption DEF Shape, Typed
        <4> QED
          BY <2>1, <2>6, <4>1 DEF Names, Iterator
      <3>3. InnerBraces(cscopes, m, Fn, y, inner)
        BY <2>5, <2>6, <3>1, <3>2, ForBraces
      <3>4. InnerBraces(cscopes, m, Fn, Iterator, inner)
        BY <2>1, <3>3
      <3>5. (UNION {AssignErrors(inner, x) : x \in X})
              \union Flag("name", ~Resolves(inner, 0, Iterator))
              \union TempErrors(inner, many) \subseteq Flag("name", context_block)
        BY <3>1, <3>4, ForErrors
      <3> QED
        BY <2>3, <3>5
    <2>9. /\ frames' = Append(frames, NewFrame("for", locals, cscopes))
          /\ stacker' = Entered(frames, stacker, "for")
      BY <2>3 DEF Opened, Entered
    <2>10. /\ context_block' \in BOOLEAN
           /\ context_block' = TRUE <=> "for" = "block" \/ HasBlock(frames)
           /\ pc' = "gen" /\ entry' \in Entries
           /\ entry' \in {"METHOD", "CONSTRUCTOR"} => Self \in cscopes[1].names
      BY <2>3, <2>4 DEF CodeInv
    <2> QED
      BY <2>4, <2>7, <2>8, <2>9, <2>10, OpenInv
  <1> QED
    BY <1>1, <1>2

-----------------------------------------------------------------------------
(* StmtsInv: what gen_block() remembers of the statements in every block.   *)
LEMMA SaidsOf ==
  ASSUME NEW ss, NEW n \in Nat, Sensible(ss, n)
  PROVE  /\ Sensible(Within(ss), n + 1)
         /\ n > 0 => Sensible(Cut(ss, 1), n - 1)
         /\ \A said \in Saids : n > 0 /\ (said.prev = "if" => said.code # "other") =>
              Sensible([ss EXCEPT ![Len(ss)] = said], n)
  <1>1. /\ ss \in Seq(Saids) /\ Len(ss) = n
        /\ \A i \in 1..n : ss[i].prev = "if" => ss[i].code # "other"
    BY DEF Sensible
  <1>2. Sensible(Within(ss), n + 1)
    <2>1. PICK d : d = NoStmt
      OBVIOUS
    <2>2. d \in Saids /\ d.prev = "other"
      BY <2>1 DEF NoStmt, Said, Saids
    <2>3. /\ Append(ss, d) \in Seq(Saids) /\ Len(Append(ss, d)) = n + 1
          /\ \A i \in 1..n : Append(ss, d)[i] = ss[i]
          /\ Append(ss, d)[n+1] = d
      BY <1>1, <2>2, PushSeq
    <2>4. \A i \in 1..n+1 : i \in 1..n \/ i = n + 1
      OBVIOUS
    <2>5. \A i \in 1..n+1 : Append(ss, d)[i].prev = "if" => Append(ss, d)[i].code # "other"
      BY <1>1, <2>2, <2>3, <2>4
    <2> QED
      BY <2>1, <2>3, <2>5 DEF Sensible, Within
  <1>3. ASSUME n > 0
        PROVE  Sensible(Cut(ss, 1), n - 1)
    <2>1. 1 \in 0..Len(ss) /\ \A i \in 1..n-1 : i \in 1..n
      BY <1>1, <1>3
    <2>2. /\ Cut(ss, 1) \in Seq(Saids) /\ Len(Cut(ss, 1)) = Len(ss) - 1
          /\ \A i \in 1..(Len(ss) - 1) : Cut(ss, 1)[i] = ss[i]
      BY ZenonT(60), <1>1, <2>1, CutSeq
    <2> QED
      BY <1>1, <2>1, <2>2 DEF Sensible
  <1>4. ASSUME NEW said \in Saids, n > 0, said.prev = "if" => said.code # "other"
        PROVE  Sensible([ss EXCEPT ![Len(ss)] = said], n)
    <2>1. PICK t, S : t = [ss EXCEPT ![n] = said] /\ S = Saids
      OBVIOUS
    <2>2. /\ t \in Seq(Saids) /\ Len(t) = n
          /\ \A i \in 1..n : t[i] = IF i = n THEN said ELSE ss[i]
      <3>1. ss \in Seq(S) /\ Len(ss) = n /\ n \in 1..Len(ss) /\ said \in S
        BY <1>1, <1>4, <2>1
      <3>2. t \in Seq(S) /\ Len(t) = n /\ \A i \in 1..n : t[i] = IF i = n THEN said ELSE ss[i]
        BY <2>1, <3>1
      <3> QED
        BY <2>1, <3>2
    <2> QED
      BY <1>1, <1>4, <2>1, <2>2 DEF Sensible
  <1> QED
    BY <1>2, <1>3, <1>4

LEMMA StmtsWrote ==
  ASSUME StmtsInv, NEW n \in Nat, n = Len(frames), n > 0
  PROVE  /\ Sensible(WroteIf, n) /\ Sensible(WroteOther, n) /\ Sensible(WroteTry, n)
         /\ Sensible(stmts, n)
  <1>1. Sensible(stmts, n)
    BY DEF StmtsInv
  <1>2. ASSUME NEW prev \in {"if", "other"}, NEW code \in {"if", "try", "other"},
               prev = "if" => code # "other"
        PROVE  Sensible(Wrote(Said(prev, code)), n)
    <2>1. PICK said : said = Said(prev, code)
      OBVIOUS
    <2>2. said \in Saids /\ said.prev = prev /\ said.code = code
      BY <2>1 DEF Said, Saids
    <2>3. Sensible([stmts EXCEPT ![Len(stmts)] = said], n)
      BY <1>1, <1>2, <2>2, SaidsOf
    <2> QED
      BY <2>1, <2>3 DEF Wrote
  <1>3. Sensible(WroteIf, n) /\ Sensible(WroteOther, n)
    BY <1>2 DEF WroteIf, WroteOther, NoStmt
  <1>4. Sensible(WroteTry, n)
    BY <1>1, <1>2 DEF WroteTry
  <1> QED
    BY <1>1, <1>3, <1>4

LEMMA StmtsInvInit == Init => StmtsInv
  BY DEF Init, StmtsInv, Sensible

(* A block is begun, after one of these statements of the block around it.  *)
LEMMA StmtsPush ==
  ASSUME CodeInv, StmtsInv, NEW f, frames' = Append(frames, f),
         NEW ss, Sensible(ss, Len(frames)), stmts' = Within(ss)
  PROVE  StmtsInv'
  <1>1. PICK n \in Nat : n = Len(frames)
    BY DEF CodeInv, Shape, Typed
  <1>2. Len(frames') = n + 1
    BY <1>1 DEF CodeInv, Shape, Typed
  <1>3. Sensible(stmts', n + 1)
    BY <1>1, SaidsOf
  <1> QED
    BY <1>2, <1>3 DEF StmtsInv

LEMMA StmtsPop ==
  ASSUME CodeInv, StmtsInv, Len(frames) > 0,
         frames' = Cut(frames, 1), stmts' = Cut(stmts, 1)
  PROVE  StmtsInv'
  <1>1. PICK n \in Nat : n = Len(frames) /\ n > 0 /\ 1 \in 0..n /\ frames \in Seq(Frames)
    BY DEF CodeInv, Shape, Typed
  <1>2. Len(frames') = n - 1
    BY <1>1, CutSeq
  <1>3. Sensible(stmts', n - 1)
    BY <1>1, SaidsOf DEF StmtsInv
  <1> QED
    BY <1>2, <1>3 DEF StmtsInv

LEMMA StmtsSame ==
  ASSUME CodeInv, StmtsInv, frames' = frames,
         stmts' = stmts \/ (Generating /\ stmts' = WroteOther)
  PROVE  StmtsInv'
  <1>1. CASE stmts' = stmts
    BY <1>1 DEF StmtsInv
  <1>2. CASE Generating /\ stmts' = WroteOther
    <2>1. PICK n \in Nat : n = Len(frames) /\ n > 0
      BY <1>2 DEF CodeInv, Shape, Typed, Generating
    <2>2. Sensible(stmts', n)
      BY <1>2, <2>1, StmtsWrote
    <2> QED
      BY <2>1, <2>2 DEF StmtsInv
  <1> QED
    BY <1>1, <1>2

LEMMA StmtsTry ==
  ASSUME CodeInv, StmtsInv, NEW kind, TryClosed(kind)
  PROVE  StmtsInv'
  <1>1. PICK n \in Nat : /\ n = Len(frames) /\ n > 0 /\ 1 \in 0..n /\ n = (n - 1) + 1
                         /\ n - 1 \in Nat /\ frames \in Seq(Frames)
    BY DEF TryClosed, Generating, CodeInv, Shape, Typed
  <1>2. PICK fs, f, ss : fs = Cut(frames, 1) /\ frames' = Append(fs, f) /\ ss = Cut(stmts, 1)
    BY DEF TryClosed
  <1>3. fs \in Seq(Frames) /\ Len(fs) = n - 1
    BY <1>1, <1>2, CutSeq
  <1>4. Len(frames') = n
    BY <1>1, <1>2, <1>3
  <1>5. Sensible(ss, n - 1)
    BY <1>1, <1>2, SaidsOf DEF StmtsInv
  <1>6. Sensible(Within(ss), n)
    BY <1>1, <1>5, SaidsOf
  <1> QED
    BY <1>2, <1>4, <1>6 DEF StmtsInv, TryClosed

LEMMA StmtsFatal ==
  ASSUME Fatal
  PROVE  StmtsInv'
  BY DEF Fatal, StmtsInv, Sensible

LEMMA StmtsInvNext == CodeInv /\ StmtsInv /\ [Next]_vars => StmtsInv'
  <1> SUFFICES ASSUME CodeInv, StmtsInv, [Next]_vars PROVE StmtsInv'
    OBVIOUS
  <1>a. ASSUME Generating
        PROVE  /\ Len(frames) > 0 /\ Len(frames) \in Nat
               /\ Sensible(WroteIf, Len(frames)) /\ Sensible(WroteOther, Len(frames))
               /\ Sensible(WroteTry, Len(frames)) /\ Sensible(stmts, Len(frames))
    <2>1. Len(frames) > 0 /\ Len(frames) \in Nat
      BY <1>a DEF Generating, CodeInv, Shape, Typed
    <2> QED
      BY <2>1, StmtsWrote
  <1>1. ASSUME NEW e \in Entries, NEW P \in SUBSET Vars, gen_code(e, P) PROVE StmtsInv'
    <2>1. \E f : frames' = Append(frames, f)
      BY <1>1 DEF gen_code
    <2>2. stmts' = Within(stmts) /\ Sensible(stmts, Len(frames))
      BY <1>1 DEF gen_code, StmtsInv
    <2> QED
      BY <2>1, <2>2, StmtsPush
  <1>2. ASSUME NEW x \in Vars \union Globals \union {Self}, Read(x) PROVE StmtsInv'
    BY <1>2, StmtsFatal, StmtsSame DEF Read
  <1>3. ASSUME NEW many \in BOOLEAN, NEW x \in Vars \union Globals \union {Self}, Assign(x, many)
        PROVE  StmtsInv'
    BY <1>3, StmtsSame DEF Assign, AtStmt
  <1>4. ASSUME NEW many \in BOOLEAN, NEW x \in Vars \union Globals, AssignTyped(x, many)
        PROVE  StmtsInv'
    BY <1>4, StmtsFatal, StmtsSame DEF AssignTyped, AtStmt
  <1>5. ASSUME NEW many \in BOOLEAN, NEW X \in SUBSET (Vars \union Globals),
               NEW typed \in BOOLEAN, OpenFor(X, typed, many)
        PROVE  StmtsInv'
    <2>1. CASE Fatal
      BY <2>1, StmtsFatal
    <2>2. CASE ~Fatal
      <3>1. /\ Generating /\ stmts' = Within(WroteOther)
            /\ \E f : frames' = Append(frames, f)
        BY <1>5, <2>2 DEF OpenFor, Opened, AtStmt
      <3> QED
        BY <1>a, <3>1, StmtsPush
    <2> QED
      BY <2>1, <2>2
  <1>6. ASSUME NEW many \in BOOLEAN, Simple(many) PROVE StmtsInv'
    BY <1>6, StmtsSame DEF Simple, AtStmt
  <1>7. ASSUME NEW x \in Vars \union Globals, CloseTryAs(x) PROVE StmtsInv'
    BY <1>7, StmtsFatal, StmtsTry DEF CloseTryAs
  <1>8. ASSUME NEW a \in BOOLEAN, NEW f \in BOOLEAN, AtVar(a, f) PROVE StmtsInv'
    BY <1>8, StmtsFatal, StmtsSame DEF AtVar, AtStmt
  <1>9. ASSUME NEW n \in 0..MaxArgs, NEW m \in 0..MaxArgs, NEW v \in BOOLEAN,
               StaticCall(n, m, v)
        PROVE  StmtsInv'
    BY <1>9, StmtsFatal, StmtsSame DEF StaticCall
  <1>10. ASSUME Return PROVE StmtsInv'
    BY <1>10, StmtsSame DEF Return, AtStmt
  <1>11. ASSUME NEW k \in {"if", "case", "loop", "try"}, Open(k) PROVE StmtsInv'
    <2>1. Generating /\ \E f : frames' = Append(frames, f)
      BY <1>11 DEF Open, Body, Opened, AtStmt
    <2>2. \E ss : Sensible(ss, Len(frames)) /\ stmts' = Within(ss)
      BY <1>11, <1>a, <2>1 DEF Open
    <2> QED
      BY <2>1, <2>2, StmtsPush
  <1>12. ASSUME NEW k \in {"elif", "else"}, OpenElse(k) PROVE StmtsInv'
    <2>1. CASE Fatal
      BY <2>1, StmtsFatal
    <2>2. CASE ~Fatal
      <3>1. Generating /\ \E f : frames' = Append(frames, f)
        BY <1>12, <2>2 DEF OpenElse, Body, Opened, AtStmt
      <3>2. \E ss : Sensible(ss, Len(frames)) /\ stmts' = Within(ss)
        BY <1>12, <1>a, <2>2, <3>1 DEF OpenElse
      <3> QED
        BY <3>1, <3>2, StmtsPush
    <2> QED
      BY <2>1, <2>2
  <1>13. ASSUME Stray PROVE StmtsInv'
    BY <1>13, StmtsFatal DEF Stray
  <1>14. ASSUME NEW P \in SUBSET Vars, OpenBlock(P) PROVE StmtsInv'
    <2>1. CASE Fatal
      BY <2>1, StmtsFatal
    <2>2. CASE ~Fatal
      <3>1. /\ Generating /\ stmts' = Within(stmts)
            /\ \E f : frames' = Append(frames, f)
        BY <1>14, <2>2 DEF OpenBlock
      <3> QED
        BY <1>a, <3>1, StmtsPush
    <2> QED
      BY <2>1, <2>2
  <1>15. ASSUME Close \/ CloseBlock \/ CloseCode PROVE StmtsInv'
    <2>1. Generating /\ frames' = Cut(frames, 1) /\ stmts' = Cut(stmts, 1)
      BY <1>15 DEF Close, CloseBlock, CloseCode, Closed
    <2> QED
      BY <1>a, <2>1, StmtsPop
  <1>16. ASSUME NEW k \in {"catch", "finally"}, CloseTry(k) PROVE StmtsInv'
    BY <1>16, StmtsTry DEF CloseTry
  <1>17. ASSUME NEW n \in 0..MaxDepth, Goto(n) PROVE StmtsInv'
    BY <1>17, StmtsFatal, StmtsSame DEF Goto, AtStmt
  <1>18. CASE UNCHANGED vars
    BY <1>18, StmtsSame DEF vars
  <1> QED
    BY <1>1, <1>2, <1>3, <1>4, <1>5, <1>6, <1>7, <1>8, <1>9, <1>10, <1>11, <1>12, <1>13,
       <1>14, <1>15, <1>16, <1>17, <1>18 DEF Next

-----------------------------------------------------------------------------
LEMMA CodeInvInit == Init => CodeInv
  <1> SUFFICES ASSUME Init PROVE CodeInv
    OBVIOUS
  <1>1. /\ pc = "idle" /\ entry = "FUNCTION" /\ frames = <<>> /\ locals = <<>>
        /\ cscopes = <<>> /\ stacker = <<>> /\ context_block = FALSE /\ bad = {} /\ odd = {}
    BY DEF Init
  <1>2. Shape(frames, locals, cscopes) /\ Stacked(frames, stacker) /\ ~HasBlock(frames)
    BY <1>1, EmptyShape
  <1> QED
    BY <1>1, <1>2 DEF CodeInv, CAccepts, Entries

LEMMA CodeInvNext == CodeInv /\ StmtsInv /\ [Next]_vars => CodeInv'
  <1> SUFFICES ASSUME CodeInv, StmtsInv, [Next]_vars PROVE CodeInv'
    OBVIOUS
  <1>1. ASSUME NEW e \in Entries, NEW P \in SUBSET Vars, gen_code(e, P) PROVE CodeInv'
    BY <1>1, GenCodeInv
  <1>2. ASSUME NEW x \in Vars \union Globals \union {Self}, Read(x) PROVE CodeInv'
    BY <1>2, ReadInv
  <1>3. ASSUME NEW many \in BOOLEAN, NEW x \in Vars \union Globals \union {Self}, Assign(x, many)
        PROVE  CodeInv'
    BY <1>3, AssignAny
  <1>4. ASSUME NEW many \in BOOLEAN, NEW x \in Vars \union Globals, AssignTyped(x, many)
        PROVE  CodeInv'
    BY <1>4, AssignTypedAny
  <1>5. ASSUME NEW many \in BOOLEAN, NEW X \in SUBSET (Vars \union Globals),
               NEW typed \in BOOLEAN, OpenFor(X, typed, many)
        PROVE  CodeInv'
    BY <1>5, OpenForInv
  <1>6. ASSUME NEW many \in BOOLEAN, Simple(many) PROVE CodeInv'
    BY <1>6, SimpleInv
  <1>7. ASSUME NEW x \in Vars \union Globals, CloseTryAs(x) PROVE CodeInv'
    BY <1>7, CloseTryAsInv
  <1>8. ASSUME NEW a \in BOOLEAN, NEW f \in BOOLEAN, AtVar(a, f) PROVE CodeInv'
    BY <1>8, AtVarInv
  <1>9. ASSUME NEW n \in 0..MaxArgs, NEW m \in 0..MaxArgs, NEW v \in BOOLEAN,
               StaticCall(n, m, v)
        PROVE  CodeInv'
    BY <1>9, StaticCallInv
  <1>10. ASSUME Return PROVE CodeInv'
    BY <1>10, ReturnInv
  <1>11. ASSUME NEW k \in {"if", "case", "loop", "try"}, Open(k) PROVE CodeInv'
    BY <1>11, OpenedInv
  <1>12. ASSUME NEW k \in {"elif", "else"}, OpenElse(k) PROVE CodeInv'
    BY <1>12, OpenElseInv
  <1>13. ASSUME Stray PROVE CodeInv'
    BY <1>13, FatalInv DEF Stray
  <1>14. ASSUME NEW P \in SUBSET Vars, OpenBlock(P) PROVE CodeInv'
    BY <1>14, OpenBlockInv
  <1>15. ASSUME Close \/ CloseBlock \/ CloseCode PROVE CodeInv'
    BY <1>15, CloseInv
  <1>16. ASSUME NEW k \in {"catch", "finally"}, CloseTry(k) PROVE CodeInv'
    BY <1>16, CloseTryInv
  <1>17. ASSUME NEW n \in 0..MaxDepth, Goto(n) PROVE CodeInv'
    BY <1>17, GotoInv
  <1>18. CASE UNCHANGED vars
    <2>1. /\ UNCHANGED <<pc, entry, frames, locals, cscopes, stacker, context_block>>
          /\ bad' \subseteq odd'
      BY <1>18 DEF vars, CodeInv, CAccepts
    <2> QED
      BY <2>1, SameInv
  <1> QED
    BY <1>1, <1>2, <1>3, <1>4, <1>5, <1>6, <1>7, <1>8, <1>9, <1>10, <1>11, <1>12, <1>13,
       <1>14, <1>15, <1>16, <1>17, <1>18 DEF Next

(* Whatever tree is walked, statement by statement, the scopes of ripe      *)
(* variables, the braces and names of C, the stacker and context_block stay *)
(* as CodeInv says, and what gen_block() remembers as StmtsInv does.        *)
THEOREM CodegenInvariance == Spec => [](CodeInv /\ StmtsInv)
  <1>1. Init => CodeInv /\ StmtsInv
    BY CodeInvInit, StmtsInvInit
  <1>2. (CodeInv /\ StmtsInv) /\ [Next]_vars => (CodeInv /\ StmtsInv)'
    BY CodeInvNext, StmtsInvNext
  <1> QED
    BY <1>1, <1>2, PTL DEF Spec

(* Between functions nothing of the last one is left: no scope of           *)
(* var_push(), no brace, no statement in the stacker that gen_code()        *)
(* asserts to be empty, no context_block; and query() never has two scopes  *)
(* to choose from.                                                          *)
THEOREM ScopesMatchCorrect == Spec => []ScopesMatch
  <1>1. CodeInv => ScopesMatch
    <2> SUFFICES ASSUME CodeInv PROVE ScopesMatch
      OBVIOUS
    <2>1. OneBinding
      BY DEF CodeInv, Shape, OneScope, OneBinding
    <2>2. AllClosed
      <3> SUFFICES ASSUME pc = "idle"
                   PROVE  locals = <<>> /\ cscopes = <<>> /\ stacker = <<>> /\ ~context_block
        BY DEF AllClosed
      <3>1. frames = <<>> /\ Len(frames) = 0
        BY DEF CodeInv
      <3>2. locals = <<>> /\ cscopes = <<>>
        BY <3>1 DEF CodeInv, Shape, Typed, Nested
      <3>3. stacker = <<>>
        <4>1. stacker \in Seq([kind : Kinds, depth : Nat])
              /\ \A s \in 1..Len(stacker) : stacker[s].depth \in 1..0
          BY <3>1 DEF CodeInv, Stacked
        <4>2. ~(Len(stacker) > 0)
          <5> SUFFICES ASSUME Len(stacker) > 0 PROVE FALSE
            OBVIOUS
          <5>1. 1 \in 1..Len(stacker)
            BY <4>1
          <5> QED
            BY <4>1, <5>1
        <4> QED
          BY <4>1, <4>2
      <3>4. ~context_block
        BY <3>1 DEF CodeInv, HasBlock
      <3> QED
        BY <3>2, <3>3, <3>4
    <2> QED
      BY <2>1, <2>2 DEF ScopesMatch
  <1> QED
    BY <1>1, CodegenInvariance, PTL

(* The C compiler accepts what generator.c and eval.c write for the names,  *)
(* jumps and static calls of any program, apart from what odd names: what   *)
(* is known to go wrong in anonymous functions and after finally blocks.    *)
THEOREM CAcceptsCorrect == Spec => []CAccepts
  <1>1. CodeInv => CAccepts
    BY DEF CodeInv
  <1> QED
    BY <1>1, CodegenInvariance, PTL
=============================================================================
