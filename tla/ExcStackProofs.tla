--------------------------- MODULE ExcStackProofs ---------------------------
(***************************************************************************)
(* Proofs about ExcStack, for every class hierarchy, every STACK_SIZE and  *)
(* every nesting depth.  The inductive invariant IInv is about the number  *)
(* of the element that each region was given (slots).  Within one report,  *)
(* or outside of all, those numbers increase with the position and leave   *)
(* no gap, and every element up to stack_idx is that of such a region:     *)
(* hence HandlersMirror.  A report starts from what it has restored, and   *)
(* has overwritten what is above: of the elements below that, those of     *)
(* regions that are still there are what the regions have pushed.          *)
(***************************************************************************)
EXTENDS ExcStack, TLAPS

(* Region p of c knows the C frame it runs in: that of a function, unless   *)
(* it is a report.                                                          *)
FramedAt(c, p) ==
  /\ c[p].frame \in 1..p
  /\ c[c[p].frame].kind \in Frames
  /\ c[c[p].frame].kind = "func" \/ c[p].frame = p
  /\ \A q \in (c[p].frame + 1)..p : c[q].kind \notin Frames
  /\ c[p].kind \in Frames <=> c[p].h = ANNOT

Framed(c) == \A p \in 1..Len(c) : FramedAt(c, p)

Pushing(r) == r.kind \in {"func", "try"}

(* The number of elements that the report which region p is in has found    *)
(* on the stack.                                                            *)
BaseAt(s, p) == IF s[p].report = 0 THEN 0 ELSE s[s[p].report].index

(* The first b elements are those of regions among the first n that no      *)
(* report in between has overwritten.                                       *)
Exact(c, s, n, b) ==
  \A j \in 1..b : \E q \in 1..n :
    /\ Pushing(c[q]) /\ s[q].index = j
    /\ \A r \in (q+1)..n : c[r].kind = "report" => j <= s[r].index

Interrupts(c, n) == \E q \in 1..n : c[q].kind = "finally"

(* The report of region p is the innermost one.                             *)
InReport(c, s, p) ==
  /\ s[p].report \in 0..p
  /\ s[p].report = p <=> c[p].kind = "report"
  /\ s[p].report # 0 => c[s[p].report].kind = "report"
  /\ \A q \in (s[p].report + 1)..p : c[q].kind # "report"

(* The elements between that report's and that of region p are those of the *)
(* regions in between, in order.                                            *)
Above(c, s, p) ==
  /\ BaseAt(s, p) < s[p].index
  /\ \A q \in (s[p].report + 1)..(p-1) :
       Pushing(c[q]) => s[q].index < s[p].index
  /\ \A j \in (BaseAt(s, p) + 1)..(s[p].index - 1) :
       \E q \in (s[p].report + 1)..(p-1) : Pushing(c[q]) /\ s[q].index = j

NumberedAt(c, s, p) ==
  /\ InReport(c, s, p)
  /\ c[p].kind # "report" => Above(c, s, p)
  /\ c[p].kind = "report" =>
       Interrupts(c, p - 1) \/ Exact(c, s, p - 1, s[p].index)

Numbered(c, s) == \A p \in 1..Len(c) : NumberedAt(c, s, p)

(* An element found where region p was given one, with its jump buffer, is  *)
(* the one that p has pushed.                                               *)
Owned ==
  \A p \in 1..Len(ctl) :
    ctl[p].kind # "report" /\ stack[slots[p].index].at = p =>
      /\ stack[slots[p].index].type = ctl[p].h
      /\ stack[slots[p].index].exc_type = ctl[p].klass

(* Every report above region p has found the element of p on the stack.     *)
Spared(c, s, p) ==
  \A r \in (p+1)..Len(c) : c[r].kind = "report" => s[p].index <= s[r].index

Intact ==
  \A p \in 1..Len(ctl) :
    Pushing(ctl[p]) /\ Spared(ctl, slots, p) => stack[slots[p].index].at = p

(* What is on the stack above the elements that a report has restored was   *)
(* pushed during that report.                                               *)
Overwritten ==
  \A r \in 1..Len(ctl) : ctl[r].kind = "report" =>
    \A i \in 1..STACK_SIZE :
      slots[r].index < i /\ (i <= stack_idx \/ i <= stack_backup) => stack[i].at > r

(* The elements up to stack_idx are those of the regions of this report.    *)
Filled ==
  \A i \in (Base + 1)..stack_idx :
    \E p \in (Report + 1)..Len(ctl) : Pushing(ctl[p]) /\ slots[p].index = i

AllPushed ==
  /\ Base <= stack_idx
  /\ \A p \in (Report + 1)..Len(ctl) : Pushing(ctl[p]) => slots[p].index <= stack_idx

(* A finally block of an uncaught exception has run, and to_s() of a report *)
(* has raised another one.                                                  *)
Strayed ==
  \E p, q \in 1..Len(ctl) : p < q /\ ctl[p].kind = "finally" /\ ctl[q].kind = "report"

Phase ==
  /\ pc \in {"run", "unwind"} => Filled
  /\ pc = "run" => AllPushed
  /\ pc = "unwind" => \/ Interrupts(ctl, Len(ctl))
                      \/ Exact(ctl, slots, Len(ctl), stack_backup)
  /\ pc = "astray" => Strayed

IInv ==
  /\ TypeOK
  /\ Framed(ctl)
  /\ Numbered(ctl, slots)
  /\ Owned
  /\ Intact
  /\ Overwritten
  /\ Phase

-----------------------------------------------------------------------------
(* Cutting a context back to its first p regions keeps them as they are.    *)
LEMMA UptoFacts ==
  ASSUME NEW S, NEW c \in Seq(S), NEW p \in 0..Len(c)
  PROVE  /\ Upto(c, p) \in Seq(S)
         /\ Len(Upto(c, p)) = p
         /\ \A q \in 1..p : Upto(c, p)[q] = c[q]
  BY DEF Upto

LEMMA AppendFacts ==
  ASSUME NEW S, NEW c \in Seq(S), NEW x \in S
  PROVE  /\ Append(c, x) \in Seq(S)
         /\ Len(Append(c, x)) = Len(c) + 1
         /\ Append(c, x)[Len(c) + 1] = x
         /\ \A q \in 1..Len(c) : Append(c, x)[q] = c[q]
  OBVIOUS

(* What longjmp() does to the context: region p is replaced, the rest gone. *)
LEMMA CutFacts ==
  ASSUME NEW S, NEW c \in Seq(S), NEW p \in 1..Len(c), NEW x \in S
  PROVE  LET d == Append(Upto(c, p - 1), x)
         IN  /\ d \in Seq(S)
             /\ Len(d) = p
             /\ d[p] = x
             /\ \A q \in 1..(p-1) : d[q] = c[q]
  <1>1. p - 1 \in 0..Len(c)
    OBVIOUS
  <1>2. /\ Upto(c, p - 1) \in Seq(S)
        /\ Len(Upto(c, p - 1)) = p - 1
        /\ \A q \in 1..(p-1) : Upto(c, p - 1)[q] = c[q]
    BY <1>1, UptoFacts
  <1>3. /\ Append(Upto(c, p - 1), x) \in Seq(S)
        /\ Len(Append(Upto(c, p - 1), x)) = p - 1 + 1
        /\ Append(Upto(c, p - 1), x)[p - 1 + 1] = x
        /\ \A q \in 1..(p-1) : Append(Upto(c, p - 1), x)[q] = Upto(c, p - 1)[q]
    BY <1>2, AppendFacts
  <1>4. p - 1 + 1 = p
    OBVIOUS
  <1> QED
    BY <1>2, <1>3, <1>4

(* The same of a context of regions, under a name the provers keep folded.  *)
Cut(c, p, x) == Append(Upto(c, p - 1), x)

LEMMA CutRegion ==
  ASSUME NEW c \in Seq(Region), NEW p \in 1..Len(c), NEW x \in Region
  PROVE  /\ Cut(c, p, x) \in Seq(Region)
         /\ Len(Cut(c, p, x)) = p
         /\ Cut(c, p, x)[p] = x
         /\ \A q \in 1..(p-1) : Cut(c, p, x)[q] = c[q]
  BY CutFacts DEF Cut

(* The regions that the generated code builds are regions.                  *)
LEMMA RegionTypes ==
  /\ \A at \in Nat, anon \in BOOLEAN : FuncRegion(at, anon) \in Region
  /\ \A at \in Nat : ReportRegion(at) \in Region
  /\ \A r \in Region, h \in Types, k \in Klasses \union {NoKlass} :
       TryRegion(r, h, k) \in Region
  /\ \A r \in Region, k \in Klasses \union {NoKlass} :
       HandlerRegion(r, k) \in Region
  BY DEF Region, FuncRegion, ReportRegion, TryRegion, HandlerRegion, Types, Kinds,
         ANNOT, CATCH_ALL, CATCH, FINALLY

(* Handler regions keep all but the kind and the pending exception.         *)
LEMMA HandlerFields ==
  ASSUME NEW r \in Region, NEW k \in Klasses \union {NoKlass}
  PROVE  /\ HandlerRegion(r, k).kind \in {"catch", "finally"}
         /\ HandlerRegion(r, k).kind = "finally" <=> r.h = FINALLY
         /\ HandlerRegion(r, k).h = r.h
         /\ HandlerRegion(r, k).frame = r.frame
         /\ HandlerRegion(r, k).anon = r.anon
         /\ HandlerRegion(r, k).pending = k
  BY DEF HandlerRegion, Region

-----------------------------------------------------------------------------
(* Whether region p is framed depends on the first p regions only.          *)
LEMMA FramedLocal ==
  ASSUME NEW c, NEW d, NEW p \in Nat \ {0}, FramedAt(c, p),
         \A q \in 1..p : d[q] = c[q]
  PROVE  FramedAt(d, p)
  <1>1. /\ c[p].frame \in 1..p
        /\ c[c[p].frame].kind \in Frames
        /\ c[c[p].frame].kind = "func" \/ c[p].frame = p
        /\ \A q \in (c[p].frame + 1)..p : c[q].kind \notin Frames
        /\ c[p].kind \in Frames <=> c[p].h = ANNOT
    BY DEF FramedAt
  <1>2. d[p] = c[p]
    OBVIOUS
  <1>3. d[c[p].frame] = c[c[p].frame]
    BY <1>1
  <1>4. \A q \in (c[p].frame + 1)..p : d[q] = c[q]
    BY <1>1
  <1> QED
    BY <1>1, <1>2, <1>3, <1>4 DEF FramedAt

LEMMA FramedPrefix ==
  ASSUME NEW c \in Seq(Region), Framed(c), NEW p \in 0..Len(c)
  PROVE  Framed(Upto(c, p))
  <1> DEFINE d == Upto(c, p)
  <1>1. Len(d) = p /\ \A q \in 1..p : d[q] = c[q]
    BY UptoFacts
  <1> HIDE DEF d
  <1>2. ASSUME NEW q \in 1..p
        PROVE  FramedAt(d, q)
    <2>1. q \in Nat \ {0} /\ q \in 1..Len(c) /\ \A s \in 1..q : d[s] = c[s]
      BY <1>1
    <2>2. FramedAt(c, q)
      BY <2>1 DEF Framed
    <2> QED
      BY <2>1, <2>2, FramedLocal
  <1> QED
    BY <1>1, <1>2 DEF Framed, d

(* A new region that is the last of its context, on top of a framed one.    *)
LEMMA FramedAppend ==
  ASSUME NEW c \in Seq(Region), Framed(c), NEW r \in Region,
         FramedAt(Append(c, r), Len(c) + 1)
  PROVE  Framed(Append(c, r))
  <1> DEFINE d == Append(c, r)
  <1>1. Len(d) = Len(c) + 1 /\ \A q \in 1..Len(c) : d[q] = c[q]
    BY AppendFacts
  <1> HIDE DEF d
  <1>2. ASSUME NEW p \in 1..Len(c)
        PROVE  FramedAt(d, p)
    <2>1. p \in Nat \ {0} /\ FramedAt(c, p) /\ \A q \in 1..p : d[q] = c[q]
      BY <1>1 DEF Framed
    <2> QED
      BY <2>1, FramedLocal
  <1> QED
    BY <1>1, <1>2 DEF Framed, d

LEMMA FramedNew ==
  ASSUME NEW c \in Seq(Region), Framed(c), NEW r \in Region,
         r.kind \in Frames, r.h = ANNOT, r.frame = Len(c) + 1
  PROVE  Framed(Append(c, r))
  <1> DEFINE d == Append(c, r)
  <1>1. /\ Len(d) = Len(c) + 1 /\ d[Len(c) + 1] = r
        /\ \A q \in 1..Len(c) : d[q] = c[q]
    BY AppendFacts
  <1> HIDE DEF d
  <1>2. FramedAt(d, Len(c) + 1)
    BY <1>1 DEF FramedAt
  <1> QED
    BY <1>2, FramedAppend DEF d

LEMMA FramedTry ==
  ASSUME NEW c \in Seq(Region), Framed(c), c # << >>, Top(c).kind # "report",
         NEW h \in Types \ {ANNOT}, NEW k \in Klasses \union {NoKlass}
  PROVE  Framed(Append(c, TryRegion(Top(c), h, k)))
  <1> DEFINE r == TryRegion(Top(c), h, k)
             d == Append(c, r)
             n == Len(c)
  <1>0. n \in Nat \ {0} /\ Top(c) \in Region /\ Top(c) = c[n] /\ FramedAt(c, n)
    BY DEF Top, Framed
  <1>1. r \in Region
    BY <1>0, RegionTypes
  <1>2. r.kind = "try" /\ r.h # ANNOT /\ r.frame = c[n].frame
    BY <1>0 DEF TryRegion
  <1>3. /\ Len(d) = n + 1 /\ d[n + 1] = r
        /\ \A q \in 1..n : d[q] = c[q]
    BY <1>1, AppendFacts
  <1> HIDE DEF r, d, n
  <1>4. FramedAt(d, n + 1)
    <2>1. /\ c[n].frame \in 1..n
          /\ c[c[n].frame].kind \in Frames
          /\ c[c[n].frame].kind = "func" \/ c[n].frame = n
          /\ \A q \in (c[n].frame + 1)..n : c[q].kind \notin Frames
      BY <1>0 DEF FramedAt
    <2>2. c[c[n].frame].kind = "func"
      BY <1>0, <2>1 DEF Frames
    <2>3. /\ d[c[n].frame] = c[c[n].frame]
          /\ \A q \in (c[n].frame + 1)..n : d[q] = c[q]
      BY <1>0, <1>3, <2>1
    <2>4. \A q \in (c[n].frame + 1)..(n + 1) : d[q].kind \notin Frames
      BY <1>0, <1>2, <1>3, <2>1, <2>3 DEF Frames
    <2>5. d[n + 1].frame \in 1..(n + 1) /\ ~(d[n+1].kind \in Frames <=> d[n+1].h # ANNOT)
      BY <1>0, <1>2, <1>3, <2>1 DEF Frames
    <2> QED
      BY <1>2, <1>3, <2>1, <2>2, <2>3, <2>4, <2>5 DEF FramedAt
  <1> QED
    BY <1>1, <1>4, FramedAppend DEF d, r, n

LEMMA FramedHandler ==
  ASSUME NEW c \in Seq(Region), Framed(c), NEW p \in 1..Len(c),
         c[p].kind \notin Frames, NEW k \in Klasses \union {NoKlass}
  PROVE  Framed(Cut(c, p, HandlerRegion(c[p], k)))
  <1> DEFINE r == HandlerRegion(c[p], k)
             b == Upto(c, p - 1)
             d == Append(b, r)
  <1>1. c[p] \in Region /\ r \in Region
    BY RegionTypes
  <1>2. r.kind \in {"catch", "finally"} /\ r.h = c[p].h /\ r.frame = c[p].frame
    BY <1>1, HandlerFields
  <1>3. p - 1 \in 0..Len(c)
    OBVIOUS
  <1>4. /\ b \in Seq(Region) /\ Len(b) = p - 1 /\ Framed(b)
        /\ \A q \in 1..(p-1) : b[q] = c[q]
    BY <1>3, UptoFacts, FramedPrefix
  <1> HIDE DEF r, b
  <1>5. d[p] = r /\ \A q \in 1..(p-1) : d[q] = c[q]
    <2>1. /\ Append(b, r)[p - 1 + 1] = r
          /\ \A q \in 1..(p-1) : Append(b, r)[q] = b[q]
      BY <1>1, <1>4, AppendFacts
    <2>2. p - 1 + 1 = p
      OBVIOUS
    <2> QED
      BY <1>4, <2>1, <2>2
  <1> HIDE DEF d
  <1>6. FramedAt(d, p)
    <2>1. /\ c[p].frame \in 1..p
          /\ c[c[p].frame].kind \in Frames
          /\ c[c[p].frame].kind = "func" \/ c[p].frame = p
          /\ \A q \in (c[p].frame + 1)..p : c[q].kind \notin Frames
          /\ c[p].kind \in Frames <=> c[p].h = ANNOT
      BY DEF Framed, FramedAt
    <2>2. c[p].frame \in 1..(p-1) /\ c[c[p].frame].kind = "func" /\ c[p].h # ANNOT
      BY <2>1
    <2>3. /\ d[c[p].frame] = c[c[p].frame]
          /\ \A q \in (c[p].frame + 1)..(p-1) : d[q].kind \notin Frames
      BY <1>5, <2>1, <2>2
    <2>4. d[p].kind \notin Frames /\ d[p].h # ANNOT /\ d[p].frame = c[p].frame
      BY <1>2, <1>5, <2>2 DEF Frames
    <2>5. \A q \in (c[p].frame + 1)..p : d[q].kind \notin Frames
      BY <2>2, <2>3, <2>4
    <2> QED
      BY <2>1, <2>2, <2>3, <2>4, <2>5 DEF FramedAt
  <1>7. FramedAt(d, Len(b) + 1)
    BY <1>4, <1>6
  <1>8. Framed(Append(b, r))
    BY <1>1, <1>4, <1>7, FramedAppend DEF d
  <1> QED
    BY <1>8 DEF b, r, Cut

-----------------------------------------------------------------------------
(* Whether region p is numbered depends on the first p regions only, and of *)
(* p itself only on whether it is a report.                                 *)
LEMMA NumberedLocal ==
  ASSUME NEW c, NEW d, NEW s, NEW t, NEW p \in Nat \ {0}, NumberedAt(c, s, p),
         \A q \in 1..(p-1) : d[q] = c[q],
         d[p].kind = "report" <=> c[p].kind = "report",
         \A q \in 1..p : t[q] = s[q]
  PROVE  NumberedAt(d, t, p)
  <1>1. /\ s[p].report \in 0..p
        /\ s[p].report = p <=> c[p].kind = "report"
        /\ s[p].report # 0 => c[s[p].report].kind = "report"
        /\ \A q \in (s[p].report + 1)..p : c[q].kind # "report"
    BY DEF NumberedAt, InReport
  <1>2. t[p] = s[p] /\ BaseAt(t, p) = BaseAt(s, p)
    BY <1>1 DEF BaseAt
  <1>3. \A q \in 1..p : d[q].kind = "report" <=> c[q].kind = "report"
    OBVIOUS
  <1>4. InReport(d, t, p)
    BY <1>1, <1>2, <1>3 DEF InReport
  <1>5. ASSUME c[p].kind # "report"
        PROVE  Above(d, t, p)
    <2>1. Above(c, s, p)
      BY <1>5 DEF NumberedAt
    <2>2. ASSUME NEW q \in (t[p].report + 1)..(p-1)
          PROVE  q \in (s[p].report + 1)..(p-1) /\ d[q] = c[q] /\ t[q] = s[q]
      BY <1>1, <1>2
    <2>3. ASSUME NEW j \in (BaseAt(t, p) + 1)..(t[p].index - 1)
          PROVE  \E q \in (t[p].report + 1)..(p-1) : Pushing(d[q]) /\ t[q].index = j
      <3>1. PICK q \in (s[p].report + 1)..(p-1) : Pushing(c[q]) /\ s[q].index = j
        BY <1>2, <2>1 DEF Above
      <3> QED
        BY <1>2, <2>2, <3>1
    <2> QED
      BY <1>2, <2>1, <2>2, <2>3 DEF Above
  <1>6. ASSUME Interrupts(c, p - 1)
        PROVE  Interrupts(d, p - 1)
    BY <1>6 DEF Interrupts
  <1>7. ASSUME Exact(c, s, p - 1, s[p].index)
        PROVE  Exact(d, t, p - 1, t[p].index)
    <2> SUFFICES ASSUME NEW j \in 1..s[p].index
                 PROVE  \E q \in 1..(p-1) :
                          /\ Pushing(d[q]) /\ t[q].index = j
                          /\ \A r \in (q+1)..(p-1) : d[r].kind = "report" => j <= t[r].index
      BY <1>2 DEF Exact
    <2>1. PICK q \in 1..(p-1) :
             /\ Pushing(c[q]) /\ s[q].index = j
             /\ \A r \in (q+1)..(p-1) : c[r].kind = "report" => j <= s[r].index
      BY <1>7 DEF Exact
    <2>2. d[q] = c[q] /\ t[q] = s[q]
          /\ \A r \in (q+1)..(p-1) : d[r] = c[r] /\ t[r] = s[r]
      OBVIOUS
    <2> QED
      BY <2>1, <2>2
  <1> QED
    BY <1>4, <1>5, <1>6, <1>7 DEF NumberedAt

(* A context is numbered when its first regions are, and so is the last.    *)
LEMMA NumberedAppend ==
  ASSUME NEW c, NEW d, NEW s, NEW t, Len(c) \in Nat, Len(d) = Len(c) + 1,
         Numbered(c, s), NumberedAt(d, t, Len(c) + 1),
         \A q \in 1..Len(c) : d[q] = c[q] /\ t[q] = s[q]
  PROVE  Numbered(d, t)
  <1> SUFFICES ASSUME NEW p \in 1..Len(c) PROVE NumberedAt(d, t, p)
    BY DEF Numbered
  <1>1. /\ p \in Nat \ {0} /\ NumberedAt(c, s, p)
        /\ d[p] = c[p] /\ \A q \in 1..(p-1) : d[q] = c[q]
        /\ \A q \in 1..p : t[q] = s[q]
    BY DEF Numbered
  <1> QED
    BY <1>1, NumberedLocal

(* The innermost report of a context: none of its regions is another one.   *)
LEMMA ReportFacts ==
  ASSUME IInv
  PROVE  /\ Report \in 0..Len(ctl) /\ Base \in 0..STACK_SIZE
         /\ \A p \in (Report + 1)..Len(ctl) : ctl[p].kind # "report"
         /\ Report # 0 => /\ ctl[Report].kind = "report"
                          /\ Base = slots[Report].index
         /\ Report = 0 => Base = 0
         /\ \A p \in 1..Len(ctl) : Report <= p =>
              slots[p].report = Report /\ BaseAt(slots, p) = Base
  <1>1. /\ ctl \in Seq(Region) /\ Len(ctl) \in Nat /\ STACK_SIZE \in Nat
        /\ slots \in Seq(Slot) /\ Len(slots) = Len(ctl)
    BY SizeAssumption DEF IInv, TypeOK
  <1>2. ASSUME ctl = << >>
        PROVE  Report = 0 /\ Base = 0 /\ Len(ctl) = 0
    BY <1>2 DEF Report, Base
  <1>3. ASSUME NEW p \in 1..Len(ctl)
        PROVE  /\ slots[p] \in Slot /\ InReport(ctl, slots, p)
    <2>1. NumberedAt(ctl, slots, p)
      BY DEF IInv, Numbered
    <2> QED
      BY <1>1, <2>1 DEF NumberedAt
  <1>4. ASSUME ctl # << >>
        PROVE  /\ Len(ctl) \in 1..Len(ctl)
               /\ Report = slots[Len(ctl)].report
               /\ Report \in 0..Len(ctl)
               /\ Report # 0 => ctl[Report].kind = "report"
               /\ \A p \in (Report + 1)..Len(ctl) : ctl[p].kind # "report"
    <2>1. Len(ctl) \in 1..Len(ctl)
      BY <1>1, <1>4
    <2> QED
      BY <1>3, <1>4, <2>1 DEF Report, InReport
  <1>5. Report \in 0..Len(ctl)
    BY <1>1, <1>2, <1>4
  <1>6. Base \in 0..STACK_SIZE /\ (Report # 0 => Base = slots[Report].index)
    <2>1. CASE Report = 0
      BY <1>1, <2>1 DEF Base
    <2>2. CASE Report # 0
      <3>1. Report \in 1..Len(ctl) /\ Base = slots[Report].index
        BY <1>5, <2>2 DEF Base
      <3> QED
        BY <1>3, <3>1 DEF Slot
    <2> QED
      BY <2>1, <2>2
  <1>7. ASSUME NEW p \in 1..Len(ctl), Report <= p
        PROVE  slots[p].report = Report
    <2> DEFINE r == slots[p].report
    <2>0. ctl # << >>
      BY <1>1
    <2>1. /\ r \in 0..p /\ (r # 0 => ctl[r].kind = "report")
          /\ \A q \in (r + 1)..p : ctl[q].kind # "report"
      BY <1>3 DEF InReport
    <2> HIDE DEF r
    <2>2. ~(r > Report)
      BY <1>1, <1>4, <1>5, <2>0, <2>1
    <2>3. ~(r < Report)
      BY <1>1, <1>4, <1>5, <1>7, <2>0, <2>1
    <2> QED
      BY <1>5, <2>1, <2>2, <2>3 DEF r
  <1> QED
    BY <1>1, <1>2, <1>4, <1>5, <1>6, <1>7 DEF BaseAt, Base

(* In one report the elements of the regions increase.                      *)
LEMMA Increasing ==
  ASSUME IInv, NEW p \in (Report + 1)..Len(ctl), NEW q \in (Report + 1)..(p - 1),
         Pushing(ctl[q])
  PROVE  slots[q].index < slots[p].index
  <1>1. /\ Report \in 0..Len(ctl) /\ p \in 1..Len(ctl)
        /\ slots[p].report = Report /\ ctl[p].kind # "report"
    <2>1. Len(ctl) \in Nat
      BY DEF IInv, TypeOK
    <2> QED
      BY <2>1, ReportFacts
  <1>2. Above(ctl, slots, p)
    BY <1>1 DEF IInv, Numbered, NumberedAt
  <1> QED
    BY <1>1, <1>2 DEF Above

(* The elements of the regions of the innermost report are above its base,  *)
(* where they have pushed them.                                             *)
LEMMA OwnElement ==
  ASSUME IInv, NEW p \in (Report + 1)..Len(ctl), Pushing(ctl[p])
  PROVE  /\ slots[p].index \in (Base + 1)..STACK_SIZE
         /\ stack[slots[p].index].at = p
         /\ Registers(stack[slots[p].index], ctl[p])
  <1>1. /\ Report \in 0..Len(ctl) /\ Base \in 0..STACK_SIZE
        /\ Len(ctl) \in Nat /\ STACK_SIZE \in Nat
    BY ReportFacts, SizeAssumption DEF IInv, TypeOK
  <1>2. /\ p \in 1..Len(ctl) /\ BaseAt(slots, p) = Base /\ ctl[p].kind # "report"
        /\ \A r \in (p+1)..Len(ctl) : ctl[r].kind # "report"
    BY <1>1, ReportFacts
  <1>3. slots[p] \in Slot
    BY <1>2 DEF IInv, TypeOK
  <1>4. Base < slots[p].index
    BY <1>2 DEF IInv, Numbered, NumberedAt, Above
  <1>5. stack[slots[p].index].at = p
    BY <1>2 DEF IInv, Intact, Spared
  <1>6. Registers(stack[slots[p].index], ctl[p])
    BY <1>2, <1>5 DEF Registers, Pushing, IInv, Owned
  <1> QED
    BY <1>1, <1>3, <1>4, <1>5, <1>6 DEF Slot

(* The invariant gives the mirror.                                          *)
LEMMA Mirrored == IInv => HandlersMirror
  <1> SUFFICES ASSUME IInv PROVE HandlersMirror
    OBVIOUS
  <1>0. /\ Report \in 0..Len(ctl) /\ Base \in 0..STACK_SIZE
        /\ Len(ctl) \in Nat /\ STACK_SIZE \in Nat /\ stack_idx \in 0..STACK_SIZE
    BY ReportFacts, SizeAssumption DEF IInv, TypeOK
  <1>1. ASSUME pc \in {"run", "unwind"}, NEW i \in (Base + 1)..stack_idx
        PROVE  /\ stack[i].at \in (Report + 1)..Len(ctl)
               /\ Registers(stack[i], ctl[stack[i].at])
               /\ slots[stack[i].at].index = i
               /\ Pushing(ctl[stack[i].at])
    <2>1. PICK p \in (Report + 1)..Len(ctl) : Pushing(ctl[p]) /\ slots[p].index = i
      BY <1>1 DEF IInv, Phase, Filled
    <2>2. stack[i].at = p /\ Registers(stack[i], ctl[p])
      BY <2>1, OwnElement
    <2> QED
      BY <2>1, <2>2
  <1>2. ASSUME pc \in {"run", "unwind"} PROVE ElementsLive
    BY <1>1, <1>2 DEF ElementsLive
  <1>3. ASSUME pc \in {"run", "unwind"} PROVE ElementsOrdered
    <2> SUFFICES ASSUME NEW i \in (Base + 1)..stack_idx,
                        NEW j \in (Base + 1)..stack_idx, i < j,
                        ~(stack[i].at < stack[j].at)
                 PROVE  FALSE
      BY DEF ElementsOrdered
    <2> DEFINE p == stack[i].at
               q == stack[j].at
    <2>1. /\ p \in (Report + 1)..Len(ctl) /\ slots[p].index = i
          /\ q \in (Report + 1)..Len(ctl) /\ slots[q].index = j
          /\ Pushing(ctl[q])
      BY <1>1, <1>3
    <2>2. ~(p < q)
      OBVIOUS
    <2> HIDE DEF p, q
    <2>3. p # q
      BY <1>0, <2>1
    <2>4. q \in (Report + 1)..(p - 1)
      BY <1>0, <2>1, <2>2, <2>3
    <2>5. slots[q].index < slots[p].index
      BY <2>1, <2>4, Increasing
    <2> QED
      BY <1>0, <2>1, <2>5
  <1>4. ASSUME pc \in {"run", "unwind"} PROVE RegionsCovered
    <2> SUFFICES ASSUME NEW p \in (Report + 1)..Len(ctl), Pushing(ctl[p])
                 PROVE  \/ \E i \in (Base + 1)..stack_idx : stack[i].at = p
                        \/ pc = "unwind" /\ \A i \in (Base + 1)..stack_idx : stack[i].at < p
      BY DEF RegionsCovered, Pushing
    <2>1. slots[p].index \in (Base + 1)..STACK_SIZE /\ stack[slots[p].index].at = p
      BY OwnElement
    <2>2. CASE slots[p].index <= stack_idx
      <3>1. slots[p].index \in (Base + 1)..stack_idx
        BY <1>0, <2>1, <2>2
      <3> QED
        BY <2>1, <3>1
    <2>3. CASE slots[p].index > stack_idx
      <3>1. pc = "unwind"
        BY <1>0, <1>4, <2>1, <2>3 DEF IInv, Phase, AllPushed
      <3>2. ASSUME NEW i \in (Base + 1)..stack_idx PROVE stack[i].at < p
        <4> DEFINE q == stack[i].at
        <4>1. q \in (Report + 1)..Len(ctl) /\ slots[q].index = i /\ Pushing(ctl[q])
          BY <1>1, <1>4
        <4> HIDE DEF q
        <4>2. q # p
          BY <1>0, <2>3, <4>1
        <4>3. ~(p < q)
          <5> SUFFICES ASSUME p < q PROVE FALSE
            OBVIOUS
          <5>1. p \in (Report + 1)..(q - 1)
            BY <1>0, <4>1
          <5>2. slots[p].index < slots[q].index
            BY <4>1, <5>1, Increasing
          <5> QED
            BY <1>0, <2>1, <2>3, <4>1, <5>2
        <4> QED
          BY <1>0, <4>1, <4>2, <4>3 DEF q
      <3> QED
        BY <3>1, <3>2
    <2> QED
      BY <1>0, <2>1, <2>2, <2>3
  <1>5. pc = "astray" => Strayed
    BY DEF IInv, Phase
  <1> QED
    BY <1>2, <1>3, <1>4, <1>5 DEF HandlersMirror, Strayed

-----------------------------------------------------------------------------
(* The types, and what the numbers are.                                     *)
LEMMA TypeFacts ==
  ASSUME IInv
  PROVE  /\ ctl \in Seq(Region) /\ Len(ctl) \in Nat /\ Len(ctl) <= MaxDepth
         /\ slots \in Seq(Slot) /\ Len(slots) = Len(ctl)
         /\ stack \in [1..STACK_SIZE -> Element] /\ STACK_SIZE \in Nat
         /\ stack_idx \in 0..STACK_SIZE /\ stack_backup \in 0..STACK_SIZE
         /\ stack_unwinding \in BOOLEAN
         /\ exc_obj \in Klasses \union {NoKlass}
         /\ \A p \in 1..Len(ctl) :
              /\ ctl[p] \in Region /\ slots[p].index \in 0..STACK_SIZE
              /\ ctl[p].kind # "report" => slots[p].index \in 1..STACK_SIZE
  <1>1. /\ ctl \in Seq(Region) /\ Len(ctl) \in Nat /\ Len(ctl) <= MaxDepth
        /\ slots \in Seq(Slot) /\ Len(slots) = Len(ctl)
        /\ stack \in [1..STACK_SIZE -> Element] /\ STACK_SIZE \in Nat
        /\ stack_idx \in 0..STACK_SIZE /\ stack_backup \in 0..STACK_SIZE
        /\ stack_unwinding \in BOOLEAN
        /\ exc_obj \in Klasses \union {NoKlass}
    BY SizeAssumption DEF IInv, TypeOK
  <1>2. ASSUME NEW p \in 1..Len(ctl)
        PROVE  /\ ctl[p] \in Region /\ slots[p].index \in 0..STACK_SIZE
               /\ ctl[p].kind # "report" => slots[p].index \in 1..STACK_SIZE
    <2>1. slots[p] \in Slot
      BY <1>1
    <2>2. InReport(ctl, slots, p) /\ (ctl[p].kind # "report" => BaseAt(slots, p) < slots[p].index)
      BY DEF IInv, Numbered, NumberedAt, Above
    <2>3. BaseAt(slots, p) \in Nat
      <3>1. slots[p].report # 0 => slots[p].report \in 1..Len(ctl)
        BY <1>1, <2>2 DEF InReport
      <3>2. slots[p].report # 0 => slots[slots[p].report] \in Slot
        BY <1>1, <3>1
      <3> QED
        BY <1>1, <3>2 DEF BaseAt, Slot
    <2> QED
      BY <1>1, <2>1, <2>2, <2>3 DEF Slot
  <1> QED
    BY <1>1, <1>2

(* Where a report has begun, its elements lie above those of the regions    *)
(* outside that it has spared.                                              *)
LEMMA SparedBelow ==
  ASSUME IInv, NEW p \in 1..Len(ctl), p <= Report, Pushing(ctl[p]),
         Spared(ctl, slots, p)
  PROVE  slots[p].index <= Base
  <1>1. Report \in (p+1)..Len(ctl) /\ ctl[Report].kind = "report"
        /\ Base = slots[Report].index
    <2>1. Report \in 1..Len(ctl) /\ ctl[Report].kind = "report"
          /\ Base = slots[Report].index
      BY ReportFacts
    <2>2. p # Report
      BY <2>1 DEF Pushing
    <2> QED
      BY <2>1, <2>2
  <1> QED
    BY <1>1 DEF Spared

(* Entering a function or a try block pushes its element.                   *)
LEMMA Enter ==
  ASSUME IInv, pc = "run", pc' = "run", Room,
         NEW r \in Region, Pushing(r), Enters(r), Framed(ctl'),
         Push(r.h, r.klass, Len(ctl) + 1),
         UNCHANGED <<stack_unwinding, exc_obj, stack_backup>>
  PROVE  IInv'
  <1> DEFINE n == Len(ctl) + 1
             e == [type |-> r.h, exc_type |-> r.klass, at |-> n]
             s == [index |-> stack_idx + 1, report |-> Report]
  <1>1. /\ ctl \in Seq(Region) /\ Len(ctl) \in Nat /\ slots \in Seq(Slot)
        /\ Len(slots) = Len(ctl) /\ STACK_SIZE \in Nat /\ stack_idx \in 0..STACK_SIZE
        /\ stack \in [1..STACK_SIZE -> Element] /\ stack_backup \in 0..STACK_SIZE
    BY TypeFacts
  <1>2. \A p \in 1..Len(ctl) :
          /\ slots[p].index \in 0..STACK_SIZE
          /\ ctl[p].kind # "report" => slots[p].index \in 1..STACK_SIZE
    BY TypeFacts
  <1>3. /\ Report \in 0..Len(ctl) /\ Base \in 0..STACK_SIZE
        /\ \A p \in (Report + 1)..Len(ctl) : ctl[p].kind # "report"
        /\ Report # 0 => ctl[Report].kind = "report" /\ Base = slots[Report].index
        /\ Report = 0 => Base = 0
    BY ReportFacts
  <1>4. Filled /\ AllPushed
    BY DEF IInv, Phase
  <1>5. stack_idx < STACK_SIZE /\ Len(ctl) < MaxDepth /\ MaxDepth \in Nat
    BY SizeAssumption DEF Room
  <1>6. s \in Slot /\ s.index = stack_idx + 1 /\ s.report = Report
    BY <1>1, <1>3, <1>5 DEF Slot
  <1>7. e \in Element /\ e.type = r.h /\ e.exc_type = r.klass /\ e.at = n
    BY <1>1 DEF Element, Region
  <1>8. /\ ctl' \in Seq(Region) /\ Len(ctl') = n /\ ctl'[n] = r
        /\ \A q \in 1..Len(ctl) : ctl'[q] = ctl[q]
    BY <1>1, AppendFacts DEF Enters
  <1>9. /\ slots' \in Seq(Slot) /\ Len(slots') = n /\ slots'[n] = s
        /\ \A q \in 1..Len(ctl) : slots'[q] = slots[q]
    <2>1. slots' = Append(slots, s)
      BY DEF Enters
    <2> HIDE DEF s
    <2> QED
      BY <1>1, <1>6, <2>1, AppendFacts
  <1>10. /\ stack' \in [1..STACK_SIZE -> Element]
         /\ stack_idx' = stack_idx + 1
         /\ stack'[stack_idx + 1] = e
         /\ \A i \in 1..STACK_SIZE : i # stack_idx + 1 => stack'[i] = stack[i]
    BY <1>1, <1>5, <1>7 DEF Push
  <1> HIDE DEF e, s
  <1>11. n \in 1..Len(ctl') /\ n \in Nat \ {0} /\ Len(ctl) = n - 1
    BY <1>1, <1>8
  <1> HIDE DEF n
  <1>12. Report' = Report /\ Base' = Base
    <2>1. Report' = slots'[n].report
      BY <1>8, <1>11 DEF Report
    <2>2. Report' = Report
      BY <1>6, <1>9, <2>1
    <2>3. Report # 0 => slots'[Report] = slots[Report]
      BY <1>3, <1>9
    <2> QED
      BY <2>2, <2>3 DEF Base
  <1>13. TypeOK'
    <2>1. pc' \in {"run", "unwind", "exit", "astray"}
      OBVIOUS
    <2>2. /\ ctl' \in Seq(Region) /\ Len(ctl') <= MaxDepth
          /\ slots' \in Seq(Slot) /\ Len(slots') = Len(ctl')
          /\ stack' \in [1..STACK_SIZE -> Element] /\ stack_idx' \in 0..STACK_SIZE
      BY <1>1, <1>5, <1>8, <1>9, <1>10, <1>11
    <2>3. /\ stack_unwinding' \in BOOLEAN
          /\ exc_obj' \in Klasses \union {NoKlass}
          /\ stack_backup' \in 0..STACK_SIZE
      BY TypeFacts
    <2> QED
      BY <2>1, <2>2, <2>3, Zenon DEF TypeOK, Slot
  <1>14. Numbered(ctl', slots')
    <2>1. InReport(ctl', slots', n)
      <3>1. r.kind # "report"
        BY DEF Pushing
      <3>2. \A q \in (Report + 1)..n : ctl'[q].kind # "report"
        BY <1>3, <1>8, <1>11, <3>1
      <3>3. Report # 0 => ctl'[Report].kind = "report"
        BY <1>3, <1>8
      <3> QED
        BY <1>3, <1>6, <1>8, <1>9, <1>11, <3>1, <3>2, <3>3 DEF InReport
    <2>2. Above(ctl', slots', n)
      <3>1. BaseAt(slots', n) = Base /\ slots'[n].report = Report
            /\ slots'[n].index = stack_idx + 1
        BY <1>6, <1>9, <1>12 DEF BaseAt, Base
      <3>2. ASSUME NEW q \in (Report + 1)..(n - 1)
            PROVE  q \in (Report + 1)..Len(ctl) /\ ctl'[q] = ctl[q] /\ slots'[q] = slots[q]
        BY <1>3, <1>8, <1>9, <1>11
      <3>3. ASSUME NEW j \in (Base + 1)..(stack_idx + 1 - 1)
            PROVE  \E q \in (Report + 1)..(n - 1) : Pushing(ctl'[q]) /\ slots'[q].index = j
        <4>1. j \in (Base + 1)..stack_idx
          BY <1>1, <1>3
        <4>2. PICK q \in (Report + 1)..Len(ctl) : Pushing(ctl[q]) /\ slots[q].index = j
          BY <1>4, <4>1 DEF Filled
        <4> QED
          BY <1>11, <3>2, <4>2
      <3>4. ASSUME NEW q \in (Report + 1)..(n - 1), Pushing(ctl'[q])
            PROVE  slots'[q].index < stack_idx + 1
        <4>1. slots[q].index <= stack_idx /\ slots[q].index \in 0..STACK_SIZE
          BY <1>2, <1>3, <1>4, <3>2, <3>4 DEF AllPushed
        <4> QED
          BY <1>1, <3>2, <4>1
      <3>5. Base < stack_idx + 1
        BY <1>1, <1>3, <1>4 DEF AllPushed
      <3>6. BaseAt(slots', n) < slots'[n].index
        BY <3>1, <3>5
      <3>7. \A q \in (slots'[n].report + 1)..(n - 1) :
              Pushing(ctl'[q]) => slots'[q].index < slots'[n].index
        BY <3>1, <3>4
      <3>8. \A j \in (BaseAt(slots', n) + 1)..(slots'[n].index - 1) :
              \E q \in (slots'[n].report + 1)..(n - 1) :
                Pushing(ctl'[q]) /\ slots'[q].index = j
        <4> SUFFICES ASSUME NEW j \in (BaseAt(slots', n) + 1)..(slots'[n].index - 1)
                     PROVE  \E q \in (slots'[n].report + 1)..(n - 1) :
                              Pushing(ctl'[q]) /\ slots'[q].index = j
          OBVIOUS
        <4>1. j \in (Base + 1)..(stack_idx + 1 - 1)
          BY <1>1, <1>3, <3>1
        <4>2. PICK q \in (Report + 1)..(n - 1) : Pushing(ctl'[q]) /\ slots'[q].index = j
          BY <3>3, <4>1
        <4> QED
          BY <1>3, <3>1, <4>2
      <3> QED
        BY <3>6, <3>7, <3>8, Zenon DEF Above
    <2>3. NumberedAt(ctl', slots', n)
      BY <1>8, <2>1, <2>2 DEF NumberedAt, Pushing
    <2>4. /\ Len(ctl) \in Nat /\ Len(ctl') = Len(ctl) + 1
          /\ NumberedAt(ctl', slots', Len(ctl) + 1)
          /\ \A q \in 1..Len(ctl) : ctl'[q] = ctl[q] /\ slots'[q] = slots[q]
      BY <1>1, <1>8, <1>9, <1>11, <2>3
    <2>5. Numbered(ctl, slots)
      BY DEF IInv
    <2> QED
      BY <2>4, <2>5, NumberedAppend
  <1>15. Owned'
    <2> SUFFICES ASSUME NEW p \in 1..Len(ctl'), ctl'[p].kind # "report",
                        stack'[slots'[p].index].at = p
                 PROVE  /\ stack'[slots'[p].index].type = ctl'[p].h
                        /\ stack'[slots'[p].index].exc_type = ctl'[p].klass
      BY DEF Owned
    <2>1. CASE p = n
      BY <1>6, <1>7, <1>8, <1>9, <1>10, <2>1
    <2>2. CASE p \in 1..Len(ctl)
      <3>1. ctl'[p] = ctl[p] /\ slots'[p] = slots[p] /\ slots[p].index \in 1..STACK_SIZE
        BY <1>2, <1>8, <1>9, <2>2
      <3>2. slots[p].index # stack_idx + 1
        BY <1>7, <1>10, <1>11, <2>2, <3>1
      <3>3. stack'[slots[p].index] = stack[slots[p].index]
        BY <1>10, <3>1, <3>2
      <3> QED
        BY <2>2, <3>1, <3>3 DEF IInv, Owned
    <2> QED
      BY <1>8, <1>11, <2>1, <2>2
  <1>16. Intact'
    <2> SUFFICES ASSUME NEW p \in 1..Len(ctl'), Pushing(ctl'[p]),
                        Spared(ctl', slots', p)
                 PROVE  stack'[slots'[p].index].at = p
      BY DEF Intact
    <2>1. CASE p = n
      BY <1>6, <1>7, <1>9, <1>10, <2>1
    <2>2. CASE p \in 1..Len(ctl)
      <3>1. /\ ctl'[p] = ctl[p] /\ slots'[p] = slots[p] /\ Pushing(ctl[p])
            /\ slots[p].index \in 1..STACK_SIZE
        BY <1>2, <1>8, <1>9, <2>2 DEF Pushing
      <3>2. Spared(ctl, slots, p)
        BY <1>8, <1>9, <1>11, <2>2, <3>1 DEF Spared
      <3>3. stack[slots[p].index].at = p
        BY <2>2, <3>1, <3>2 DEF IInv, Intact
      <3>4. slots[p].index <= stack_idx
        <4>1. CASE p <= Report
          <5>1. slots[p].index <= Base /\ Base <= stack_idx
            BY <1>4, <2>2, <3>1, <3>2, <4>1, SparedBelow DEF AllPushed
          <5> QED
            BY <1>1, <1>3, <3>1, <5>1
        <4>2. CASE p > Report
          <5>1. p \in (Report + 1)..Len(ctl)
            BY <1>3, <2>2, <4>2
          <5> QED
            BY <1>4, <3>1, <5>1 DEF AllPushed
        <4> QED
          BY <1>3, <2>2, <4>1, <4>2
      <3>5. stack'[slots[p].index] = stack[slots[p].index]
        BY <1>1, <1>10, <3>1, <3>4
      <3> QED
        BY <3>1, <3>3, <3>5
    <2> QED
      BY <1>8, <1>11, <2>1, <2>2
  <1>17. Overwritten'
    <2> SUFFICES ASSUME NEW x \in 1..Len(ctl'), ctl'[x].kind = "report",
                        NEW i \in 1..STACK_SIZE, slots'[x].index < i,
                        i <= stack_idx' \/ i <= stack_backup'
                 PROVE  stack'[i].at > x
      BY DEF Overwritten
    <2>1. x \in 1..Len(ctl) /\ ctl'[x] = ctl[x] /\ slots'[x] = slots[x]
      BY <1>8, <1>9, <1>11 DEF Pushing
    <2>2. CASE i = stack_idx + 1
      BY <1>7, <1>10, <1>11, <2>1, <2>2
    <2>3. CASE i # stack_idx + 1
      <3>1. stack'[i] = stack[i] /\ (i <= stack_idx \/ i <= stack_backup)
        BY <1>1, <1>10, <2>3
      <3> QED
        BY <2>1, <3>1 DEF IInv, Overwritten
    <2> QED
      BY <2>2, <2>3
  <1>18. Filled'
    <2> SUFFICES ASSUME NEW i \in (Base + 1)..(stack_idx + 1)
                 PROVE  \E p \in (Report + 1)..n : Pushing(ctl'[p]) /\ slots'[p].index = i
      BY <1>8, <1>10, <1>12 DEF Filled
    <2>1. CASE i = stack_idx + 1
      BY <1>3, <1>6, <1>8, <1>9, <1>11, <2>1
    <2>2. CASE i \in (Base + 1)..stack_idx
      <3>1. PICK p \in (Report + 1)..Len(ctl) : Pushing(ctl[p]) /\ slots[p].index = i
        BY <1>4, <2>2 DEF Filled
      <3> QED
        BY <1>3, <1>8, <1>9, <1>11, <3>1
    <2> QED
      BY <1>1, <1>3, <2>1, <2>2
  <1>19. AllPushed'
    <2>1. Base <= stack_idx + 1
      BY <1>1, <1>3, <1>4 DEF AllPushed
    <2>2. ASSUME NEW p \in (Report + 1)..n, Pushing(ctl'[p])
          PROVE  slots'[p].index <= stack_idx + 1
      <3>1. CASE p = n
        BY <1>1, <1>6, <1>9, <3>1
      <3>2. CASE p \in (Report + 1)..Len(ctl)
        <4>1. /\ ctl'[p] = ctl[p] /\ slots'[p] = slots[p]
              /\ slots[p].index \in 0..STACK_SIZE
          BY <1>2, <1>3, <1>8, <1>9, <3>2
        <4>2. slots[p].index <= stack_idx
          BY <1>4, <2>2, <3>2, <4>1 DEF AllPushed
        <4> QED
          BY <1>1, <4>1, <4>2
      <3> QED
        BY <1>3, <1>11, <3>1, <3>2
    <2> QED
      BY <1>8, <1>10, <1>12, <2>1, <2>2 DEF AllPushed
  <1>20. Phase'
    BY <1>18, <1>19 DEF Phase
  <1> QED
    BY <1>13, <1>14, <1>15, <1>16, <1>17, <1>20 DEF IInv

(* Control falls back to the first n regions, of which the last may have    *)
(* become a handler.                                                        *)
Back(n) ==
  /\ pc' = "run" /\ UNCHANGED <<stack, exc_obj, stack_backup>>
  /\ stack_unwinding' \in BOOLEAN
  /\ ctl' \in Seq(Region) /\ Len(ctl') = n /\ Framed(ctl')
  /\ slots' = Upto(slots, n)
  /\ stack_idx' \in 0..stack_idx
  /\ \A q \in 1..(n-1) : ctl'[q] = ctl[q]
  /\ n # 0 => \/ ctl'[n] = ctl[n]
              \/ /\ ctl[n].kind # "report"
                 /\ ctl'[n].kind \in {"catch", "finally"}
                 /\ ctl'[n].h = ctl[n].h /\ ctl'[n].klass = ctl[n].klass

(* The stack keeps exactly the elements of the regions among those that are *)
(* in report rep, and the reports that control leaves began above them.     *)
Keeps(n, rep, base) ==
  /\ base <= stack_idx'
  /\ \A i \in (base + 1)..stack_idx' :
       \E p \in (rep + 1)..n : Pushing(ctl'[p]) /\ slots[p].index = i
  /\ \A p \in (rep + 1)..n : Pushing(ctl'[p]) => slots[p].index <= stack_idx'
  /\ \A r \in (n+1)..Len(ctl) : ctl[r].kind = "report" => stack_idx' < slots[r].index

LEMMA BackFacts ==
  ASSUME IInv, NEW n \in 0..Len(ctl), Back(n)
  PROVE  /\ slots' \in Seq(Slot) /\ Len(slots') = n
         /\ \A q \in 1..n : slots'[q] = slots[q]
         /\ \A q \in 1..n : /\ ctl'[q].kind = "report" <=> ctl[q].kind = "report"
                            /\ ctl'[q].h = ctl[q].h /\ ctl'[q].klass = ctl[q].klass
                            /\ Pushing(ctl'[q]) => ctl'[q] = ctl[q]
  <1>1. slots \in Seq(Slot) /\ n \in 0..Len(slots) /\ Len(ctl) \in Nat
    BY TypeFacts
  <1>2. /\ Upto(slots, n) \in Seq(Slot) /\ Len(Upto(slots, n)) = n
        /\ \A q \in 1..n : Upto(slots, n)[q] = slots[q]
    BY <1>1, UptoFacts
  <1>3. slots' = Upto(slots, n)
    BY DEF Back
  <1>4. ASSUME NEW q \in 1..n
        PROVE  /\ ctl'[q].kind = "report" <=> ctl[q].kind = "report"
               /\ ctl'[q].h = ctl[q].h /\ ctl'[q].klass = ctl[q].klass
               /\ Pushing(ctl'[q]) => ctl'[q] = ctl[q]
    <2>1. CASE ctl'[q] = ctl[q]
      BY <2>1
    <2>2. CASE ctl'[q] # ctl[q]
      <3>1. q = n /\ n # 0
        BY <1>1, <2>2 DEF Back
      <3>2. /\ ctl[q].kind # "report"
            /\ ctl'[q].kind \in {"catch", "finally"}
            /\ ctl'[q].h = ctl[q].h /\ ctl'[q].klass = ctl[q].klass
        BY <2>2, <3>1 DEF Back
      <3> QED
        BY <3>2 DEF Pushing
    <2> QED
      BY <2>1, <2>2
  <1> QED
    BY <1>2, <1>3, <1>4

(* If the stack keeps what control falls back to, the invariant is kept.    *)
LEMMA Leave ==
  ASSUME IInv, NEW n \in 0..Len(ctl), NEW rep, NEW base,
         rep = IF n = 0 THEN 0 ELSE slots[n].report,
         base = IF rep = 0 THEN 0 ELSE slots[rep].index,
         Back(n), Keeps(n, rep, base)
  PROVE  IInv'
  <1>0. /\ pc' = "run" /\ UNCHANGED <<stack, exc_obj, stack_backup>>
        /\ stack_unwinding' \in BOOLEAN
        /\ ctl' \in Seq(Region) /\ Len(ctl') = n /\ Framed(ctl')
        /\ stack_idx' \in 0..stack_idx
        /\ \A q \in 1..(n-1) : ctl'[q] = ctl[q]
    BY DEF Back
  <1>1. /\ ctl \in Seq(Region) /\ Len(ctl) \in Nat /\ Len(ctl) <= MaxDepth
        /\ slots \in Seq(Slot) /\ Len(slots) = Len(ctl)
        /\ stack \in [1..STACK_SIZE -> Element] /\ STACK_SIZE \in Nat
        /\ stack_idx \in 0..STACK_SIZE /\ stack_backup \in 0..STACK_SIZE
        /\ exc_obj \in Klasses \union {NoKlass} /\ MaxDepth \in Nat
    BY TypeFacts, SizeAssumption
  <1>2. \A p \in 1..Len(ctl) :
          /\ slots[p].index \in 0..STACK_SIZE
          /\ ctl[p].kind # "report" => slots[p].index \in 1..STACK_SIZE
    BY TypeFacts
  <1>3. /\ slots' \in Seq(Slot) /\ Len(slots') = n
        /\ \A q \in 1..n : slots'[q] = slots[q]
    BY BackFacts
  <1>4. \A q \in 1..n : /\ ctl'[q].kind = "report" <=> ctl[q].kind = "report"
                        /\ ctl'[q].h = ctl[q].h /\ ctl'[q].klass = ctl[q].klass
                        /\ Pushing(ctl'[q]) => ctl'[q] = ctl[q]
    BY BackFacts
  <1>5. rep \in 0..n /\ (n # 0 => InReport(ctl, slots, n))
    <2>1. CASE n = 0
      BY <2>1
    <2>2. CASE n # 0
      <3>1. n \in 1..Len(ctl)
        BY <2>2
      <3>2. InReport(ctl, slots, n)
        BY <3>1 DEF IInv, Numbered, NumberedAt
      <3> QED
        BY <2>2, <3>2 DEF InReport
    <2> QED
      BY <2>1, <2>2
  <1>6. Report' = rep /\ Base' = base
    <2>1. CASE n = 0
      <3>1. ctl' = << >>
        BY <1>0, <2>1
      <3> QED
        BY <2>1, <3>1 DEF Report, Base
    <2>2. CASE n # 0
      <3>1. ctl' # << >> /\ n \in 1..n
        BY <1>0, <2>2
      <3>2. Report' = rep
        BY <1>0, <1>3, <2>2, <3>1 DEF Report
      <3>3. rep # 0 => slots'[rep] = slots[rep]
        BY <1>3, <1>5
      <3> QED
        BY <3>2, <3>3 DEF Base
    <2> QED
      BY <2>1, <2>2
  <1>7. TypeOK'
    <2>1. /\ pc' \in {"run", "unwind", "exit", "astray"}
          /\ ctl' \in Seq(Region) /\ Len(ctl') <= MaxDepth
          /\ slots' \in Seq(Slot) /\ Len(slots') = Len(ctl')
          /\ stack' \in [1..STACK_SIZE -> Element] /\ stack_idx' \in 0..STACK_SIZE
          /\ exc_obj' \in Klasses \union {NoKlass}
          /\ stack_backup' \in 0..STACK_SIZE
      BY <1>0, <1>1, <1>3
    <2> QED
      BY <1>0, <2>1, Zenon DEF TypeOK, Slot
  <1>8. Numbered(ctl', slots')
    <2> SUFFICES ASSUME NEW p \in 1..n PROVE NumberedAt(ctl', slots', p)
      BY <1>0 DEF Numbered
    <2>1. /\ p \in Nat \ {0} /\ NumberedAt(ctl, slots, p)
          /\ \A q \in 1..(p-1) : ctl'[q] = ctl[q]
          /\ ctl'[p].kind = "report" <=> ctl[p].kind = "report"
          /\ \A q \in 1..p : slots'[q] = slots[q]
      BY <1>0, <1>1, <1>3, <1>4 DEF IInv, Numbered
    <2> QED
      BY <2>1, NumberedLocal, ZenonT(60)
  <1>9. Owned'
    <2> SUFFICES ASSUME NEW p \in 1..n, ctl'[p].kind # "report",
                        stack[slots[p].index].at = p
                 PROVE  /\ stack[slots[p].index].type = ctl'[p].h
                        /\ stack[slots[p].index].exc_type = ctl'[p].klass
      BY <1>0, <1>3 DEF Owned
    <2>1. p \in 1..Len(ctl) /\ ctl[p].kind # "report"
      BY <1>1, <1>4
    <2>2. /\ stack[slots[p].index].type = ctl[p].h
          /\ stack[slots[p].index].exc_type = ctl[p].klass
      BY <2>1 DEF IInv, Owned
    <2> QED
      BY <1>4, <2>2
  <1>10. Intact'
    <2> SUFFICES ASSUME NEW p \in 1..n, Pushing(ctl'[p]), Spared(ctl', slots', p)
                 PROVE  stack[slots[p].index].at = p
      BY <1>0, <1>3 DEF Intact
    <2>1. p \in 1..Len(ctl) /\ Pushing(ctl[p]) /\ ctl[p].kind # "report"
      BY <1>1, <1>4 DEF Pushing
    <2>2. \A r \in (p+1)..n : ctl[r].kind = "report" => slots[p].index <= slots[r].index
      BY <1>0, <1>3, <1>4 DEF Spared
    <2>3. slots[p].index <= stack_idx'
      <3>1. CASE p \in (rep + 1)..n
        BY <3>1 DEF Keeps
      <3>2. CASE p <= rep
        <4>1. rep # 0 /\ n # 0 /\ ctl[rep].kind = "report"
          BY <1>5, <3>2 DEF InReport
        <4>2. rep \in (p+1)..n
          BY <1>5, <2>1, <3>2, <4>1
        <4>3. slots[p].index <= base
          BY <2>2, <4>1, <4>2
        <4>4. rep \in 1..Len(ctl) /\ base = slots[rep].index
          BY <4>1, <4>2
        <4> QED
          BY <1>0, <1>1, <1>2, <2>1, <4>3, <4>4 DEF Keeps
      <3> QED
        BY <1>5, <3>1, <3>2
    <2>4. \A r \in (p+1)..Len(ctl) : ctl[r].kind = "report" => slots[p].index <= slots[r].index
      <3> SUFFICES ASSUME NEW r \in (n+1)..Len(ctl), ctl[r].kind = "report"
                   PROVE  slots[p].index <= slots[r].index
        BY <1>1, <2>2
      <3>1. r \in 1..Len(ctl) /\ stack_idx' < slots[r].index
        BY <1>1 DEF Keeps
      <3> QED
        BY <1>0, <1>1, <1>2, <2>1, <2>3, <3>1
    <2> QED
      BY <2>1, <2>4 DEF IInv, Intact, Spared
  <1>11. Overwritten'
    <2> SUFFICES ASSUME NEW x \in 1..n, ctl[x].kind = "report",
                        NEW i \in 1..STACK_SIZE, slots[x].index < i,
                        i <= stack_idx' \/ i <= stack_backup
                 PROVE  stack[i].at > x
      BY <1>0, <1>3, <1>4 DEF Overwritten
    <2>1. x \in 1..Len(ctl) /\ (i <= stack_idx \/ i <= stack_backup)
      BY <1>0, <1>1
    <2> QED
      BY <2>1 DEF IInv, Overwritten
  <1>12. Filled'
    <2>1. ASSUME NEW i \in (base + 1)..stack_idx'
          PROVE  \E p \in (rep + 1)..n : Pushing(ctl'[p]) /\ slots'[p].index = i
      <3>1. PICK p \in (rep + 1)..n : Pushing(ctl'[p]) /\ slots[p].index = i
        BY DEF Keeps
      <3> QED
        BY <1>3, <1>5, <3>1
    <2> QED
      BY <1>0, <1>6, <2>1 DEF Filled
  <1>13. AllPushed'
    <2>1. ASSUME NEW p \in (rep + 1)..n, Pushing(ctl'[p])
          PROVE  slots'[p].index <= stack_idx'
      <3>1. slots'[p] = slots[p]
        BY <1>3, <1>5
      <3> QED
        BY <2>1, <3>1 DEF Keeps
    <2> QED
      BY <1>0, <1>6, <2>1 DEF AllPushed, Keeps
  <1> QED
    BY <1>0, <1>7, <1>8, <1>9, <1>10, <1>11, <1>12, <1>13 DEF IInv, Phase

(* The same while the program runs: control stays in the innermost report.  *)
LEMMA LeaveHere ==
  ASSUME IInv, pc = "run", NEW n \in Report..Len(ctl), Back(n), Base <= stack_idx',
         \A p \in (Report + 1)..Len(ctl) : Pushing(ctl[p]) =>
            (slots[p].index <= stack_idx' <=> p <= n /\ Pushing(ctl'[p]))
  PROVE  IInv'
  <1>0. stack_idx' \in 0..stack_idx
    BY DEF Back
  <1>1. /\ Report \in 0..Len(ctl) /\ Len(ctl) \in Nat /\ Base \in 0..STACK_SIZE
        /\ Report # 0 => Base = slots[Report].index
        /\ Report = 0 => Base = 0
        /\ \A p \in (Report + 1)..Len(ctl) : ctl[p].kind # "report"
        /\ \A p \in 1..Len(ctl) : Report <= p => slots[p].report = Report
        /\ stack_idx \in 0..STACK_SIZE /\ STACK_SIZE \in Nat
    BY ReportFacts, TypeFacts
  <1>2. /\ Report = IF n = 0 THEN 0 ELSE slots[n].report
        /\ Base = IF Report = 0 THEN 0 ELSE slots[Report].index
    BY <1>1
  <1>3. n \in 0..Len(ctl)
    BY <1>1
  <1>4. Filled /\ AllPushed
    BY DEF IInv, Phase
  <1>5. \A i \in (Base + 1)..stack_idx' :
           \E p \in (Report + 1)..n : Pushing(ctl'[p]) /\ slots[p].index = i
    <2> SUFFICES ASSUME NEW i \in (Base + 1)..stack_idx'
                 PROVE  \E p \in (Report + 1)..n : Pushing(ctl'[p]) /\ slots[p].index = i
      OBVIOUS
    <2>1. i \in (Base + 1)..stack_idx /\ i <= stack_idx'
      BY <1>0, <1>1
    <2>2. PICK p \in (Report + 1)..Len(ctl) : Pushing(ctl[p]) /\ slots[p].index = i
      BY <1>4, <2>1 DEF Filled
    <2>3. p <= n /\ Pushing(ctl'[p])
      BY <2>1, <2>2
    <2> QED
      BY <1>1, <2>2, <2>3
  <1>6. \A p \in (Report + 1)..n : Pushing(ctl'[p]) => slots[p].index <= stack_idx'
    <2> SUFFICES ASSUME NEW p \in (Report + 1)..n, Pushing(ctl'[p])
                 PROVE  slots[p].index <= stack_idx'
      OBVIOUS
    <2>1. p \in (Report + 1)..Len(ctl) /\ p <= n
      BY <1>1
    <2>2. Pushing(ctl[p])
      BY <1>1, <1>3, BackFacts
    <2> QED
      BY <2>1, <2>2
  <1>7. \A r \in (n+1)..Len(ctl) : ctl[r].kind = "report" => stack_idx' < slots[r].index
    BY <1>1
  <1>8. Keeps(n, Report, Base)
    BY <1>5, <1>6, <1>7 DEF Keeps
  <1> QED
    BY <1>2, <1>3, <1>8, Leave

-----------------------------------------------------------------------------
(* Going back to a prefix of the context, or to a handler at its end.       *)
LEMMA BackPrefix ==
  ASSUME IInv, NEW n \in 0..Len(ctl), BackTo(n), pc' = "run",
         UNCHANGED <<stack, exc_obj, stack_backup>>, stack_unwinding' \in BOOLEAN,
         stack_idx' \in 0..stack_idx
  PROVE  Back(n) /\ \A q \in 1..n : ctl'[q] = ctl[q]
  <1>1. ctl \in Seq(Region) /\ Len(ctl) \in Nat /\ Framed(ctl)
    BY TypeFacts DEF IInv
  <1>2. /\ Upto(ctl, n) \in Seq(Region) /\ Len(Upto(ctl, n)) = n
        /\ \A q \in 1..n : Upto(ctl, n)[q] = ctl[q]
        /\ Framed(Upto(ctl, n))
    BY <1>1, UptoFacts, FramedPrefix
  <1>3. ctl' = Upto(ctl, n) /\ slots' = Upto(slots, n)
    BY DEF BackTo
  <1>4. /\ ctl' \in Seq(Region) /\ Len(ctl') = n /\ Framed(ctl')
        /\ \A q \in 1..n : ctl'[q] = ctl[q]
    BY <1>2, <1>3
  <1>5. \A q \in 1..(n-1) : ctl'[q] = ctl[q]
    BY <1>4
  <1>6. n # 0 => ctl'[n] = ctl[n]
    BY <1>4
  <1> QED
    BY <1>3, <1>4, <1>5, <1>6 DEF Back

LEMMA BackHandler ==
  ASSUME IInv, NEW n \in 1..Len(ctl), ctl[n].kind \notin Frames,
         NEW k \in Klasses \union {NoKlass},
         ctl' = Cut(ctl, n, HandlerRegion(ctl[n], k)), slots' = Upto(slots, n),
         pc' = "run", UNCHANGED <<stack, exc_obj, stack_backup>>,
         stack_unwinding' \in BOOLEAN, stack_idx' \in 0..stack_idx
  PROVE  /\ Back(n) /\ ~Pushing(ctl'[n])
         /\ \A q \in 1..(n-1) : ctl'[q] = ctl[q]
  <1> DEFINE r == HandlerRegion(ctl[n], k)
  <1>1. /\ ctl \in Seq(Region) /\ Len(ctl) \in Nat /\ Framed(ctl)
        /\ ctl[n] \in Region
    BY TypeFacts DEF IInv
  <1>2. r \in Region /\ r.kind \in {"catch", "finally"} /\ r.h = ctl[n].h
    BY <1>1, RegionTypes, HandlerFields
  <1>3. r.klass = ctl[n].klass
    BY <1>1 DEF HandlerRegion, Region
  <1>4. Framed(ctl')
    BY <1>1, FramedHandler
  <1> HIDE DEF r
  <1>5. /\ ctl' \in Seq(Region) /\ Len(ctl') = n /\ ctl'[n] = r
        /\ \A q \in 1..(n-1) : ctl'[q] = ctl[q]
    <2>1. ctl' = Cut(ctl, n, r)
      BY DEF r
    <2> QED
      BY <1>1, <1>2, <2>1, CutRegion
  <1>6. /\ ctl[n].kind # "report" /\ ctl'[n].kind \in {"catch", "finally"}
        /\ ctl'[n].h = ctl[n].h /\ ctl'[n].klass = ctl[n].klass
    BY <1>2, <1>3, <1>5 DEF Frames
  <1>7. Back(n)
    BY <1>4, <1>5, <1>6 DEF Back
  <1> QED
    BY <1>5, <1>6, <1>7 DEF Pushing

(* A step that leaves the context and the elements of the stack alone.      *)
LEMMA Stay ==
  ASSUME IInv, UNCHANGED <<ctl, slots, stack>>,
         pc' \in {"run", "unwind", "exit", "astray"},
         stack_idx' \in 0..STACK_SIZE, stack_backup' \in 0..STACK_SIZE,
         stack_unwinding' \in BOOLEAN, exc_obj' \in Klasses \union {NoKlass},
         stack_idx' <= stack_idx \/ stack_idx' <= stack_backup,
         stack_backup' <= stack_idx \/ stack_backup' <= stack_backup,
         Phase'
  PROVE  IInv'
  <1>1. TypeOK'
    BY Zenon DEF IInv, TypeOK, Slot
  <1>2. Framed(ctl') /\ Numbered(ctl', slots')
    BY DEF IInv
  <1>3. Owned' /\ Intact'
    BY DEF IInv, Owned, Intact, Spared
  <1>4. Overwritten'
    <2> SUFFICES ASSUME NEW r \in 1..Len(ctl), ctl[r].kind = "report",
                        NEW i \in 1..STACK_SIZE, slots[r].index < i,
                        i <= stack_idx' \/ i <= stack_backup'
                 PROVE  stack[i].at > r
      BY DEF Overwritten
    <2>1. i <= stack_idx \/ i <= stack_backup
      BY TypeFacts
    <2> QED
      BY <2>1 DEF IInv, Overwritten
  <1> QED
    BY <1>1, <1>2, <1>3, <1>4 DEF IInv

-----------------------------------------------------------------------------
(* In a running program the top try block owns the top element and the      *)
(* current function owns the topmost annotation.                            *)
LEMMA OwnTop ==
  ASSUME IInv, pc = "run", ctl # << >>, Top(ctl).kind = "try"
  PROVE  /\ Len(ctl) \in (Report + 1)..Len(ctl)
         /\ stack_idx \in (Base + 1)..STACK_SIZE
         /\ stack[stack_idx].at = Len(ctl)
         /\ slots[Len(ctl)].index = stack_idx
  <1> DEFINE n == Len(ctl)
  <1>1. /\ Report \in 0..n /\ n \in Nat /\ Base \in 0..STACK_SIZE /\ STACK_SIZE \in Nat
        /\ Report # 0 => ctl[Report].kind = "report"
        /\ ctl \in Seq(Region) /\ stack_idx \in 0..STACK_SIZE
    BY ReportFacts, TypeFacts
  <1>2. n \in (Report + 1)..n /\ ctl[n].kind = "try" /\ Pushing(ctl[n])
    BY <1>1 DEF Top, Pushing
  <1>3. slots[n].index \in (Base + 1)..STACK_SIZE /\ stack[slots[n].index].at = n
    BY <1>2, OwnElement
  <1>4. Filled /\ AllPushed
    BY DEF IInv, Phase
  <1>5. slots[n].index <= stack_idx
    BY <1>2, <1>4 DEF AllPushed
  <1> HIDE DEF n
  <1>6. PICK p \in (Report + 1)..n : Pushing(ctl[p]) /\ slots[p].index = stack_idx
    <2>1. stack_idx \in (Base + 1)..stack_idx
      BY <1>1, <1>3, <1>5
    <2> QED
      BY <1>4, <2>1 DEF Filled, n
  <1>7. p = n
    <2> SUFFICES ASSUME p # n PROVE FALSE
      OBVIOUS
    <2>1. p \in (Report + 1)..(n - 1)
      BY <1>1, <1>6
    <2>2. slots[p].index < slots[n].index
      BY <1>2, <1>6, <2>1, Increasing DEF n
    <2> QED
      BY <1>1, <1>3, <1>5, <1>6, <2>2
  <1> QED
    BY <1>1, <1>2, <1>3, <1>5, <1>6, <1>7 DEF n

LEMMA OwnAnnot ==
  ASSUME IInv, pc = "run", InCode
  PROVE  LET f == Top(ctl).frame
             i == slots[f].index
         IN  /\ f \in (Report + 1)..Len(ctl)
             /\ ctl[f].kind = "func"
             /\ i \in (Base + 1)..stack_idx
             /\ stack[i].type = ANNOT /\ stack[i].at = f
             /\ \A j \in (i+1)..stack_idx : stack[j].type # ANNOT
  <1> DEFINE f == Top(ctl).frame
             i == slots[f].index
  <1>1. /\ Report \in 0..Len(ctl) /\ Len(ctl) \in Nat
        /\ Report # 0 => ctl[Report].kind = "report"
        /\ ctl \in Seq(Region) /\ stack_idx \in 0..STACK_SIZE /\ STACK_SIZE \in Nat
        /\ Base \in 0..STACK_SIZE
    BY ReportFacts, TypeFacts
  <1>2. Len(ctl) \in 1..Len(ctl) /\ Top(ctl) = ctl[Len(ctl)] /\ Top(ctl).kind # "report"
    BY <1>1 DEF Top, InCode
  <1>3. FramedAt(ctl, Len(ctl))
    BY <1>2 DEF IInv, Framed
  <1>4. /\ f \in 1..Len(ctl)
        /\ ctl[f].kind \in Frames
        /\ ctl[f].kind = "func" \/ f = Len(ctl)
        /\ \A q \in (f + 1)..Len(ctl) : ctl[q].kind \notin Frames
    BY <1>2, <1>3 DEF FramedAt
  <1>5. ctl[f].kind = "func"
    BY <1>2, <1>4 DEF Frames
  <1> HIDE DEF f
  <1>6. f \in (Report + 1)..Len(ctl)
    BY <1>1, <1>4, <1>5 DEF Frames
  <1>7. Filled /\ AllPushed
    BY DEF IInv, Phase
  <1>8. /\ i \in (Base + 1)..STACK_SIZE /\ stack[i].at = f
        /\ Registers(stack[i], ctl[f])
    BY <1>5, <1>6, OwnElement DEF Pushing
  <1>9. i <= stack_idx
    BY <1>5, <1>6, <1>7 DEF AllPushed, Pushing
  <1>10. stack[i].type = ANNOT
    BY <1>4, <1>8 DEF Registers, IInv, Framed, FramedAt
  <1>11. ASSUME NEW j \in (i+1)..stack_idx
         PROVE  stack[j].type # ANNOT
    <2>1. j \in (Base + 1)..stack_idx
      BY <1>1, <1>8
    <2>2. PICK p \in (Report + 1)..Len(ctl) : Pushing(ctl[p]) /\ slots[p].index = j
      BY <1>7, <2>1 DEF Filled
    <2>3. Registers(stack[j], ctl[p])
      BY <2>2, OwnElement
    <2>4. p # f
      BY <1>8, <2>2
    <2>5. ~(p < f)
      <3> SUFFICES ASSUME p < f PROVE FALSE
        OBVIOUS
      <3>1. p \in (Report + 1)..(f - 1)
        BY <1>1, <1>6, <2>2
      <3>2. slots[p].index < slots[f].index
        BY <1>6, <2>2, <3>1, Increasing
      <3> QED
        BY <1>1, <1>8, <2>2, <3>2
    <2>6. p \in (f + 1)..Len(ctl) /\ p \in 1..Len(ctl)
      BY <1>1, <1>6, <2>2, <2>4, <2>5
    <2>7. ctl[p].h # ANNOT
      BY <1>4, <2>6 DEF IInv, Framed, FramedAt
    <2> QED
      BY <2>3, <2>7 DEF Registers
  <1>12. i \in (Base + 1)..stack_idx
    BY <1>1, <1>8, <1>9
  <1> QED
    BY <1>5, <1>6, <1>8, <1>10, <1>11, <1>12 DEF f

-----------------------------------------------------------------------------
(* The invariant is preserved, action by action.                            *)
LEMMA CallInv ==
  ASSUME IInv, NEW anon \in BOOLEAN, Call(anon)
  PROVE  IInv'
  <1> DEFINE r == FuncRegion(Len(ctl) + 1, anon)
  <1>1. ctl \in Seq(Region) /\ Len(ctl) \in Nat /\ Framed(ctl)
    BY DEF IInv, TypeOK
  <1>2. /\ r \in Region /\ r.kind = "func" /\ r.h = ANNOT /\ r.klass = NoKlass
        /\ r.frame = Len(ctl) + 1
    BY <1>1, RegionTypes DEF FuncRegion
  <1> HIDE DEF r
  <1>3. Framed(Append(ctl, r))
    BY <1>1, <1>2, FramedNew DEF Frames
  <1>4. Enters(r) /\ ctl' = Append(ctl, r) /\ Pushing(r)
    BY <1>2 DEF Call, r, Enters, Pushing
  <1>5. /\ pc = "run" /\ pc' = "run" /\ Room /\ Push(r.h, r.klass, Len(ctl) + 1)
        /\ UNCHANGED <<stack_unwinding, exc_obj, stack_backup>>
    BY <1>2 DEF Call
  <1>6. Framed(ctl')
    BY <1>3, <1>4
  <1> QED
    BY <1>2, <1>4, <1>5, <1>6, Enter

LEMMA TryInv ==
  ASSUME IInv, NEW h \in Types \ {ANNOT}, NEW k \in Klasses \union {NoKlass},
         Try(h, k)
  PROVE  IInv'
  <1> DEFINE r == TryRegion(Top(ctl), h, k)
  <1>1. ctl \in Seq(Region) /\ ctl # << >> /\ Framed(ctl) /\ Top(ctl).kind # "report"
    BY DEF IInv, TypeOK, Try, InCode
  <1>2. Top(ctl) \in Region
    BY <1>1 DEF Top
  <1>3. r \in Region /\ r.kind = "try" /\ r.h = h /\ r.klass = k
    BY <1>2, RegionTypes DEF TryRegion
  <1>4. Framed(Append(ctl, r))
    BY <1>1, FramedTry
  <1> HIDE DEF r
  <1>5. Enters(r) /\ ctl' = Append(ctl, r) /\ Pushing(r)
    BY <1>3 DEF Try, r, Enters, Pushing
  <1>6. /\ pc = "run" /\ pc' = "run" /\ Room /\ Push(r.h, r.klass, Len(ctl) + 1)
        /\ UNCHANGED <<stack_unwinding, exc_obj, stack_backup>>
    BY <1>3 DEF Try
  <1>7. Framed(ctl')
    BY <1>4, <1>5
  <1> QED
    BY <1>3, <1>5, <1>6, <1>7, Enter

(* A popped context is the context up to its last region but one.           *)
LEMMA PopFacts ==
  ASSUME NEW c \in Seq(Region), c # << >>, Framed(c)
  PROVE  /\ Len(c) - 1 \in 0..Len(c)
         /\ PopTop(c) = Upto(c, Len(c) - 1)
         /\ PopTop(c) \in Seq(Region)
         /\ Len(PopTop(c)) = Len(c) - 1
         /\ \A q \in 1..(Len(c) - 1) : PopTop(c)[q] = c[q]
         /\ Framed(PopTop(c))
  <1>1. Len(c) - 1 \in 0..Len(c)
    OBVIOUS
  <1>2. PopTop(c) = Upto(c, Len(c) - 1)
    BY DEF PopTop, Upto
  <1> QED
    BY <1>1, <1>2, UptoFacts, FramedPrefix

LEMMA UptoAll ==
  ASSUME NEW S, NEW c \in Seq(S)
  PROVE  Upto(c, Len(c)) = c
  BY DEF Upto

LEMMA EndTryInv ==
  ASSUME IInv, EndTry
  PROVE  IInv'
  <1> DEFINE n == Len(ctl)
  <1>1. /\ ctl \in Seq(Region) /\ ctl # << >> /\ Framed(ctl) /\ n \in Nat \ {0}
        /\ pc = "run" /\ ctl[n].kind = "try" /\ Top(ctl) = ctl[n] /\ Top(ctl).kind = "try"
        /\ slots \in Seq(Slot) /\ Len(slots) = n /\ STACK_SIZE \in Nat
        /\ stack_idx \in 0..STACK_SIZE
    BY TypeFacts DEF IInv, EndTry, InRegion, Top
  <1>2. /\ n \in (Report + 1)..n /\ stack_idx \in (Base + 1)..STACK_SIZE
        /\ slots[n].index = stack_idx
    BY <1>1, OwnTop
  <1>3. stack_idx' = stack_idx - 1
    BY DEF EndTry
  <1>4. /\ Report \in 0..n /\ Base \in 0..STACK_SIZE
    BY ReportFacts
  <1>5. stack_idx' \in 0..stack_idx /\ Base <= stack_idx'
    BY <1>1, <1>2, <1>3, <1>4
  <1>6. /\ pc' = "run" /\ UNCHANGED <<stack, exc_obj, stack_backup>>
        /\ stack_unwinding' \in BOOLEAN
    BY <1>1, TypeFacts DEF EndTry
  <1>7. ASSUME NEW p \in (Report + 1)..n, Pushing(ctl[p])
        PROVE  slots[p].index <= stack_idx' <=> p # n
    <2>1. CASE p = n
      BY <1>1, <1>2, <1>3, <2>1
    <2>2. CASE p # n
      <3>1. p \in (Report + 1)..(n - 1)
        BY <1>1, <1>4, <2>2
      <3>2. slots[p].index < slots[n].index
        BY <1>2, <1>7, <3>1, Increasing
      <3>3. p \in 1..Len(ctl)
        BY <1>4
      <3>4. slots[p].index \in 0..STACK_SIZE
        BY <3>3, TypeFacts
      <3> QED
        BY <1>1, <1>2, <1>3, <2>2, <3>2, <3>4
    <2> QED
      BY <2>1, <2>2
  <1>8. CASE Top(ctl).h = FINALLY
    <2>1. ctl' = Cut(ctl, n, HandlerRegion(ctl[n], NoKlass))
      BY <1>1, <1>8, PopFacts DEF EndTry, Cut
    <2>2. slots' = Upto(slots, n)
      <3>1. slots' = slots
        BY <1>8 DEF EndTry
      <3> QED
        BY <1>1, <3>1, UptoAll
    <2>3. /\ n \in 1..Len(ctl) /\ ctl[n].kind \notin Frames
          /\ NoKlass \in Klasses \union {NoKlass}
      BY <1>1 DEF Frames
    <2>4. /\ Back(n) /\ ~Pushing(ctl'[n]) /\ \A q \in 1..(n-1) : ctl'[q] = ctl[q]
      BY <1>5, <1>6, <2>1, <2>2, <2>3, BackHandler
    <2>5. n \in Report..Len(ctl)
      BY <1>1, <1>4
    <2>6. ASSUME NEW p \in (Report + 1)..n, Pushing(ctl[p])
          PROVE  slots[p].index <= stack_idx' <=> p <= n /\ Pushing(ctl'[p])
      <3>1. CASE p = n
        BY <1>7, <2>4, <2>6, <3>1
      <3>2. CASE p # n
        <4>1. p \in 1..(n-1)
          BY <1>1, <1>4, <3>2
        <4> QED
          BY <1>1, <1>7, <2>4, <2>6, <3>2, <4>1
      <3> QED
        BY <3>1, <3>2
    <2> HIDE DEF n
    <2> QED
      BY <1>1, <1>5, <2>4, <2>5, <2>6, LeaveHere DEF n
  <1>9. CASE Top(ctl).h # FINALLY
    <2>1. n - 1 \in 0..Len(ctl) /\ n - 1 \in Report..Len(ctl)
      BY <1>1, <1>2, <1>4
    <2>2. BackTo(n - 1)
      BY <1>9 DEF EndTry
    <2>3. Back(n - 1) /\ \A q \in 1..(n-1) : ctl'[q] = ctl[q]
      BY <1>5, <1>6, <2>1, <2>2, BackPrefix
    <2>4. ASSUME NEW p \in (Report + 1)..n, Pushing(ctl[p])
          PROVE  slots[p].index <= stack_idx' <=> p <= n - 1 /\ Pushing(ctl'[p])
      <3>1. CASE p = n
        BY <1>1, <1>7, <2>4, <3>1
      <3>2. CASE p # n
        <4>1. p \in 1..(n-1)
          BY <1>1, <1>4, <3>2
        <4> QED
          BY <1>1, <1>7, <2>3, <2>4, <3>2, <4>1
      <3> QED
        BY <3>1, <3>2
    <2> HIDE DEF n
    <2> QED
      BY <1>1, <1>5, <2>1, <2>3, <2>4, LeaveHere DEF n
  <1> QED
    BY <1>8, <1>9

(* The end of a catch or finally block: such a region is not on the stack.  *)
LEMMA DropTopInv ==
  ASSUME IInv, pc = "run", pc' = "run", ctl # << >>,
         Top(ctl).kind \in {"catch", "finally"}, BackTo(Len(ctl) - 1),
         UNCHANGED <<stack, stack_idx, stack_unwinding, exc_obj, stack_backup>>
  PROVE  IInv'
  <1> DEFINE n == Len(ctl)
  <1>1. /\ n \in Nat \ {0} /\ ctl[n].kind \in {"catch", "finally"}
        /\ stack_idx \in 0..STACK_SIZE /\ stack_unwinding \in BOOLEAN /\ STACK_SIZE \in Nat
    BY TypeFacts DEF Top
  <1>2. /\ Report \in 0..n /\ (Report # 0 => ctl[Report].kind = "report")
    BY ReportFacts
  <1>3. n - 1 \in Report..Len(ctl) /\ n - 1 \in 0..Len(ctl)
    BY <1>1, <1>2
  <1>4. stack_idx' \in 0..stack_idx /\ stack_unwinding' \in BOOLEAN
    BY <1>1
  <1>5. Back(n - 1) /\ \A q \in 1..(n-1) : ctl'[q] = ctl[q]
    BY <1>3, <1>4, BackPrefix
  <1>6. AllPushed
    BY DEF IInv, Phase
  <1>7. ASSUME NEW p \in (Report + 1)..n, Pushing(ctl[p])
        PROVE  slots[p].index <= stack_idx' <=> p <= n - 1 /\ Pushing(ctl'[p])
    <2>1. p # n
      BY <1>1, <1>7 DEF Pushing
    <2>2. p \in 1..(n-1)
      BY <1>1, <1>2, <2>1
    <2> QED
      BY <1>1, <1>5, <1>6, <1>7, <2>2 DEF AllPushed
  <1>8. Base <= stack_idx'
    BY <1>6 DEF AllPushed
  <1> HIDE DEF n
  <1> QED
    BY <1>3, <1>5, <1>7, <1>8, LeaveHere DEF n

LEMMA EndCatchInv ==
  ASSUME IInv, EndCatch
  PROVE  IInv'
  BY DropTopInv DEF EndCatch, InRegion

LEMMA EndFinallyInv ==
  ASSUME IInv, EndFinally
  PROVE  IInv'
  <1>1. CASE stack_unwinding = TRUE
    <2>1. pc = "run" /\ pc' = "unwind" /\ UNCHANGED <<ctl, slots, stack, stack_idx,
                           stack_unwinding, exc_obj, stack_backup>>
      BY <1>1 DEF EndFinally, InRegion
    <2>2. Phase'
      <3>1. Filled'
        BY <2>1 DEF IInv, Phase, Filled, Base, Report
      <3>2. Interrupts(ctl, Len(ctl))
        <4>1. Len(ctl) \in 1..Len(ctl) /\ ctl[Len(ctl)].kind = "finally"
          BY TypeFacts DEF EndFinally, InRegion, Top
        <4> QED
          BY <4>1 DEF Interrupts
      <3> QED
        BY <2>1, <3>1, <3>2 DEF Phase
    <2> QED
      BY <2>1, <2>2, TypeFacts, Stay
  <1>2. CASE stack_unwinding = FALSE
    BY <1>2, DropTopInv DEF EndFinally, InRegion
  <1> QED
    BY <1>1, <1>2, TypeFacts

LEMMA ReturnInv ==
  ASSUME IInv, Return
  PROVE  IInv'
  <1> DEFINE f == Top(ctl).frame
             i == slots[f].index
  <1>1. pc = "run" /\ InCode /\ BackTo(f - 1) /\ pc' = "run"
        /\ UNCHANGED <<stack, stack_unwinding, exc_obj, stack_backup>>
    BY DEF Return
  <1>2. /\ f \in (Report + 1)..Len(ctl)
        /\ i \in (Base + 1)..stack_idx
        /\ stack[i].type = ANNOT
        /\ \A j \in (i+1)..stack_idx : stack[j].type # ANNOT
    BY <1>1, OwnAnnot
  <1>3. /\ Report \in 0..Len(ctl) /\ Base \in 0..STACK_SIZE /\ Len(ctl) \in Nat
        /\ stack_idx \in 0..STACK_SIZE /\ STACK_SIZE \in Nat
        /\ stack_unwinding \in BOOLEAN
    BY ReportFacts, TypeFacts
  <1> HIDE DEF f
  <1>4. stack_idx' = i - 1
    <2>1. PICK i2 \in 1..stack_idx :
              /\ stack[i2].type = ANNOT
              /\ \A j \in (i2+1)..stack_idx : stack[j].type # ANNOT
              /\ stack_idx' = i2 - 1
      BY DEF Return
    <2> HIDE DEF i
    <2>2. ~(i2 < i) /\ ~(i < i2)
      BY <1>2, <1>3, <2>1
    <2> QED
      BY <1>2, <1>3, <2>1, <2>2
  <1>5. stack_idx' \in 0..stack_idx /\ Base <= stack_idx'
    BY <1>2, <1>3, <1>4
  <1>6. f - 1 \in 0..Len(ctl) /\ f - 1 \in Report..Len(ctl)
    BY <1>2, <1>3
  <1>7. Back(f - 1) /\ \A q \in 1..(f-1) : ctl'[q] = ctl[q]
    BY <1>1, <1>3, <1>5, <1>6, BackPrefix
  <1>8. ASSUME NEW p \in (Report + 1)..Len(ctl), Pushing(ctl[p])
        PROVE  slots[p].index <= stack_idx' <=> p <= f - 1 /\ Pushing(ctl'[p])
    <2>0. p \in 1..Len(ctl) /\ slots[p].index \in 0..STACK_SIZE
      <3>1. p \in 1..Len(ctl)
        BY <1>3
      <3> QED
        BY <3>1, TypeFacts
    <2>1. CASE p < f
      <3>1. p \in (Report + 1)..(f - 1) /\ p \in 1..(f - 1)
        BY <1>2, <1>3, <2>1
      <3>2. slots[p].index < i
        BY <1>2, <1>8, <3>1, Increasing
      <3> QED
        BY <1>2, <1>3, <1>4, <1>7, <1>8, <2>0, <3>1, <3>2
    <2>2. CASE p = f
      BY <1>2, <1>3, <1>4, <2>2
    <2>3. CASE p > f
      <3>1. f \in (Report + 1)..(p - 1)
        BY <1>2, <1>3, <2>3
      <3>2. Pushing(ctl[f])
        BY <1>1, OwnAnnot DEF f, Pushing
      <3>3. i < slots[p].index
        BY <3>1, <3>2, Increasing
      <3> QED
        BY <1>2, <1>3, <1>4, <2>0, <2>3, <3>3
    <2> QED
      BY <1>2, <1>3, <2>1, <2>2, <2>3
  <1> HIDE DEF i
  <1> QED
    BY <1>1, <1>5, <1>6, <1>7, <1>8, LeaveHere


(* Where no finally block has run, the elements on the stack at a raise are *)
(* those of regions that are still there.                                   *)
LEMMA ExactAll ==
  ASSUME IInv, pc = "run", ~Interrupts(ctl, Len(ctl))
  PROVE  Exact(ctl, slots, Len(ctl), stack_idx)
  <1>1. /\ Report \in 0..Len(ctl) /\ Len(ctl) \in Nat /\ Base \in 0..STACK_SIZE
        /\ Report # 0 => ctl[Report].kind = "report" /\ Base = slots[Report].index
        /\ Report = 0 => Base = 0
        /\ \A p \in (Report + 1)..Len(ctl) : ctl[p].kind # "report"
        /\ stack_idx \in 0..STACK_SIZE /\ STACK_SIZE \in Nat
    BY ReportFacts, TypeFacts
  <1> SUFFICES ASSUME NEW j \in 1..stack_idx
               PROVE  \E q \in 1..Len(ctl) :
                        /\ Pushing(ctl[q]) /\ slots[q].index = j
                        /\ \A r \in (q+1)..Len(ctl) :
                             ctl[r].kind = "report" => j <= slots[r].index
    BY DEF Exact
  <1>2. CASE j > Base
    <2>1. j \in (Base + 1)..stack_idx
      BY <1>1, <1>2
    <2>2. PICK q \in (Report + 1)..Len(ctl) : Pushing(ctl[q]) /\ slots[q].index = j
      BY <2>1 DEF IInv, Phase, Filled
    <2>3. \A r \in (q+1)..Len(ctl) : ctl[r].kind # "report"
      BY <1>1
    <2> QED
      BY <1>1, <2>2, <2>3
  <1>3. CASE j <= Base
    <2>1. Report \in 1..Len(ctl) /\ j \in 1..slots[Report].index
      BY <1>1, <1>3
    <2>2. ~Interrupts(ctl, Report - 1)
      BY <1>1, <2>1 DEF Interrupts
    <2>3. Exact(ctl, slots, Report - 1, slots[Report].index)
      BY <1>1, <2>1, <2>2 DEF IInv, Numbered, NumberedAt
    <2>4. PICK q \in 1..(Report - 1) :
             /\ Pushing(ctl[q]) /\ slots[q].index = j
             /\ \A r \in (q+1)..(Report - 1) :
                  ctl[r].kind = "report" => j <= slots[r].index
      BY <2>1, <2>3 DEF Exact
    <2>5. \A r \in (q+1)..Len(ctl) : ctl[r].kind = "report" => j <= slots[r].index
      <3> SUFFICES ASSUME NEW r \in (q+1)..Len(ctl), ctl[r].kind = "report"
                   PROVE  j <= slots[r].index
        OBVIOUS
      <3>1. CASE r < Report
        BY <1>1, <2>4, <3>1
      <3>2. CASE r = Report
        BY <1>1, <1>3, <2>1, <3>2
      <3>3. CASE r > Report
        BY <1>1, <3>3
      <3> QED
        BY <1>1, <3>1, <3>2, <3>3
    <2>6. q \in 1..Len(ctl)
      BY <1>1
    <2> QED
      BY <2>4, <2>5, <2>6
  <1> QED
    BY <1>1, <1>2, <1>3

LEMMA RaiseInv ==
  ASSUME IInv, NEW k \in Klasses, exc_raise_object(k)
  PROVE  IInv'
  <1>1. /\ pc = "run" /\ pc' = "unwind" /\ stack_backup' = stack_idx
        /\ stack_unwinding' = TRUE /\ exc_obj' = k
        /\ UNCHANGED <<ctl, slots, stack, stack_idx>>
    BY DEF exc_raise_object
  <1>2. Filled'
    BY <1>1 DEF IInv, Phase, Filled, Base, Report
  <1>3. Interrupts(ctl, Len(ctl)) \/ Exact(ctl, slots, Len(ctl), stack_idx)
    BY <1>1, ExactAll
  <1>4. Phase'
    BY <1>1, <1>2, <1>3 DEF Phase
  <1>5. stack_idx \in 0..STACK_SIZE
    BY TypeFacts
  <1> QED
    BY <1>1, <1>4, <1>5, Stay

LEMMA PopIgnoredInv ==
  ASSUME IInv, PopIgnored
  PROVE  IInv'
  <1>1. /\ pc = "unwind" /\ pc' = "unwind" /\ stack_idx > 0
        /\ stack_idx' = stack_idx - 1
        /\ UNCHANGED <<ctl, slots, stack, stack_unwinding, exc_obj, stack_backup>>
    BY DEF PopIgnored, Popping
  <1>2. /\ stack_idx \in 0..STACK_SIZE /\ STACK_SIZE \in Nat
        /\ Base \in 0..STACK_SIZE
        /\ stack_backup \in 0..STACK_SIZE /\ stack_unwinding \in BOOLEAN
        /\ exc_obj \in Klasses \union {NoKlass}
    BY ReportFacts, TypeFacts
  <1>3. Report' = Report /\ Base' = Base
    BY <1>1 DEF Report, Base
  <1>4. Filled'
    <2>1. \A i \in (Base + 1)..stack_idx' : i \in (Base + 1)..stack_idx
      BY <1>1, <1>2
    <2> QED
      BY <1>1, <1>3, <2>1 DEF IInv, Phase, Filled
  <1>5. Phase'
    BY <1>1, <1>4 DEF IInv, Phase
  <1>6. stack_idx' \in 0..STACK_SIZE /\ stack_idx' <= stack_idx
    BY <1>1, <1>2
  <1> QED
    BY <1>1, <1>2, <1>5, <1>6, Stay

(* longjmp() to a region that is still there lands in its handler; what is  *)
(* left on the stack are the elements below that of the region.             *)
LEMMA LandLive ==
  ASSUME IInv, pc = "unwind", stack_idx > 0, stack_idx' = stack_idx - 1,
         Live(stack_idx), stack[stack_idx].type # ANNOT,
         NEW k \in Klasses \union {NoKlass}, longjmp(k),
         UNCHANGED <<stack, exc_obj, stack_backup>>, stack_unwinding' \in BOOLEAN
  PROVE  IInv'
  <1> DEFINE i == stack_idx
             n == stack[i].at
             rep == slots[n].report
             base == BaseAt(slots, n)
  <1>1. /\ n \in 1..Len(ctl) /\ ctl[n].kind # "report" /\ slots[n].index = i
    BY DEF Live
  <1>2. /\ ctl' = Append(Upto(ctl, n - 1), HandlerRegion(ctl[n], k))
        /\ slots' = Upto(slots, n) /\ pc' = "run"
    BY DEF longjmp
  <1>3. /\ Len(ctl) \in Nat /\ STACK_SIZE \in Nat /\ i \in 1..STACK_SIZE
        /\ ctl[n] \in Region
        /\ \A p \in 1..Len(ctl) : slots[p].index \in 0..STACK_SIZE
    <2>1. /\ Len(ctl) \in Nat /\ STACK_SIZE \in Nat /\ i \in 0..STACK_SIZE
          /\ \A p \in 1..Len(ctl) :
               ctl[p] \in Region /\ slots[p].index \in 0..STACK_SIZE
      BY TypeFacts
    <2> HIDE DEF n
    <2> QED
      BY <1>1, <2>1
  <1>4. stack_idx' \in 0..stack_idx
    BY <1>3
  <1> HIDE DEF i
  <1>5. ctl[n].h # ANNOT
    BY <1>1 DEF i, IInv, Owned
  <1> HIDE DEF n
  <1>6. ctl[n].kind \notin Frames
    BY <1>1, <1>5 DEF IInv, Framed, FramedAt
  <1>7. /\ Back(n) /\ ~Pushing(ctl'[n])
        /\ \A q \in 1..(n-1) : ctl'[q] = ctl[q]
    BY <1>1, <1>2, <1>4, <1>6, BackHandler DEF Cut
  <1>8. InReport(ctl, slots, n) /\ Above(ctl, slots, n)
    BY <1>1 DEF IInv, Numbered, NumberedAt
  <1>9. rep \in 0..n /\ base \in 0..STACK_SIZE /\ base < i
    <2>1. rep \in 0..n /\ base < i
      BY <1>1, <1>8 DEF InReport, Above
    <2>2. rep # 0 => rep \in 1..Len(ctl)
      BY <1>1, <1>3, <2>1
    <2> QED
      BY <1>3, <2>1, <2>2 DEF BaseAt
  <1>10. base <= stack_idx'
    BY <1>3, <1>9 DEF i
  <1>11. ASSUME NEW x \in (base + 1)..stack_idx'
         PROVE  \E p \in (rep + 1)..n : Pushing(ctl'[p]) /\ slots[p].index = x
    <2>1. x \in (base + 1)..(slots[n].index - 1)
      BY <1>1 DEF i
    <2>2. PICK p \in (rep + 1)..(n - 1) : Pushing(ctl[p]) /\ slots[p].index = x
      BY <1>8, <2>1 DEF Above
    <2>3. p \in (rep + 1)..n /\ p \in 1..(n - 1)
      BY <1>1, <1>3, <1>9
    <2> QED
      BY <1>7, <2>2, <2>3
  <1>12. ASSUME NEW p \in (rep + 1)..n, Pushing(ctl'[p])
         PROVE  slots[p].index <= stack_idx'
    <2>1. p # n
      BY <1>7, <1>12
    <2>2. p \in (rep + 1)..(n - 1) /\ p \in 1..(n - 1) /\ p \in 1..Len(ctl)
      BY <1>1, <1>3, <1>9, <2>1
    <2>3. slots[p].index < i
      BY <1>1, <1>7, <1>8, <1>12, <2>2 DEF Above
    <2> QED
      BY <1>3, <2>2, <2>3 DEF i
  <1>13. ASSUME NEW r \in (n+1)..Len(ctl), ctl[r].kind = "report"
         PROVE  stack_idx' < slots[r].index
    <2>1. r \in 1..Len(ctl) /\ ~(n > r)
      BY <1>1, <1>3
    <2>2. ~(slots[r].index < i)
      BY <1>3, <1>13, <2>1 DEF i, n, IInv, Overwritten
    <2> QED
      BY <1>3, <2>1, <2>2 DEF i
  <1>14. Keeps(n, rep, base)
    BY <1>10, <1>11, <1>12, <1>13 DEF Keeps
  <1>15. /\ n \in 0..Len(ctl)
         /\ rep = IF n = 0 THEN 0 ELSE slots[n].report
         /\ base = IF rep = 0 THEN 0 ELSE slots[rep].index
    BY <1>1, <1>3 DEF BaseAt
  <1> HIDE DEF rep, base
  <1> QED
    BY <1>7, <1>14, <1>15, Leave

(* It goes astray only when a finally block of an uncaught exception has    *)
(* run and an exception of its report comes down to what was restored.      *)
LEMMA AstrayWhen ==
  ASSUME IInv, pc = "unwind", stack_idx > 0, ~Live(stack_idx)
  PROVE  Strayed
  <1>1. /\ Report \in 0..Len(ctl) /\ Len(ctl) \in Nat /\ Base \in 0..STACK_SIZE
        /\ Report # 0 => ctl[Report].kind = "report" /\ Base = slots[Report].index
        /\ Report = 0 => Base = 0
        /\ \A p \in (Report + 1)..Len(ctl) : ctl[p].kind # "report"
        /\ stack_idx \in 1..STACK_SIZE /\ STACK_SIZE \in Nat
    BY ReportFacts, TypeFacts
  <1>2. ASSUME NEW q \in 1..Len(ctl), Pushing(ctl[q]), slots[q].index = stack_idx,
               stack[stack_idx].at = q
        PROVE  FALSE
    BY <1>2 DEF Live, Pushing
  <1>3. CASE stack_idx > Base
    <2>1. stack_idx \in (Base + 1)..stack_idx
      BY <1>1, <1>3
    <2>2. PICK p \in (Report + 1)..Len(ctl) : Pushing(ctl[p]) /\ slots[p].index = stack_idx
      BY <2>1 DEF IInv, Phase, Filled
    <2>3. stack[stack_idx].at = p /\ p \in 1..Len(ctl)
      BY <1>1, <2>2, OwnElement
    <2> QED
      BY <1>2, <2>2, <2>3
  <1>4. CASE stack_idx <= Base
    <2>1. Report \in 1..Len(ctl) /\ stack_idx \in 1..slots[Report].index
      BY <1>1, <1>4
    <2>2. Interrupts(ctl, Report - 1) \/ Exact(ctl, slots, Report - 1, slots[Report].index)
      BY <1>1, <2>1 DEF IInv, Numbered, NumberedAt
    <2>3. CASE Interrupts(ctl, Report - 1)
      <3>1. PICK q \in 1..(Report - 1) : ctl[q].kind = "finally"
        BY <2>3 DEF Interrupts
      <3>2. q \in 1..Len(ctl) /\ q < Report
        BY <1>1, <2>1
      <3> QED
        BY <1>1, <2>1, <3>1, <3>2 DEF Strayed
    <2>4. CASE Exact(ctl, slots, Report - 1, slots[Report].index)
      <3>1. PICK q \in 1..(Report - 1) :
               /\ Pushing(ctl[q]) /\ slots[q].index = stack_idx
               /\ \A r \in (q+1)..(Report - 1) :
                    ctl[r].kind = "report" => stack_idx <= slots[r].index
        BY <2>1, <2>4 DEF Exact
      <3>2. q \in 1..Len(ctl)
        BY <1>1
      <3>3. \A r \in (q+1)..Len(ctl) : ctl[r].kind = "report" => stack_idx <= slots[r].index
        <4> SUFFICES ASSUME NEW r \in (q+1)..Len(ctl), ctl[r].kind = "report"
                     PROVE  stack_idx <= slots[r].index
          OBVIOUS
        <4>1. CASE r < Report
          BY <1>1, <3>1, <4>1
        <4>2. CASE r = Report
          BY <1>1, <1>4, <2>1, <4>2
        <4>3. CASE r > Report
          BY <1>1, <4>3
        <4> QED
          BY <1>1, <4>1, <4>2, <4>3
      <3>4. Spared(ctl, slots, q)
        BY <3>1, <3>3 DEF Spared
      <3>5. stack[stack_idx].at = q
        BY <3>1, <3>2, <3>4 DEF IInv, Intact
      <3> QED
        BY <1>2, <3>1, <3>2, <3>5
    <2> QED
      BY <2>2, <2>3, <2>4
  <1> QED
    BY <1>1, <1>3, <1>4

LEMMA LandInv ==
  ASSUME IInv, pc = "unwind", stack_idx > 0, stack_idx' = stack_idx - 1,
         stack[stack_idx].type # ANNOT,
         NEW k \in Klasses \union {NoKlass}, longjmp(k),
         UNCHANGED <<stack, exc_obj, stack_backup>>, stack_unwinding' \in BOOLEAN
  PROVE  IInv'
  <1>1. CASE Live(stack_idx)
    BY <1>1, LandLive
  <1>2. CASE ~Live(stack_idx)
    <2>1. pc' = "astray" /\ UNCHANGED <<ctl, slots>>
      BY <1>2 DEF longjmp
    <2>2. Strayed
      BY <1>2, AstrayWhen
    <2>3. Phase'
      BY <2>1, <2>2 DEF Phase, Strayed
    <2>4. /\ stack_idx' \in 0..STACK_SIZE /\ stack_idx' <= stack_idx
          /\ stack_backup \in 0..STACK_SIZE /\ stack_backup <= stack_backup
          /\ exc_obj \in Klasses \union {NoKlass}
      BY TypeFacts
    <2> QED
      BY <2>1, <2>3, <2>4, Stay
  <1> QED
    BY <1>1, <1>2

LEMMA PopCatchInv ==
  ASSUME IInv, PopCatch
  PROVE  IInv'
  <1>1. stack[stack_idx].type # ANNOT
    BY DEF PopCatch, Wants, ANNOT, CATCH_ALL, CATCH, FINALLY
  <1>2. stack_unwinding' \in BOOLEAN
    BY DEF PopCatch
  <1>3. /\ pc = "unwind" /\ stack_idx > 0 /\ stack_idx' = stack_idx - 1
        /\ longjmp(NoKlass)
        /\ UNCHANGED <<stack, exc_obj, stack_backup>>
    BY DEF PopCatch, Popping
  <1> QED
    BY <1>1, <1>2, <1>3, LandInv

LEMMA PopFinallyInv ==
  ASSUME IInv, PopFinally
  PROVE  IInv'
  <1>1. stack[stack_idx].type # ANNOT
    BY DEF PopFinally, ANNOT, FINALLY
  <1>2. stack_unwinding' \in BOOLEAN /\ exc_obj \in Klasses \union {NoKlass}
    BY TypeFacts DEF PopFinally
  <1>3. /\ pc = "unwind" /\ stack_idx > 0 /\ stack_idx' = stack_idx - 1
        /\ longjmp(exc_obj)
        /\ UNCHANGED <<stack, exc_obj, stack_backup>>
    BY DEF PopFinally, Popping
  <1> QED
    BY <1>1, <1>2, <1>3, LandInv

LEMMA ExitInv ==
  ASSUME IInv, Uncaught \/ EndReport
  PROVE  IInv'
  <1>1. /\ pc' = "exit" /\ stack_idx' \in {stack_idx, stack_backup}
        /\ UNCHANGED <<ctl, slots, stack, stack_unwinding, exc_obj, stack_backup>>
    BY DEF Uncaught, NothingLeft, EndReport
  <1>2. Phase'
    BY <1>1 DEF Phase
  <1>3. /\ stack_idx' \in 0..STACK_SIZE /\ stack_backup' \in 0..STACK_SIZE
        /\ stack_unwinding' \in BOOLEAN /\ exc_obj' \in Klasses \union {NoKlass}
        /\ stack_idx' <= stack_idx \/ stack_idx' <= stack_backup
        /\ stack_backup' <= stack_backup
    BY <1>1, TypeFacts
  <1> QED
    BY <1>1, <1>2, <1>3, Stay

(* A report begins with nothing of its own on the stack.                    *)
LEMMA UncaughtToSInv ==
  ASSUME IInv, UncaughtToS
  PROVE  IInv'
  <1> DEFINE n == Len(ctl) + 1
             r == ReportRegion(n)
             s == [index |-> stack_backup, report |-> n]
  <1>1. /\ pc = "unwind" /\ pc' = "run" /\ stack_idx' = stack_backup
        /\ UNCHANGED <<stack, stack_unwinding, exc_obj, stack_backup>>
        /\ ctl' = Append(ctl, r) /\ slots' = Append(slots, s)
        /\ Len(ctl) < MaxDepth
    BY DEF UncaughtToS, NothingLeft
  <1>2. /\ ctl \in Seq(Region) /\ Len(ctl) \in Nat
        /\ slots \in Seq(Slot) /\ Len(slots) = Len(ctl)
        /\ stack \in [1..STACK_SIZE -> Element] /\ STACK_SIZE \in Nat
        /\ stack_backup \in 0..STACK_SIZE
        /\ stack_unwinding \in BOOLEAN /\ exc_obj \in Klasses \union {NoKlass}
        /\ MaxDepth \in Nat /\ Framed(ctl)
    BY TypeFacts, SizeAssumption DEF IInv
  <1>3. /\ r \in Region /\ r.kind = "report" /\ r.h = ANNOT /\ r.frame = n
    BY <1>2, RegionTypes DEF ReportRegion, FuncRegion
  <1>4. s \in Slot /\ s.index = stack_backup /\ s.report = n
    BY <1>2 DEF Slot
  <1> HIDE DEF r, s
  <1>5. Framed(ctl')
    BY <1>1, <1>2, <1>3, FramedNew DEF Frames
  <1>6. /\ ctl' \in Seq(Region) /\ Len(ctl') = n /\ ctl'[n] = r
        /\ \A q \in 1..Len(ctl) : ctl'[q] = ctl[q]
    BY <1>1, <1>2, <1>3, AppendFacts
  <1>7. /\ slots' \in Seq(Slot) /\ Len(slots') = n /\ slots'[n] = s
        /\ \A q \in 1..Len(ctl) : slots'[q] = slots[q]
    BY <1>1, <1>2, <1>4, AppendFacts
  <1>8. n \in 1..n /\ n \in Nat \ {0} /\ Len(ctl) = n - 1
    BY <1>2
  <1> HIDE DEF n
  <1>9. TypeOK'
    <2>1. /\ pc' \in {"run", "unwind", "exit", "astray"}
          /\ Len(ctl') <= MaxDepth /\ Len(slots') = Len(ctl')
          /\ stack_idx' \in 0..STACK_SIZE
      BY <1>1, <1>2, <1>6, <1>7, <1>8
    <2> QED
      BY <1>1, <1>2, <1>6, <1>7, <2>1, Zenon DEF TypeOK, Slot
  <1>10. Numbered(ctl', slots')
    <2>1. Interrupts(ctl, n - 1) \/ Exact(ctl, slots, n - 1, stack_backup)
      BY <1>1, <1>8 DEF IInv, Phase
    <2>2. Interrupts(ctl, n - 1) => Interrupts(ctl', n - 1)
      BY <1>6, <1>8 DEF Interrupts
    <2>3. ASSUME Exact(ctl, slots, n - 1, stack_backup)
          PROVE  Exact(ctl', slots', n - 1, stack_backup)
      <3> SUFFICES ASSUME NEW j \in 1..stack_backup
                   PROVE  \E q \in 1..(n-1) :
                            /\ Pushing(ctl'[q]) /\ slots'[q].index = j
                            /\ \A x \in (q+1)..(n-1) :
                                 ctl'[x].kind = "report" => j <= slots'[x].index
        BY DEF Exact
      <3>1. PICK q \in 1..(n-1) :
               /\ Pushing(ctl[q]) /\ slots[q].index = j
               /\ \A x \in (q+1)..(n-1) : ctl[x].kind = "report" => j <= slots[x].index
        BY <2>3 DEF Exact
      <3>2. /\ ctl'[q] = ctl[q] /\ slots'[q] = slots[q]
            /\ \A x \in (q+1)..(n-1) : ctl'[x] = ctl[x] /\ slots'[x] = slots[x]
        BY <1>6, <1>7, <1>8
      <3> QED
        BY <3>1, <3>2
    <2>4. InReport(ctl', slots', n)
      BY <1>3, <1>4, <1>6, <1>7, <1>8 DEF InReport
    <2>5. NumberedAt(ctl', slots', n)
      BY <1>3, <1>4, <1>6, <1>7, <2>1, <2>2, <2>3, <2>4 DEF NumberedAt
    <2>6. /\ Len(ctl) \in Nat /\ Len(ctl') = Len(ctl) + 1
          /\ NumberedAt(ctl', slots', Len(ctl) + 1)
          /\ \A q \in 1..Len(ctl) : ctl'[q] = ctl[q] /\ slots'[q] = slots[q]
      BY <1>2, <1>6, <1>7, <1>8, <2>5
    <2>7. Numbered(ctl, slots)
      BY DEF IInv
    <2> QED
      BY <2>6, <2>7, NumberedAppend
  <1>11. Owned'
    <2> SUFFICES ASSUME NEW p \in 1..Len(ctl'), ctl'[p].kind # "report",
                        stack[slots'[p].index].at = p
                 PROVE  /\ stack[slots'[p].index].type = ctl'[p].h
                        /\ stack[slots'[p].index].exc_type = ctl'[p].klass
      BY <1>1 DEF Owned
    <2>1. p \in 1..Len(ctl) /\ ctl'[p] = ctl[p] /\ slots'[p] = slots[p]
      BY <1>3, <1>6, <1>7, <1>8
    <2> QED
      BY <2>1 DEF IInv, Owned
  <1>12. Intact'
    <2> SUFFICES ASSUME NEW p \in 1..Len(ctl'), Pushing(ctl'[p]),
                        Spared(ctl', slots', p)
                 PROVE  stack[slots'[p].index].at = p
      BY <1>1 DEF Intact
    <2>1. p \in 1..Len(ctl) /\ ctl'[p] = ctl[p] /\ slots'[p] = slots[p]
      BY <1>3, <1>6, <1>7, <1>8 DEF Pushing
    <2>2. Spared(ctl, slots, p)
      BY <1>6, <1>7, <1>8, <2>1 DEF Spared
    <2> QED
      BY <2>1, <2>2 DEF IInv, Intact
  <1>13. Overwritten'
    <2> SUFFICES ASSUME NEW x \in 1..Len(ctl'), ctl'[x].kind = "report",
                        NEW i \in 1..STACK_SIZE, slots'[x].index < i,
                        i <= stack_backup
                 PROVE  stack[i].at > x
      BY <1>1 DEF Overwritten
    <2>1. x # n
      BY <1>2, <1>4, <1>7
    <2>2. x \in 1..Len(ctl) /\ ctl'[x] = ctl[x] /\ slots'[x] = slots[x]
      BY <1>6, <1>7, <1>8, <2>1
    <2> QED
      BY <2>2 DEF IInv, Overwritten
  <1>14. Report' = n /\ Base' = stack_backup
    <2>1. ctl' # << >>
      BY <1>6, <1>8
    <2>2. Report' = n
      BY <1>4, <1>6, <1>7, <2>1 DEF Report
    <2> QED
      BY <1>4, <1>7, <1>8, <2>2 DEF Base
  <1>15. Filled' /\ AllPushed'
    BY <1>1, <1>2, <1>6, <1>8, <1>14 DEF Filled, AllPushed
  <1> QED
    BY <1>1, <1>5, <1>9, <1>10, <1>11, <1>12, <1>13, <1>15 DEF IInv, Phase

-----------------------------------------------------------------------------
LEMMA InitInv == Init => IInv
  <1> SUFFICES ASSUME Init PROVE IInv
    OBVIOUS
  <1>0. ctl = << >> /\ slots = << >> /\ Len(ctl) = 0 /\ Len(slots) = 0
        /\ pc = "run" /\ stack_idx = 0
    BY DEF Init
  <1>1. Unused \in Element
    BY DEF Unused, Element, Types
  <1>2. TypeOK
    <2>1. ctl \in Seq(Region) /\ Len(ctl) <= MaxDepth
      BY SizeAssumption DEF Init
    <2>2. stack \in [1..STACK_SIZE -> Element]
      BY <1>1 DEF Init
    <2>3. stack_idx \in 0..STACK_SIZE /\ stack_backup \in 0..STACK_SIZE
      BY SizeAssumption DEF Init
    <2>4. /\ pc \in {"run", "unwind", "exit", "astray"} /\ stack_unwinding \in BOOLEAN
          /\ exc_obj \in Klasses \union {NoKlass}
      BY DEF Init
    <2>5. slots \in Seq(Slot) /\ Len(slots) = Len(ctl)
      BY <1>0
    <2> QED
      BY <2>1, <2>2, <2>3, <2>4, <2>5, Zenon DEF TypeOK
  <1>3. Framed(ctl) /\ Numbered(ctl, slots) /\ Owned /\ Intact /\ Overwritten
    BY <1>0 DEF Framed, Numbered, Owned, Intact, Overwritten
  <1>4. Report = 0 /\ Base = 0
    BY <1>0 DEF Report, Base
  <1>5. Phase
    BY <1>0, <1>4 DEF Phase, Filled, AllPushed
  <1> QED
    BY <1>2, <1>3, <1>5 DEF IInv

(* One case per action.                                                     *)
LEMMA NextInv == IInv /\ [Next]_vars => IInv'
  <1> SUFFICES ASSUME IInv, [Next]_vars PROVE IInv'
    OBVIOUS
  <1>1. ASSUME NEW anon \in BOOLEAN, Call(anon) PROVE IInv'
    BY <1>1, CallInv
  <1>2. CASE Try(CATCH_ALL, NoKlass)
    BY <1>2, TryInv DEF Types, ANNOT, CATCH_ALL
  <1>3. CASE Try(FINALLY, NoKlass)
    BY <1>3, TryInv DEF Types, ANNOT, FINALLY
  <1>4. ASSUME NEW k \in Klasses, Try(CATCH, k) PROVE IInv'
    BY <1>4, TryInv DEF Types, ANNOT, CATCH
  <1>5. CASE EndTry
    BY <1>5, EndTryInv
  <1>6. CASE EndCatch
    BY <1>6, EndCatchInv
  <1>7. CASE EndFinally
    BY <1>7, EndFinallyInv
  <1>8. CASE Return
    BY <1>8, ReturnInv
  <1>9. ASSUME NEW k \in Klasses, exc_raise_object(k) PROVE IInv'
    BY <1>9, RaiseInv
  <1>10. CASE Unwind
    BY <1>10, PopIgnoredInv, PopCatchInv, PopFinallyInv, ExitInv, UncaughtToSInv
       DEF Unwind
  <1>11. CASE EndReport
    BY <1>11, ExitInv
  <1>12. CASE UNCHANGED vars
    <2>1. UNCHANGED <<pc, ctl, slots, stack, stack_idx, stack_unwinding, exc_obj,
                      stack_backup>>
      BY <1>12 DEF vars
    <2>2. Phase'
      BY <2>1 DEF IInv, Phase, Filled, AllPushed, Base, Report, Strayed
    <2>3. /\ pc \in {"run", "unwind", "exit", "astray"}
          /\ stack_idx \in 0..STACK_SIZE /\ stack_idx <= stack_idx
          /\ stack_backup \in 0..STACK_SIZE /\ stack_backup <= stack_backup
          /\ stack_unwinding \in BOOLEAN /\ exc_obj \in Klasses \union {NoKlass}
      BY TypeFacts DEF IInv, TypeOK
    <2> QED
      BY <2>1, <2>2, <2>3, Stay
  <1> QED
    BY <1>1, <1>2, <1>3, <1>4, <1>5, <1>6, <1>7, <1>8, <1>9, <1>10, <1>11, <1>12 DEF Next

(* The inductive invariant holds in every reachable state.                  *)
THEOREM Invariance == Spec => []IInv
  BY InitInv, NextInv, PTL DEF Spec

(* Types, and the bounds of the indexes of vm/stack.c as long as its pushes *)
(* stay within stack[] (Room: the code does not check it).                  *)
THEOREM TypeCorrect == Spec => []TypeOK
  <1>1. IInv => TypeOK
    BY DEF IInv
  <1> QED
    BY <1>1, Invariance, PTL

(* The handler stack mirrors the control context, in the code of the        *)
(* program as in to_s() of a report: every jump buffer that                 *)
(* stack_continue_unwinding() can use belongs to an active try block, but   *)
(* for a report's own exception after a finally block has run.              *)
THEOREM MirrorCorrect == Spec => []HandlersMirror
  BY Mirrored, Invariance, PTL

(* stack_pop() and stack_annot_pop() drop what the block or the function    *)
(* that ends has pushed; their assertions hold.                             *)
THEOREM PopsOwnCorrect == Spec => []PopsOwn
  <1>1. IInv => PopsOwn
    <2> SUFFICES ASSUME IInv, pc = "run", InCode
                 PROVE  /\ Top(ctl).kind = "try" =>
                             stack_idx > 0 /\ stack[stack_idx].at = Len(ctl)
                        /\ \E i \in 1..stack_idx :
                             /\ stack[i].type = ANNOT /\ stack[i].at = Top(ctl).frame
                             /\ \A j \in (i+1)..stack_idx : stack[j].type # ANNOT
      BY DEF PopsOwn
    <2>1. Base \in 0..STACK_SIZE /\ STACK_SIZE \in Nat /\ stack_idx \in 0..STACK_SIZE
      BY ReportFacts, TypeFacts
    <2>2. Top(ctl).kind = "try" => stack_idx > 0 /\ stack[stack_idx].at = Len(ctl)
      <3>1. Top(ctl).kind = "try" =>
               stack_idx \in (Base + 1)..STACK_SIZE /\ stack[stack_idx].at = Len(ctl)
        BY OwnTop DEF InCode
      <3> QED
        BY <2>1, <3>1
    <2>3. \E i \in (Base + 1)..stack_idx :
             /\ stack[i].type = ANNOT /\ stack[i].at = Top(ctl).frame
             /\ \A j \in (i+1)..stack_idx : stack[j].type # ANNOT
      BY OwnAnnot
    <2> QED
      BY <2>1, <2>2, <2>3
  <1> QED
    BY <1>1, Invariance, PTL

-----------------------------------------------------------------------------
(* Control falls back to the first n regions, of which the last may have    *)
(* become its handler.                                                      *)
Falls(n) ==
  /\ Len(ctl') = n
  /\ \A q \in 1..(n-1) : ctl'[q] = ctl[q]
  /\ n # 0 => \/ ctl'[n] = ctl[n]
              \/ /\ ctl[n].kind # "report" /\ ctl'[n].kind # "report"
                 /\ ctl[n].h = FINALLY => ctl'[n].kind = "finally"

LEMMA FallsPrefix ==
  ASSUME IInv, NEW n \in 0..Len(ctl), BackTo(n)
  PROVE  Falls(n)
  <1>1. ctl \in Seq(Region)
    BY TypeFacts
  <1>2. Len(ctl') = n /\ \A q \in 1..n : ctl'[q] = ctl[q]
    BY <1>1, UptoFacts DEF BackTo
  <1> QED
    BY <1>2 DEF Falls

LEMMA FallsHandler ==
  ASSUME IInv, NEW n \in 1..Len(ctl), ctl[n].kind # "report",
         NEW k \in Klasses \union {NoKlass},
         ctl' = Cut(ctl, n, HandlerRegion(ctl[n], k))
  PROVE  Falls(n)
  <1> DEFINE r == HandlerRegion(ctl[n], k)
  <1>1. ctl \in Seq(Region) /\ ctl[n] \in Region
    BY TypeFacts
  <1>2. /\ r \in Region /\ r.kind \in {"catch", "finally"}
        /\ r.kind = "finally" <=> ctl[n].h = FINALLY
    BY <1>1, RegionTypes, HandlerFields
  <1> HIDE DEF r
  <1>3. Len(ctl') = n /\ ctl'[n] = r /\ \A q \in 1..(n-1) : ctl'[q] = ctl[q]
    <2>1. ctl' = Cut(ctl, n, r)
      BY DEF r
    <2>2. ctl \in Seq(Region) /\ r \in Region
      BY <1>1, <1>2
    <2>3. /\ Len(Cut(ctl, n, r)) = n /\ Cut(ctl, n, r)[n] = r
          /\ \A q \in 1..(n-1) : Cut(ctl, n, r)[q] = ctl[q]
      BY <2>2, CutRegion, ZenonT(60)
    <2>4. PICK c : c = Cut(ctl, n, r)
      OBVIOUS
    <2>5. ctl' = c
      BY <2>1, <2>4
    <2>6. Len(c) = n /\ c[n] = r /\ \A q \in 1..(n-1) : c[q] = ctl[q]
      BY <2>3, <2>4
    <2> QED
      BY <2>5, <2>6
  <1> QED
    BY <1>2, <1>3 DEF Falls

LEMMA EndTryFalls ==
  ASSUME IInv, EndTry
  PROVE  /\ ctl # << >> /\ Top(ctl).kind = "try"
         /\ Falls(IF Top(ctl).h = FINALLY THEN Len(ctl) ELSE Len(ctl) - 1)
  <1>1. /\ ctl \in Seq(Region) /\ ctl # << >> /\ Framed(ctl) /\ Len(ctl) \in Nat \ {0}
        /\ Top(ctl) = ctl[Len(ctl)] /\ Top(ctl).kind = "try"
    BY TypeFacts DEF IInv, EndTry, InRegion, Top
  <1>2. CASE Top(ctl).h = FINALLY
    <2>1. ctl' = Cut(ctl, Len(ctl), HandlerRegion(ctl[Len(ctl)], NoKlass))
      BY <1>1, <1>2, PopFacts DEF EndTry, Cut
    <2>2. Len(ctl) \in 1..Len(ctl) /\ ctl[Len(ctl)].kind # "report"
      BY <1>1
    <2>3. Falls(Len(ctl))
      BY <2>1, <2>2, FallsHandler
    <2> QED
      BY <1>1, <1>2, <2>3
  <1>3. CASE Top(ctl).h # FINALLY
    <2>1. BackTo(Len(ctl) - 1) /\ Len(ctl) - 1 \in 0..Len(ctl)
      BY <1>1, <1>3 DEF EndTry
    <2>2. Falls(Len(ctl) - 1)
      BY <2>1, FallsPrefix
    <2> QED
      BY <1>1, <1>3, <2>2
  <1> QED
    BY <1>2, <1>3

LEMMA DropTopFalls ==
  ASSUME IInv, EndCatch \/ EndFinally, BackTo(Len(ctl) - 1)
  PROVE  /\ ctl # << >> /\ Top(ctl).kind \in {"catch", "finally"}
         /\ Falls(Len(ctl) - 1)
  <1>1. ctl # << >> /\ Top(ctl).kind \in {"catch", "finally"} /\ ctl \in Seq(Region)
    BY TypeFacts DEF EndCatch, EndFinally, InRegion
  <1>2. Len(ctl) - 1 \in 0..Len(ctl)
    BY <1>1
  <1> QED
    BY <1>1, <1>2, FallsPrefix

LEMMA ReturnFalls ==
  ASSUME IInv, Return
  PROVE  /\ pc = "run" /\ Top(ctl).frame \in 1..Len(ctl)
         /\ ctl[Top(ctl).frame].kind = "func"
         /\ Falls(Top(ctl).frame - 1)
  <1> DEFINE f == Top(ctl).frame
  <1>1. pc = "run" /\ InCode /\ BackTo(f - 1)
    BY DEF Return
  <1>2. f \in (Report + 1)..Len(ctl) /\ ctl[f].kind = "func"
    BY <1>1, OwnAnnot
  <1>3. Report \in 0..Len(ctl) /\ Len(ctl) \in Nat
    BY ReportFacts, TypeFacts
  <1> HIDE DEF f
  <1>4. f \in 1..Len(ctl) /\ f - 1 \in 0..Len(ctl)
    BY <1>2, <1>3
  <1>5. Falls(f - 1)
    BY <1>1, <1>4, FallsPrefix
  <1> QED
    BY <1>1, <1>2, <1>4, <1>5 DEF f

(* longjmp() lands at the region it has the jump buffer of, or nowhere.     *)
LEMMA LandFalls ==
  ASSUME IInv, PopCatch \/ PopFinally
  PROVE  /\ pc = "unwind" /\ stack_idx > 0 /\ Wants(stack[stack_idx])
         /\ \/ Live(stack_idx) /\ pc' = "run" /\ Falls(stack[stack_idx].at)
            \/ pc' = "astray" /\ UNCHANGED ctl
  <1>1. pc = "unwind" /\ stack_idx > 0 /\ Wants(stack[stack_idx])
    BY DEF PopCatch, PopFinally, Popping, Wants
  <1>2. PICK k \in Klasses \union {NoKlass} : longjmp(k)
    BY TypeFacts DEF PopCatch, PopFinally
  <1>3. CASE Live(stack_idx)
    <2> DEFINE n == stack[stack_idx].at
    <2>1. n \in 1..Len(ctl) /\ ctl[n].kind # "report"
      BY <1>3 DEF Live
    <2>2. ctl' = Cut(ctl, n, HandlerRegion(ctl[n], k)) /\ pc' = "run"
      BY <1>2, <1>3 DEF longjmp, Cut
    <2>3. Falls(n)
      BY <2>1, <2>2, FallsHandler
    <2> QED
      BY <1>1, <1>3, <2>2, <2>3
  <1>4. CASE ~Live(stack_idx)
    BY <1>1, <1>2, <1>4 DEF longjmp
  <1> QED
    BY <1>3, <1>4

-----------------------------------------------------------------------------
(***************************************************************************)
(* What unwinding has passed by.  ReportsOver: a report begins when every  *)
(* try/finally outside has been left.  PassedBy: the regions whose element *)
(* has been popped do not want the exception.                              *)
(***************************************************************************)
IsFinally(r) == r.kind = "try" /\ r.h = FINALLY

ReportsOver ==
  \A r \in 1..Len(ctl) : ctl[r].kind = "report" =>
    \A p \in 1..(r-1) : ~IsFinally(ctl[p])

PassedBy ==
  pc = "unwind" =>
    \A p \in (Report + 1)..Len(ctl) :
      slots[p].index > stack_idx => ~Accepts(ctl[p], exc_obj)

Rejected == ReportsOver /\ PassedBy

LEMMA PassedByStart ==
  ASSUME IInv, pc = "run", UNCHANGED <<ctl, slots, stack_idx>>
  PROVE  PassedBy'
  <1>1. Report' = Report
    BY DEF Report
  <1>2. /\ Report \in 0..Len(ctl) /\ Len(ctl) \in Nat /\ stack_idx \in 0..STACK_SIZE
        /\ STACK_SIZE \in Nat
        /\ \A p \in 1..Len(ctl) : slots[p].index \in 0..STACK_SIZE
    BY ReportFacts, TypeFacts
  <1> SUFFICES ASSUME NEW p \in (Report + 1)..Len(ctl), slots[p].index > stack_idx
               PROVE  ctl[p].kind # "try"
    BY <1>1 DEF PassedBy, Accepts
  <1>3. ~Pushing(ctl[p])
    <2>1. slots[p].index \in 0..STACK_SIZE
      BY <1>2
    <2> QED
      BY <1>2, <2>1 DEF IInv, Phase, AllPushed
  <1> QED
    BY <1>3 DEF Pushing

LEMMA PassedByPop ==
  ASSUME IInv, PassedBy, PopIgnored
  PROVE  PassedBy'
  <1>1. /\ pc = "unwind" /\ stack_idx > 0 /\ stack_idx' = stack_idx - 1
        /\ ~Wants(stack[stack_idx]) /\ UNCHANGED <<ctl, slots, stack, exc_obj>>
    BY DEF PopIgnored, Popping
  <1>2. /\ Report \in 0..Len(ctl) /\ Len(ctl) \in Nat /\ stack_idx \in 0..STACK_SIZE
        /\ STACK_SIZE \in Nat
        /\ \A p \in 1..Len(ctl) : ctl[p] \in Region /\ slots[p].index \in 0..STACK_SIZE
    BY ReportFacts, TypeFacts
  <1>3. Report' = Report
    BY <1>1 DEF Report
  <1> SUFFICES ASSUME NEW p \in (Report + 1)..Len(ctl), slots[p].index > stack_idx - 1,
                      ctl[p].kind = "try"
               PROVE  ~Accepts(ctl[p], exc_obj)
    BY <1>1, <1>3 DEF PassedBy, Accepts
  <1>4. p \in 1..Len(ctl) /\ slots[p].index \in 0..STACK_SIZE /\ ctl[p] \in Region
    BY <1>2
  <1>5. CASE slots[p].index > stack_idx
    BY <1>1, <1>5 DEF PassedBy
  <1>6. CASE slots[p].index = stack_idx
    <2>1. stack[stack_idx].type = ctl[p].h /\ stack[stack_idx].exc_type = ctl[p].klass
      BY <1>6, OwnElement DEF Pushing, Registers
    <2>2. ctl[p].h \in Types /\ ctl[p].h # ANNOT
      BY <1>4 DEF Region, IInv, Framed, FramedAt, Frames
    <2>3. ctl[p].h = CATCH /\ ~obj_eq_klass(exc_obj, ctl[p].klass)
      BY <1>1, <2>1, <2>2 DEF Wants, Types
    <2> QED
      BY <2>3 DEF Accepts
  <1> QED
    BY <1>2, <1>4, <1>5, <1>6

LEMMA ReportsOverEnter ==
  ASSUME IInv, ReportsOver, NEW r \in Region, ctl' = Append(ctl, r),
         r.kind = "report" => \A p \in 1..Len(ctl) : ~IsFinally(ctl[p])
  PROVE  ReportsOver'
  <1>1. ctl \in Seq(Region) /\ Len(ctl) \in Nat
    BY TypeFacts
  <1>2. /\ Len(ctl') = Len(ctl) + 1 /\ ctl'[Len(ctl) + 1] = r
        /\ \A q \in 1..Len(ctl) : ctl'[q] = ctl[q]
    BY <1>1, AppendFacts
  <1> SUFFICES ASSUME NEW x \in 1..(Len(ctl) + 1), ctl'[x].kind = "report",
                      NEW p \in 1..(x-1)
               PROVE  ~IsFinally(ctl'[p])
    BY <1>2 DEF ReportsOver
  <1>3. p \in 1..Len(ctl) /\ ctl'[p] = ctl[p]
    BY <1>1, <1>2
  <1>4. CASE x = Len(ctl) + 1
    BY <1>2, <1>3, <1>4
  <1>5. CASE x \in 1..Len(ctl)
    BY <1>2, <1>3, <1>5 DEF ReportsOver
  <1> QED
    BY <1>1, <1>4, <1>5

LEMMA ReportsOverFalls ==
  ASSUME IInv, ReportsOver, NEW n \in 0..Len(ctl), Falls(n)
  PROVE  ReportsOver'
  <1>1. Len(ctl) \in Nat
    BY TypeFacts
  <1> SUFFICES ASSUME NEW x \in 1..n, ctl'[x].kind = "report", NEW p \in 1..(x-1)
               PROVE  ~IsFinally(ctl'[p])
    BY DEF ReportsOver, Falls
  <1>2. ctl[x].kind = "report" /\ ctl'[p] = ctl[p] /\ x \in 1..Len(ctl)
    BY <1>1 DEF Falls
  <1> QED
    BY <1>2 DEF ReportsOver

(* When nothing is left on the stack, no try/finally is left either.        *)
LEMMA NoFinallyLeft ==
  ASSUME IInv, Rejected, NothingLeft, NEW p \in 1..Len(ctl)
  PROVE  ~IsFinally(ctl[p])
  <1>1. /\ Report \in 0..Len(ctl) /\ Len(ctl) \in Nat
        /\ Report # 0 => ctl[Report].kind = "report"
        /\ slots[p].index \in 0..STACK_SIZE /\ STACK_SIZE \in Nat
        /\ ctl[p].kind # "report" => slots[p].index \in 1..STACK_SIZE
    BY ReportFacts, TypeFacts
  <1>2. pc = "unwind" /\ stack_idx = 0
    BY DEF NothingLeft
  <1>3. CASE p < Report
    <2>1. Report \in 1..Len(ctl) /\ p \in 1..(Report - 1)
      BY <1>1, <1>3
    <2> QED
      BY <1>1, <2>1 DEF Rejected, ReportsOver
  <1>4. CASE p = Report
    BY <1>1, <1>4 DEF IsFinally
  <1>5. CASE p > Report
    <2>1. p \in (Report + 1)..Len(ctl)
      BY <1>1, <1>5
    <2>2. ctl[p].kind # "report" => ~Accepts(ctl[p], exc_obj)
      BY <1>1, <1>2, <2>1 DEF Rejected, PassedBy
    <2> QED
      BY <2>2 DEF IsFinally, Accepts, CATCH, FINALLY
  <1> QED
    BY <1>1, <1>3, <1>4, <1>5

LEMMA RejectedNext == IInv /\ Rejected /\ [Next]_vars => Rejected'
  <1> SUFFICES ASSUME IInv, Rejected, [Next]_vars PROVE Rejected'
    OBVIOUS
  <1>0. /\ ReportsOver /\ PassedBy /\ ctl \in Seq(Region) /\ Len(ctl) \in Nat
    BY TypeFacts DEF Rejected
  <1>1. ASSUME NEW anon \in BOOLEAN, Call(anon) PROVE Rejected'
    <2> DEFINE r == FuncRegion(Len(ctl) + 1, anon)
    <2>1. r \in Region /\ r.kind = "func" /\ ctl' = Append(ctl, r) /\ pc' = "run"
      BY <1>0, <1>1, RegionTypes DEF Call, Enters, FuncRegion
    <2> HIDE DEF r
    <2> QED
      BY <1>0, <2>1, ReportsOverEnter DEF Rejected, PassedBy
  <1>2. ASSUME NEW h \in Types, NEW k \in Klasses \union {NoKlass}, Try(h, k)
        PROVE  Rejected'
    <2> DEFINE r == TryRegion(Top(ctl), h, k)
    <2>1. Top(ctl) \in Region
      BY <1>0, <1>2 DEF Try, InCode, Top
    <2>2. r \in Region /\ r.kind = "try" /\ ctl' = Append(ctl, r) /\ pc' = "run"
      BY <1>2, <2>1, RegionTypes DEF Try, Enters, TryRegion
    <2> HIDE DEF r
    <2> QED
      BY <1>0, <2>2, ReportsOverEnter DEF Rejected, PassedBy
  <1>3. ASSUME NEW n \in 0..Len(ctl), Falls(n), pc' = "run" PROVE Rejected'
    BY <1>0, <1>3, ReportsOverFalls DEF Rejected, PassedBy
  <1>4. CASE EndTry
    <2>1. /\ Falls(IF Top(ctl).h = FINALLY THEN Len(ctl) ELSE Len(ctl) - 1)
          /\ ctl # << >>
      BY <1>4, EndTryFalls
    <2>2. pc' = "run"
      BY <1>4 DEF EndTry, InRegion
    <2>3. Len(ctl) \in 0..Len(ctl) /\ Len(ctl) - 1 \in 0..Len(ctl)
      BY <1>0, <2>1
    <2> QED
      BY <1>3, <2>1, <2>2, <2>3
  <1>5. ASSUME EndCatch \/ EndFinally, BackTo(Len(ctl) - 1), pc' = "run"
        PROVE  Rejected'
    <2>1. ctl # << >> /\ Falls(Len(ctl) - 1)
      BY <1>5, DropTopFalls
    <2>2. Len(ctl) - 1 \in 0..Len(ctl)
      BY <1>0, <2>1
    <2> QED
      BY <1>3, <1>5, <2>1, <2>2
  <1>6. CASE EndCatch
    BY <1>5, <1>6 DEF EndCatch, InRegion
  <1>7. CASE EndFinally
    <2>1. CASE stack_unwinding
      <3>1. pc = "run" /\ UNCHANGED <<ctl, slots, stack_idx>>
        BY <1>7, <2>1 DEF EndFinally, InRegion
      <3>2. PassedBy'
        BY <3>1, PassedByStart
      <3> QED
        BY <1>0, <3>1, <3>2 DEF Rejected, ReportsOver
    <2>2. CASE ~stack_unwinding
      BY <1>5, <1>7, <2>2 DEF EndFinally, InRegion
    <2> QED
      BY <2>1, <2>2
  <1>8. CASE Return
    <2> DEFINE f == Top(ctl).frame
    <2>1. f \in 1..Len(ctl) /\ Falls(f - 1)
      BY <1>8, ReturnFalls
    <2>2. pc' = "run"
      BY <1>8 DEF Return
    <2> HIDE DEF f
    <2>3. f - 1 \in 0..Len(ctl)
      BY <1>0, <2>1
    <2> QED
      BY <1>3, <2>1, <2>2, <2>3
  <1>9. ASSUME NEW k \in Klasses, exc_raise_object(k) PROVE Rejected'
    <2>1. pc = "run" /\ UNCHANGED <<ctl, slots, stack_idx>>
      BY <1>9 DEF exc_raise_object
    <2>2. PassedBy'
      BY <2>1, PassedByStart
    <2> QED
      BY <1>0, <2>1, <2>2 DEF Rejected, ReportsOver
  <1>10. CASE PopIgnored
    BY <1>0, <1>10, PassedByPop DEF PopIgnored, Rejected, ReportsOver
  <1>11. CASE PopCatch \/ PopFinally
    <2>1. CASE pc' = "astray" /\ UNCHANGED ctl
      BY <1>0, <2>1 DEF Rejected, ReportsOver, PassedBy
    <2>2. CASE Live(stack_idx) /\ pc' = "run" /\ Falls(stack[stack_idx].at)
      <3>1. stack[stack_idx].at \in 0..Len(ctl)
        BY <2>2 DEF Live
      <3> QED
        BY <1>3, <2>2, <3>1
    <2> QED
      BY <1>11, <2>1, <2>2, LandFalls
  <1>12. CASE Uncaught \/ EndReport
    BY <1>0, <1>12 DEF Uncaught, EndReport, Rejected, ReportsOver, PassedBy
  <1>13. CASE UncaughtToS
    <2> DEFINE r == ReportRegion(Len(ctl) + 1)
    <2>1. r \in Region /\ ctl' = Append(ctl, r) /\ pc' = "run" /\ NothingLeft
      BY <1>0, <1>13, RegionTypes DEF UncaughtToS
    <2>2. \A p \in 1..Len(ctl) : ~IsFinally(ctl[p])
      BY <2>1, NoFinallyLeft
    <2> HIDE DEF r
    <2> QED
      BY <1>0, <2>1, <2>2, ReportsOverEnter DEF Rejected, PassedBy
  <1>14. CASE UNCHANGED vars
    BY <1>0, <1>14 DEF vars, Rejected, ReportsOver, PassedBy, Report
  <1> QED
    BY <1>1, <1>2, <1>4, <1>6, <1>7, <1>8, <1>9, <1>10, <1>11, <1>12, <1>13, <1>14
       DEF Next, Unwind, Types, CATCH_ALL, CATCH, FINALLY

(* Unwinding passes by no region that wants the exception.                  *)
THEOREM RejectedCorrect == Spec => []Rejected
  <1>1. Init => Rejected
    BY DEF Init, Rejected, ReportsOver, PassedBy
  <1> QED
    BY <1>1, RejectedNext, Invariance, PTL DEF Spec

(* Outside of reports, or inside one, longjmp() lands at the innermost      *)
(* region that wants the exception; below a report, at one that has been    *)
(* passed by.  No try/finally is left above.                                *)
LEMMA LandsInnermost ==
  ASSUME IInv, Rejected, pc = "unwind", stack_idx > 0, Live(stack_idx)
  PROVE  LET a == stack[stack_idx].at
         IN  \A p \in (a+1)..Len(ctl) :
               /\ ~IsFinally(ctl[p])
               /\ p > Report => ~Accepts(ctl[p], exc_obj)
  <1> DEFINE i == stack_idx
             a == stack[i].at
  <1>1. a \in 1..Len(ctl) /\ ctl[a].kind # "report" /\ slots[a].index = i
    BY DEF Live
  <1>2. /\ Report \in 0..Len(ctl) /\ Len(ctl) \in Nat /\ Base \in 0..STACK_SIZE
        /\ STACK_SIZE \in Nat /\ i \in 1..STACK_SIZE
        /\ Report # 0 => ctl[Report].kind = "report"
    BY ReportFacts, TypeFacts
  <1>0. \A p \in 1..Len(ctl) : slots[p].index \in 0..STACK_SIZE
    BY TypeFacts
  <1> HIDE DEF i
  <1>3. i > Base => a > Report /\ Pushing(ctl[a])
    <2> SUFFICES ASSUME i > Base PROVE a > Report /\ Pushing(ctl[a])
      OBVIOUS
    <2>1. i \in (Base + 1)..stack_idx
      BY <1>2 DEF i
    <2>2. PICK p \in (Report + 1)..Len(ctl) : Pushing(ctl[p]) /\ slots[p].index = i
      BY <2>1 DEF IInv, Phase, Filled
    <2>3. a = p
      BY <2>2, OwnElement
    <2> QED
      BY <1>2, <2>2, <2>3
  <1> HIDE DEF a
  <1>4. ASSUME NEW p \in (a+1)..Len(ctl), p > Report
        PROVE  ~Accepts(ctl[p], exc_obj)
    <2> SUFFICES ASSUME ctl[p].kind = "try" PROVE ~Accepts(ctl[p], exc_obj)
      BY DEF Accepts
    <2>1. p \in (Report + 1)..Len(ctl) /\ p \in 1..Len(ctl)
      BY <1>1, <1>2, <1>4
    <2>2. slots[p].index > i
      <3>1. CASE i > Base
        <4>1. a \in (Report + 1)..(p - 1) /\ Pushing(ctl[a])
          BY <1>1, <1>2, <1>3, <1>4, <3>1
        <4> QED
          BY <1>0, <1>1, <1>2, <2>1, <4>1, Increasing
      <3>2. CASE i <= Base
        <4>1. slots[p].index > Base
          BY <1>2, <2>1, OwnElement DEF Pushing
        <4> QED
          BY <1>0, <1>2, <2>1, <3>2, <4>1
      <3> QED
        BY <1>2, <3>1, <3>2
    <2> QED
      BY <2>1, <2>2 DEF i, Rejected, PassedBy
  <1>5. ASSUME NEW p \in (a+1)..Len(ctl)
        PROVE  ~IsFinally(ctl[p])
    <2>1. CASE p > Report
      BY <1>4, <2>1 DEF IsFinally, Accepts, CATCH, FINALLY
    <2>2. CASE p = Report
      BY <1>1, <1>2, <2>2 DEF IsFinally
    <2>3. CASE p < Report
      <3>1. Report \in 1..Len(ctl) /\ p \in 1..(Report - 1)
        BY <1>1, <1>2, <2>3
      <3> QED
        BY <1>2, <3>1 DEF Rejected, ReportsOver
    <2> QED
      BY <1>1, <1>2, <2>1, <2>2, <2>3
  <1> QED
    BY <1>4, <1>5 DEF i, a

-----------------------------------------------------------------------------
(* The try/finally at p is kept, becomes its finally block, or is in a      *)
(* function that returns.                                                   *)
Kept(p) ==
  ctl[p].kind = "try" /\ ctl[p].h = FINALLY =>
    \/ p <= Len(ctl') /\ ctl'[p].kind \in {"try", "finally"}
    \/ pc = "run" /\ Len(ctl') < ctl[p].frame

LEMMA KeptAppend ==
  ASSUME IInv, NEW r \in Region, ctl' = Append(ctl, r), NEW p \in 1..Len(ctl)
  PROVE  Kept(p)
  <1>1. ctl \in Seq(Region)
    BY TypeFacts
  <1>2. Len(ctl') = Len(ctl) + 1 /\ ctl'[p] = ctl[p]
    BY <1>1, AppendFacts
  <1> QED
    BY <1>1, <1>2 DEF Kept

LEMMA KeptFalls ==
  ASSUME IInv, NEW n \in 0..Len(ctl), Falls(n),
         \A q \in (n+1)..Len(ctl) : ~IsFinally(ctl[q]), NEW p \in 1..Len(ctl)
  PROVE  Kept(p)
  <1>1. Len(ctl) \in Nat
    BY TypeFacts
  <1>2. CASE p < n
    <2>1. Len(ctl') = n /\ ctl'[p] = ctl[p]
      BY <1>1, <1>2 DEF Falls
    <2> QED
      BY <1>1, <1>2, <2>1 DEF Kept
  <1>3. CASE p = n
    BY <1>1, <1>3 DEF Falls, Kept
  <1>4. CASE p > n
    <2>1. p \in (n+1)..Len(ctl)
      BY <1>1, <1>4
    <2> QED
      BY <2>1 DEF Kept, IsFinally
  <1> QED
    BY <1>1, <1>2, <1>3, <1>4

LEMMA KeptReturn ==
  ASSUME IInv, Return, NEW p \in 1..Len(ctl)
  PROVE  Kept(p)
  <1> DEFINE f == Top(ctl).frame
  <1>1. pc = "run" /\ f \in 1..Len(ctl) /\ ctl[f].kind = "func" /\ Falls(f - 1)
    BY ReturnFalls
  <1>2. Len(ctl) \in Nat
    BY TypeFacts
  <1> HIDE DEF f
  <1>3. /\ Len(ctl') = f - 1 /\ \A q \in 1..(f - 2) : ctl'[q] = ctl[q]
        /\ f - 1 # 0 => \/ ctl'[f-1] = ctl[f-1]
                        \/ ctl[f-1].h = FINALLY => ctl'[f-1].kind = "finally"
    BY <1>1, <1>2 DEF Falls
  <1>4. CASE p < f - 1
    <2>1. ctl'[p] = ctl[p]
      BY <1>1, <1>2, <1>3, <1>4
    <2> QED
      BY <1>1, <1>2, <1>3, <1>4, <2>1 DEF Kept
  <1>5. CASE p = f - 1
    BY <1>1, <1>2, <1>3, <1>5 DEF Kept
  <1>6. CASE p >= f
    <2>1. /\ ctl[p].frame \in 1..p
          /\ \A q \in (ctl[p].frame + 1)..p : ctl[q].kind \notin Frames
      BY DEF IInv, Framed, FramedAt
    <2>2. ctl[p].frame >= f
      BY <1>1, <1>2, <1>6, <2>1 DEF Frames
    <2> QED
      BY <1>1, <1>2, <1>3, <2>1, <2>2 DEF Kept
  <1> QED
    BY <1>1, <1>2, <1>4, <1>5, <1>6

LEMMA KeptLand ==
  ASSUME IInv, Rejected, PopCatch \/ PopFinally, NEW p \in 1..Len(ctl)
  PROVE  Kept(p)
  <1> DEFINE a == stack[stack_idx].at
  <1>1. /\ pc = "unwind" /\ stack_idx > 0
        /\ \/ Live(stack_idx) /\ Falls(a)
           \/ UNCHANGED ctl
    BY LandFalls
  <1>2. CASE Live(stack_idx) /\ Falls(a)
    <2>1. a \in 1..Len(ctl) /\ \A q \in (a+1)..Len(ctl) : ~IsFinally(ctl[q])
      BY <1>1, <1>2, LandsInnermost DEF Live
    <2> HIDE DEF a
    <2>2. a \in 0..Len(ctl)
      BY <2>1
    <2> QED
      BY <1>2, <2>1, <2>2, KeptFalls
  <1>3. CASE UNCHANGED ctl
    <2>1. Len(ctl) \in Nat
      BY TypeFacts
    <2> QED
      BY <1>3, <2>1 DEF Kept
  <1> QED
    BY <1>1, <1>2, <1>3

LEMMA KeptNext ==
  ASSUME IInv, Rejected, Next, NEW p \in 1..Len(ctl)
  PROVE  Kept(p)
  <1>0. ctl \in Seq(Region) /\ Len(ctl) \in Nat
    BY TypeFacts
  <1>1. ASSUME NEW anon \in BOOLEAN, Call(anon) PROVE Kept(p)
    BY <1>0, <1>1, RegionTypes, KeptAppend DEF Call, Enters
  <1>2. ASSUME NEW h \in Types, NEW k \in Klasses \union {NoKlass}, Try(h, k)
        PROVE  Kept(p)
    <2>1. Top(ctl) \in Region
      BY <1>0, <1>2 DEF Try, InCode, Top
    <2> QED
      BY <1>2, <2>1, RegionTypes, KeptAppend DEF Try, Enters
  <1>3. CASE UncaughtToS
    BY <1>0, <1>3, RegionTypes, KeptAppend DEF UncaughtToS
  <1>4. CASE EndTry
    <2> DEFINE n == IF Top(ctl).h = FINALLY THEN Len(ctl) ELSE Len(ctl) - 1
    <2>1. ctl # << >> /\ Top(ctl).kind = "try" /\ Falls(n)
      BY <1>4, EndTryFalls
    <2>2. n \in 0..Len(ctl) /\ \A q \in (n+1)..Len(ctl) : ~IsFinally(ctl[q])
      BY <1>0, <2>1 DEF Top, IsFinally
    <2> HIDE DEF n
    <2> QED
      BY <2>1, <2>2, KeptFalls
  <1>5. ASSUME EndCatch \/ EndFinally, BackTo(Len(ctl) - 1) PROVE Kept(p)
    <2>1. ctl # << >> /\ Top(ctl).kind \in {"catch", "finally"} /\ Falls(Len(ctl) - 1)
      BY <1>5, DropTopFalls
    <2>2. /\ Len(ctl) - 1 \in 0..Len(ctl)
          /\ \A q \in (Len(ctl) - 1 + 1)..Len(ctl) : ~IsFinally(ctl[q])
      BY <1>0, <2>1 DEF Top, IsFinally
    <2> QED
      BY <2>1, <2>2, KeptFalls
  <1>6. CASE ctl' = ctl
    BY <1>0, <1>6 DEF Kept
  <1>7. CASE EndCatch
    BY <1>5, <1>7 DEF EndCatch
  <1>8. CASE EndFinally
    BY <1>5, <1>6, <1>8 DEF EndFinally
  <1>9. CASE Return
    BY <1>9, KeptReturn
  <1>10. CASE PopCatch \/ PopFinally
    BY <1>10, KeptLand
  <1> QED
    BY <1>1, <1>2, <1>3, <1>4, <1>6, <1>7, <1>8, <1>9, <1>10
       DEF Next, Unwind, exc_raise_object, PopIgnored, Uncaught, EndReport,
           Types, CATCH_ALL, CATCH, FINALLY

(* No exception skips a finally block, for every program, also not one that *)
(* to_s() raises in a report.                                               *)
THEOREM FinallyRunsCorrect == Spec => FinallyRuns
  <1>1. IInv /\ Rejected /\ [Next]_vars =>
          [\A p \in 1..Len(ctl) :
             ctl[p].kind = "try" /\ ctl[p].h = FINALLY =>
               \/ p <= Len(ctl') /\ ctl'[p].kind \in {"try", "finally"}
               \/ pc = "run" /\ Len(ctl') < ctl[p].frame]_vars
    BY KeptNext DEF Kept
  <1> QED
    BY <1>1, Invariance, RejectedCorrect, PTL DEF Spec, FinallyRuns

(* What makes UnwindingEnds true once the loop of stack_continue_unwinding()*)
(* goes on: every turn leaves the loop, or leaves a smaller natural number  *)
(* of elements to pop.                                                      *)
UnwindingAdvances ==
  [][pc = "unwind" =>
       \/ pc' \in {"run", "exit", "astray"}
       \/ stack_idx \in Nat /\ stack_idx' \in 0..stack_idx - 1]_vars

(* Unwinding cannot go on for ever, for every program.                      *)
THEOREM UnwindingAdvancesCorrect == Spec => UnwindingAdvances
  <1>1. IInv /\ [Next]_vars =>
          [pc = "unwind" =>
             \/ pc' \in {"run", "exit", "astray"}
             \/ stack_idx \in Nat /\ stack_idx' \in 0..stack_idx - 1]_vars
    <2> SUFFICES ASSUME IInv, Next, pc = "unwind"
                 PROVE  \/ pc' \in {"run", "exit", "astray"}
                        \/ stack_idx \in Nat /\ stack_idx' \in 0..stack_idx - 1
      OBVIOUS
    <2>1. stack_idx \in Nat
      BY SizeAssumption DEF IInv, TypeOK
    <2>2. Unwind
      BY DEF Next, Call, Try, EndTry, EndCatch, EndFinally, Return, InRegion,
             exc_raise_object, EndReport
    <2>3. CASE PopIgnored
      BY <2>1, <2>3 DEF PopIgnored, Popping
    <2>4. CASE PopCatch \/ PopFinally
      BY <2>4, LandFalls
    <2>5. CASE Uncaught \/ UncaughtToS
      BY <2>5 DEF Uncaught, UncaughtToS
    <2> QED
      BY <2>2, <2>3, <2>4, <2>5 DEF Unwind
  <1> QED
    BY <1>1, Invariance, PTL DEF Spec, UnwindingAdvances
-----------------------------------------------------------------------------
(***************************************************************************)
(* With plain finally blocks, ExcStack implements TryCatch.  The flag      *)
(* stack_unwinding is one per thread, where the semantics wants one per    *)
(* finally block; FlagInv says why one is enough for such programs: at     *)
(* most one finally block is interrupting an exception, it holds the       *)
(* exception of exc_obj, and only calls are nested in it.  Such programs   *)
(* raise objects with a text, so that no report runs code.                 *)
(***************************************************************************)
Plain == PlainFinally /\ ~ToS

NoReports == \A p \in 1..Len(ctl) : ctl[p].kind # "report"

LEMMA NoReportsEnter ==
  ASSUME IInv, NoReports, NEW r \in Region, r.kind # "report", ctl' = Append(ctl, r)
  PROVE  NoReports'
  <1>1. ctl \in Seq(Region) /\ Len(ctl) \in Nat
    BY TypeFacts
  <1>2. /\ Len(ctl') = Len(ctl) + 1 /\ ctl'[Len(ctl) + 1] = r
        /\ \A q \in 1..Len(ctl) : ctl'[q] = ctl[q]
    BY <1>1, AppendFacts
  <1> QED
    BY <1>1, <1>2 DEF NoReports

LEMMA NoReportsFalls ==
  ASSUME IInv, NoReports, NEW n \in 0..Len(ctl), Falls(n)
  PROVE  NoReports'
  <1>1. Len(ctl) \in Nat
    BY TypeFacts
  <1> SUFFICES ASSUME NEW p \in 1..n PROVE ctl'[p].kind # "report"
    BY DEF NoReports, Falls
  <1>2. p \in 1..Len(ctl) /\ n # 0
    BY <1>1
  <1>3. ctl[p].kind # "report"
    BY <1>2 DEF NoReports
  <1>4. ctl'[p] = ctl[p] \/ ctl'[p].kind # "report"
    BY <1>1, <1>2 DEF Falls
  <1> QED
    BY <1>3, <1>4

LEMMA NoReportsNext == ~ToS /\ IInv /\ NoReports /\ [Next]_vars => NoReports'
  <1> SUFFICES ASSUME ~ToS, IInv, NoReports, [Next]_vars PROVE NoReports'
    OBVIOUS
  <1>0. ctl \in Seq(Region) /\ Len(ctl) \in Nat
    BY TypeFacts
  <1>1. ASSUME NEW anon \in BOOLEAN, Call(anon) PROVE NoReports'
    <2> DEFINE r == FuncRegion(Len(ctl) + 1, anon)
    <2>1. r \in Region /\ r.kind = "func" /\ ctl' = Append(ctl, r)
      BY <1>0, <1>1, RegionTypes DEF Call, Enters, FuncRegion
    <2> HIDE DEF r
    <2> QED
      BY <2>1, NoReportsEnter
  <1>2. ASSUME NEW h \in Types, NEW k \in Klasses \union {NoKlass}, Try(h, k)
        PROVE  NoReports'
    <2> DEFINE r == TryRegion(Top(ctl), h, k)
    <2>1. Top(ctl) \in Region
      BY <1>0, <1>2 DEF Try, InCode, Top
    <2>2. r \in Region /\ r.kind = "try" /\ ctl' = Append(ctl, r)
      BY <1>2, <2>1, RegionTypes DEF Try, Enters, TryRegion
    <2> HIDE DEF r
    <2> QED
      BY <2>2, NoReportsEnter
  <1>3. CASE EndTry
    <2> DEFINE n == IF Top(ctl).h = FINALLY THEN Len(ctl) ELSE Len(ctl) - 1
    <2>1. ctl # << >> /\ Falls(n)
      BY <1>3, EndTryFalls
    <2>2. n \in 0..Len(ctl)
      BY <1>0, <2>1
    <2> HIDE DEF n
    <2> QED
      BY <2>1, <2>2, NoReportsFalls
  <1>4. ASSUME EndCatch \/ EndFinally, BackTo(Len(ctl) - 1) PROVE NoReports'
    <2>1. ctl # << >> /\ Falls(Len(ctl) - 1)
      BY <1>4, DropTopFalls
    <2>2. Len(ctl) - 1 \in 0..Len(ctl)
      BY <1>0, <2>1
    <2> QED
      BY <2>1, <2>2, NoReportsFalls
  <1>5. CASE ctl' = ctl
    BY <1>5 DEF NoReports
  <1>6. CASE EndCatch
    BY <1>4, <1>6 DEF EndCatch
  <1>7. CASE EndFinally
    BY <1>4, <1>5, <1>7 DEF EndFinally
  <1>8. CASE Return
    <2> DEFINE f == Top(ctl).frame
    <2>1. f \in 1..Len(ctl) /\ Falls(f - 1)
      BY <1>8, ReturnFalls
    <2> HIDE DEF f
    <2>2. f - 1 \in 0..Len(ctl)
      BY <1>0, <2>1
    <2> QED
      BY <2>1, <2>2, NoReportsFalls
  <1>9. CASE PopCatch \/ PopFinally
    <2> DEFINE a == stack[stack_idx].at
    <2>1. (Live(stack_idx) /\ Falls(a)) \/ ctl' = ctl
      BY <1>9, LandFalls
    <2>2. Live(stack_idx) => a \in 1..Len(ctl)
      BY DEF Live
    <2> HIDE DEF a
    <2>3. a \in 1..Len(ctl) => a \in 0..Len(ctl)
      OBVIOUS
    <2> QED
      BY <1>5, <2>1, <2>2, <2>3, NoReportsFalls
  <1>10. CASE UNCHANGED vars
    BY <1>5, <1>10 DEF vars
  <1> QED
    BY <1>1, <1>2, <1>3, <1>5, <1>6, <1>7, <1>8, <1>9, <1>10
       DEF Next, Unwind, exc_raise_object, PopIgnored, Uncaught, UncaughtToS, EndReport,
           Types, CATCH_ALL, CATCH, FINALLY

(* The report of an object that has a text runs no code of the program.     *)
THEOREM NoReportsCorrect == ~ToS => (Spec => []NoReports)
  <1> SUFFICES ASSUME ~ToS PROVE Spec => []NoReports
    OBVIOUS
  <1>1. Init => NoReports
    BY DEF Init, NoReports
  <1>2. IInv /\ NoReports /\ [Next]_vars => NoReports'
    BY NoReportsNext
  <1> QED
    BY <1>1, <1>2, Invariance, PTL DEF Spec

(* Then the whole stack is that of the regions control is in, and longjmp() *)
(* lands at the innermost one that wants the exception.                     *)
LEMMA Outside ==
  ASSUME IInv, NoReports
  PROVE  Report = 0 /\ Base = 0 /\ pc # "astray" /\ (ctl # << >> => InCode)
  <1>1. Report \in 0..Len(ctl) /\ (Report # 0 => ctl[Report].kind = "report")
        /\ (Report = 0 => Base = 0) /\ ctl \in Seq(Region)
    BY ReportFacts, TypeFacts
  <1>2. Report = 0
    BY <1>1 DEF NoReports
  <1>3. pc # "astray"
    BY DEF IInv, Phase, Strayed, NoReports
  <1>4. ctl # << >> => Len(ctl) \in 1..Len(ctl)
    BY <1>1
  <1> QED
    BY <1>1, <1>2, <1>3, <1>4 DEF InCode, Top, NoReports

LEMMA LandsOutside ==
  ASSUME IInv, Rejected, NoReports, pc = "unwind", stack_idx > 0,
         Wants(stack[stack_idx])
  PROVE  LET a == stack[stack_idx].at
         IN  /\ Live(stack_idx)
             /\ a \in 1..Len(ctl)
             /\ ctl[a] \in Region
             /\ ctl[a].h = stack[stack_idx].type
             /\ Accepts(ctl[a], exc_obj)
             /\ \A q \in (a+1)..Len(ctl) : ~Accepts(ctl[q], exc_obj)
  <1> DEFINE e == stack[stack_idx]
             a == e.at
  <1>1. Live(stack_idx)
    BY AstrayWhen DEF Strayed, NoReports
  <1>2. Report = 0 /\ Base = 0
    BY Outside
  <1>3. stack_idx \in (Base + 1)..stack_idx
    BY <1>2, TypeFacts
  <1>4. PICK p \in (Report + 1)..Len(ctl) : Pushing(ctl[p]) /\ slots[p].index = stack_idx
    BY <1>3 DEF IInv, Phase, Filled
  <1>5. a = p /\ Registers(e, ctl[p])
    BY <1>4, OwnElement
  <1>6. p \in 1..Len(ctl) /\ ctl[p] \in Region
    <2>1. p \in 1..Len(ctl)
      BY <1>2
    <2> QED
      BY <2>1, TypeFacts
  <1>7. ctl[p].h = e.type /\ ctl[p].klass = e.exc_type /\ e.type # ANNOT
    BY <1>5 DEF Registers, Wants, ANNOT, CATCH_ALL, CATCH, FINALLY
  <1>8. ctl[p].kind = "try"
    BY <1>4, <1>6, <1>7 DEF Pushing, Frames, IInv, Framed, FramedAt
  <1> HIDE DEF e
  <1>9. Accepts(ctl[p], exc_obj)
    BY <1>7, <1>8 DEF e, Accepts, Wants, CATCH, CATCH_ALL, FINALLY
  <1>10. \A q \in (a+1)..Len(ctl) : ~Accepts(ctl[q], exc_obj)
    <2>1. \A q \in (p+1)..Len(ctl) : q > Report
      BY <1>2, <1>6
    <2>2. stack[stack_idx].at = p
      BY <1>5 DEF e
    <2> QED
      BY <1>1, <1>5, <2>1, <2>2, LandsInnermost
  <1> QED
    BY <1>1, <1>5, <1>6, <1>7, <1>9, <1>10 DEF e

LEMMA BackToPop ==
  ASSUME BackTo(Len(ctl) - 1)
  PROVE  ctl' = PopTop(ctl)
  BY DEF BackTo, Upto, PopTop

-----------------------------------------------------------------------------

Holds(c, p) == c[p].pending # NoKlass

FlagInv ==
  /\ pc = "unwind" => exc_obj \in Klasses /\ stack_unwinding = TRUE
  /\ pc = "run" =>
       stack_unwinding = TRUE <=> \E p \in 1..Len(ctl) : Holds(ctl, p)
  /\ pc = "run" =>
       \A p \in 1..Len(ctl) :
         Holds(ctl, p) => ctl[p].pending = exc_obj /\ exc_obj \in Klasses
  /\ pc # "exit" =>
       \A p \in 1..Len(ctl) :
         Holds(ctl, p) => /\ ctl[p].kind = "finally"
                          /\ \A q \in (p+1)..Len(ctl) : ctl[q].kind = "func"

-----------------------------------------------------------------------------
(* Calls nest anywhere; try blocks only where nothing is interrupted.       *)
LEMMA FlagEnter ==
  ASSUME IInv, FlagInv, pc = "run", pc' = "run",
         NEW r \in Region, r.pending = NoKlass, ctl' = Append(ctl, r),
         r.kind # "func" => \A p \in 1..Len(ctl) : ~Holds(ctl, p),
         UNCHANGED <<stack_unwinding, exc_obj>>
  PROVE  FlagInv'
  <1>1. ctl \in Seq(Region) /\ Len(ctl) \in Nat
    BY DEF IInv, TypeOK
  <1>2. /\ Len(ctl') = Len(ctl) + 1 /\ ctl'[Len(ctl) + 1] = r
        /\ \A q \in 1..Len(ctl) : ctl'[q] = ctl[q]
    BY <1>1, AppendFacts
  <1>3. \A p \in 1..Len(ctl') : Holds(ctl', p) =>
                                  p \in 1..Len(ctl) /\ Holds(ctl, p)
    BY <1>1, <1>2 DEF Holds
  <1>4. \A p \in 1..Len(ctl) : Holds(ctl, p) =>
                                  p \in 1..Len(ctl') /\ Holds(ctl', p)
    BY <1>1, <1>2 DEF Holds
  <1>5. stack_unwinding' = TRUE <=> \E p \in 1..Len(ctl') : Holds(ctl', p)
    BY <1>3, <1>4 DEF FlagInv
  <1>6. \A p \in 1..Len(ctl') : Holds(ctl', p) =>
          ctl'[p].pending = exc_obj' /\ exc_obj' \in Klasses
    BY <1>2, <1>3 DEF FlagInv
  <1>7. ASSUME NEW p \in 1..Len(ctl'), Holds(ctl', p)
        PROVE  /\ ctl'[p].kind = "finally"
               /\ \A q \in (p+1)..Len(ctl') : ctl'[q].kind = "func"
    <2>1. p \in 1..Len(ctl) /\ Holds(ctl, p) /\ r.kind = "func"
      BY <1>3, <1>7
    <2>2. /\ ctl[p].kind = "finally"
          /\ \A q \in (p+1)..Len(ctl) : ctl[q].kind = "func"
      BY <2>1 DEF FlagInv
    <2> QED
      BY <1>1, <1>2, <2>1, <2>2
  <1> QED
    BY <1>5, <1>6, <1>7 DEF FlagInv

(* Falling back to the first n regions while the flag is kept: nothing that *)
(* holds an exception may be lost.                                          *)
LEMMA FlagKeep ==
  ASSUME IInv, FlagInv, pc = "run", pc' = "run",
         NEW n \in 0..Len(ctl), n <= Len(ctl'), Len(ctl') \in Nat,
         \A q \in 1..n : ctl'[q] = ctl[q],
         \A q \in (n+1)..Len(ctl') : ~Holds(ctl', q) /\ ctl'[q].kind # "func",
         Len(ctl') > n => \A p \in 1..Len(ctl) : ~Holds(ctl, p),
         \A q \in (n+1)..Len(ctl) : ~Holds(ctl, q),
         UNCHANGED <<stack_unwinding, exc_obj>>
  PROVE  FlagInv'
  <1>1. Len(ctl) \in Nat
    BY DEF IInv, TypeOK
  <1>2. \A p \in 1..Len(ctl') : Holds(ctl', p) =>
          p \in 1..n /\ Holds(ctl, p) /\ ctl'[p] = ctl[p]
    BY <1>1 DEF Holds
  <1>3. \A p \in 1..Len(ctl) : Holds(ctl, p) => p \in 1..n /\ Holds(ctl', p)
    BY <1>1 DEF Holds
  <1>4. stack_unwinding' = TRUE <=> \E p \in 1..Len(ctl') : Holds(ctl', p)
    BY <1>1, <1>2, <1>3 DEF FlagInv
  <1>5. \A p \in 1..Len(ctl') : Holds(ctl', p) =>
          ctl'[p].pending = exc_obj' /\ exc_obj' \in Klasses
    BY <1>1, <1>2 DEF FlagInv
  <1>6. ASSUME NEW p \in 1..Len(ctl'), Holds(ctl', p)
        PROVE  /\ ctl'[p].kind = "finally"
               /\ \A q \in (p+1)..Len(ctl') : ctl'[q].kind = "func"
    <2>1. p \in 1..n /\ p \in 1..Len(ctl) /\ Holds(ctl, p) /\ ctl'[p] = ctl[p]
      BY <1>1, <1>2, <1>6
    <2>2. Len(ctl') = n
      BY <2>1
    <2>3. /\ ctl[p].kind = "finally"
          /\ \A q \in (p+1)..Len(ctl) : ctl[q].kind = "func"
      BY <2>1 DEF FlagInv
    <2> QED
      BY <1>1, <2>1, <2>2, <2>3
  <1> QED
    BY <1>4, <1>5, <1>6 DEF FlagInv

(* Landing in a handler cuts off whatever was interrupted: above it there   *)
(* are calls only, and a call is no handler.                                *)
LEMMA FlagLand ==
  ASSUME IInv, Rejected, NoReports, FlagInv, PopCatch \/ PopFinally
  PROVE  FlagInv'
  <1> DEFINE a == stack[stack_idx].at
             k == IF stack[stack_idx].type = FINALLY THEN exc_obj ELSE NoKlass
             r == HandlerRegion(ctl[a], k)
             d == Append(Upto(ctl, a - 1), r)
  <1>1. pc = "unwind" /\ stack_idx > 0 /\ Wants(stack[stack_idx])
    BY DEF PopCatch, PopFinally, Popping, Wants
  <1>2. /\ Live(stack_idx) /\ a \in 1..Len(ctl) /\ ctl[a] \in Region
        /\ ctl[a].h = stack[stack_idx].type /\ ctl[a].kind = "try"
    BY <1>1, LandsOutside DEF Accepts
  <1>3. ctl \in Seq(Region) /\ Len(ctl) \in Nat
    BY DEF IInv, TypeOK
  <1>4. exc_obj \in Klasses /\ NoKlass \notin Klasses /\ stack_unwinding = TRUE
    BY <1>1, KlassAssumption DEF FlagInv
  <1>5. /\ pc' = "run" /\ exc_obj' = exc_obj /\ ctl' = d
        /\ stack_unwinding' = TRUE <=> stack[stack_idx].type = FINALLY
    <2>1. CASE PopCatch
      <3>1. stack[stack_idx].type # FINALLY /\ k = NoKlass
        BY <2>1 DEF PopCatch
      <3>2. stack_unwinding' = FALSE
        BY <2>1 DEF PopCatch
      <3>3. pc' = "run" /\ exc_obj' = exc_obj /\ ctl' = d
        BY <1>2, <2>1, <3>1 DEF PopCatch, Popping, longjmp
      <3> QED
        BY <3>1, <3>2, <3>3, Zenon
    <2>2. CASE PopFinally
      <3>1. stack[stack_idx].type = FINALLY /\ k = exc_obj
        BY <2>2 DEF PopFinally
      <3>2. stack_unwinding' = TRUE
        BY <1>4, <2>2 DEF PopFinally
      <3>3. pc' = "run" /\ exc_obj' = exc_obj /\ ctl' = d
        BY <1>2, <2>2, <3>1 DEF PopFinally, Popping, longjmp
      <3> QED
        BY <3>1, <3>2, <3>3, Zenon
    <2> QED
      BY <2>1, <2>2
  <1>6. k \in Klasses \union {NoKlass}
    BY <1>4
  <1> HIDE DEF a, k
  <1>7. /\ r \in Region /\ r.pending = k
        /\ r.kind = "finally" <=> ctl[a].h = FINALLY
    BY <1>2, <1>6, RegionTypes, HandlerFields
  <1> HIDE DEF r
  <1>8. d \in Seq(Region) /\ Len(d) = a /\ d[a] = r /\ \A q \in 1..(a-1) : d[q] = ctl[q]
    <2>1. d = Cut(ctl, a, r)
      BY DEF Cut
    <2>2. ctl \in Seq(Region) /\ a \in 1..Len(ctl) /\ r \in Region
      BY <1>2, <1>3, <1>7
    <2> HIDE DEF d
    <2> QED
      BY ZenonT(60), <2>1, <2>2, CutRegion
  <1> HIDE DEF d
  <1>9. \A q \in 1..(a-1) : ~Holds(ctl, q)
    <2> SUFFICES ASSUME NEW q \in 1..(a-1), Holds(ctl, q) PROVE FALSE
      OBVIOUS
    <2>1. q \in 1..Len(ctl) /\ a \in (q+1)..Len(ctl)
      BY <1>2, <1>3
    <2>2. ctl[a].kind = "func"
      BY <1>1, <2>1 DEF FlagInv
    <2> QED
      BY <1>2, <2>2
  <1>10. \A q \in 1..Len(ctl') : Holds(ctl', q) => q = a /\ k # NoKlass
    BY <1>2, <1>5, <1>7, <1>8, <1>9 DEF Holds
  <1>11. k # NoKlass <=> stack[stack_idx].type = FINALLY
    BY <1>4 DEF k
  <1>12. k # NoKlass => Holds(ctl', a) /\ k = exc_obj /\ ctl'[a] = r
    BY <1>4, <1>5, <1>7, <1>8, <1>11 DEF Holds, k
  <1>13. stack_unwinding' = TRUE <=> \E p \in 1..Len(ctl') : Holds(ctl', p)
    <2>1. a \in 1..Len(ctl')
      BY <1>2, <1>5, <1>8
    <2> QED
      BY <1>5, <1>10, <1>11, <1>12, <2>1
  <1>14. \A p \in 1..Len(ctl') : Holds(ctl', p) =>
           ctl'[p].pending = exc_obj' /\ exc_obj' \in Klasses
    BY <1>4, <1>5, <1>7, <1>10, <1>12
  <1>15. \A p \in 1..Len(ctl') : Holds(ctl', p) =>
           /\ ctl'[p].kind = "finally"
           /\ \A q \in (p+1)..Len(ctl') : ctl'[q].kind = "func"
    BY <1>2, <1>5, <1>7, <1>8, <1>10, <1>11, <1>12
  <1> QED
    BY <1>5, <1>13, <1>14, <1>15 DEF FlagInv

-----------------------------------------------------------------------------
LEMMA FlagNext ==
  ASSUME Plain, IInv, Rejected, NoReports, FlagInv, [Next]_vars
  PROVE  FlagInv'
  <1>0. /\ ctl \in Seq(Region) /\ Len(ctl) \in Nat /\ Framed(ctl)
        /\ NoKlass \notin Klasses /\ PlainFinally /\ ~ToS
    BY KlassAssumption DEF Plain, IInv, TypeOK
  <1>1. ASSUME NEW anon \in BOOLEAN, Call(anon) PROVE FlagInv'
    <2> DEFINE r == FuncRegion(Len(ctl) + 1, anon)
    <2>1. r \in Region /\ r.pending = NoKlass /\ r.kind = "func"
      BY <1>0, RegionTypes DEF FuncRegion
    <2> HIDE DEF r
    <2> QED
      BY <1>1, <2>1, FlagEnter DEF Call, Enters, r
  <1>2. ASSUME NEW h \in Types, NEW k \in Klasses \union {NoKlass}, Try(h, k)
        PROVE  FlagInv'
    <2> DEFINE r == TryRegion(Top(ctl), h, k)
    <2>1. Top(ctl) \in Region
      BY <1>0, <1>2 DEF Try, InCode, Top
    <2>2. r \in Region /\ r.pending = NoKlass
      BY <2>1, RegionTypes DEF TryRegion
    <2>3. \A p \in 1..Len(ctl) : ~Holds(ctl, p)
      BY <1>0, <1>2 DEF Try, Interrupted, Holds
    <2> HIDE DEF r
    <2> QED
      BY <1>2, <2>2, <2>3, FlagEnter DEF Try, Enters, r
  <1>3. CASE EndTry
    <2> DEFINE n == Len(ctl)
               r == HandlerRegion(ctl[n], NoKlass)
               d == Append(Upto(ctl, n - 1), r)
    <2>1. /\ ctl # << >> /\ n \in 1..Len(ctl) /\ Top(ctl) = ctl[n]
          /\ ctl[n].kind = "try" /\ pc = "run" /\ pc' = "run" /\ ctl[n] \in Region
          /\ UNCHANGED <<stack_unwinding, exc_obj>>
      BY <1>0, <1>3 DEF EndTry, InRegion, Top
    <2>2. \A p \in 1..Len(ctl) : ~Holds(ctl, p)
      <3> SUFFICES ASSUME NEW p \in 1..Len(ctl), Holds(ctl, p) PROVE FALSE
        OBVIOUS
      <3>1. /\ ctl[p].kind = "finally"
            /\ \A q \in (p+1)..Len(ctl) : ctl[q].kind = "func"
        BY <2>1 DEF FlagInv
      <3> QED
        BY <1>0, <2>1, <3>1
    <2>3. /\ n - 1 \in 0..Len(ctl) /\ PopTop(ctl) = Upto(ctl, n - 1)
          /\ Len(PopTop(ctl)) = n - 1
          /\ \A q \in 1..(n-1) : PopTop(ctl)[q] = ctl[q]
      BY <1>0, <2>1, PopFacts
    <2>4. CASE Top(ctl).h = FINALLY
      <3>1. r \in Region /\ r.pending = NoKlass /\ r.kind \in {"catch", "finally"}
        BY <2>1, RegionTypes, HandlerFields
      <3>2. ctl' = d
        BY <1>3, <2>1, <2>3, <2>4 DEF EndTry
      <3> HIDE DEF r
      <3>3. d \in Seq(Region) /\ Len(d) = n /\ d[n] = r /\ \A q \in 1..(n-1) : d[q] = ctl[q]
        <4>1. d = Cut(ctl, n, r)
          BY DEF Cut
        <4>2. ctl \in Seq(Region) /\ n \in 1..Len(ctl) /\ r \in Region
          BY <1>0, <2>1, <3>1
        <4> HIDE DEF d, n
        <4> QED
          BY <4>1, <4>2, CutRegion
      <3> HIDE DEF d
      <3>4. \A q \in (n-1+1)..Len(ctl') : ~Holds(ctl', q) /\ ctl'[q].kind # "func"
        BY <1>0, <3>1, <3>2, <3>3 DEF Holds
      <3>5. /\ n - 1 <= Len(ctl') /\ Len(ctl') \in Nat
            /\ \A q \in 1..(n-1) : ctl'[q] = ctl[q]
            /\ \A q \in (n-1+1)..Len(ctl) : ~Holds(ctl, q)
        BY <1>0, <2>1, <2>2, <3>2, <3>3
      <3> QED
        BY <2>1, <2>2, <2>3, <3>4, <3>5, FlagKeep
    <2>5. CASE Top(ctl).h # FINALLY
      <3>1. ctl' = PopTop(ctl)
        BY <1>3, <2>5, BackToPop DEF EndTry
      <3>2. /\ n - 1 <= Len(ctl') /\ Len(ctl') \in Nat
            /\ \A q \in 1..(n-1) : ctl'[q] = ctl[q]
            /\ \A q \in (n-1+1)..Len(ctl) : ~Holds(ctl, q)
            /\ \A q \in (n-1+1)..Len(ctl') : FALSE
        BY <1>0, <2>1, <2>2, <2>3, <3>1
      <3> QED
        BY <2>1, <2>2, <2>3, <3>2, FlagKeep
    <2> QED
      BY <2>4, <2>5
  <1>4. ASSUME ctl # << >>, pc = "run", pc' = "run", ctl' = PopTop(ctl),
               ~Holds(ctl, Len(ctl)), UNCHANGED <<stack_unwinding, exc_obj>>
        PROVE  FlagInv'
    <2> DEFINE n == Len(ctl)
    <2>1. /\ n - 1 \in 0..Len(ctl) /\ Len(ctl') = n - 1
          /\ \A q \in 1..(n-1) : ctl'[q] = ctl[q]
      BY <1>0, <1>4, PopFacts
    <2>2. /\ n - 1 <= Len(ctl') /\ Len(ctl') \in Nat /\ ~(Len(ctl') > n - 1)
          /\ \A q \in (n-1+1)..Len(ctl) : ~Holds(ctl, q)
          /\ \A q \in (n-1+1)..Len(ctl') : FALSE
      BY <1>0, <1>4, <2>1
    <2> QED
      BY <1>4, <2>1, <2>2, FlagKeep
  <1>5. CASE EndCatch
    <2>1. /\ ctl # << >> /\ pc = "run" /\ pc' = "run" /\ ctl' = PopTop(ctl)
          /\ UNCHANGED <<stack_unwinding, exc_obj>> /\ ctl[Len(ctl)].kind = "catch"
      BY <1>5, BackToPop DEF EndCatch, InRegion, Top
    <2>2. ~Holds(ctl, Len(ctl))
      BY <1>0, <2>1 DEF FlagInv
    <2> QED
      BY <1>4, <2>1, <2>2
  <1>6. CASE EndFinally
    <2>1. /\ ctl # << >> /\ pc = "run" /\ Len(ctl) \in 1..Len(ctl)
          /\ UNCHANGED <<stack_unwinding, exc_obj>>
      BY <1>0, <1>6 DEF EndFinally, InRegion
    <2>2. CASE stack_unwinding = TRUE
      <3>1. pc' = "unwind" /\ ctl' = ctl
        BY <1>6, <2>2 DEF EndFinally
      <3>2. PICK p \in 1..Len(ctl) : Holds(ctl, p)
        BY <2>1, <2>2 DEF FlagInv
      <3>3. exc_obj' \in Klasses /\ stack_unwinding' = TRUE
        BY <2>1, <2>2, <3>2 DEF FlagInv
      <3> QED
        BY <2>1, <3>1, <3>3 DEF FlagInv, Holds
    <2>3. CASE stack_unwinding = FALSE
      <3>1. pc' = "run" /\ ctl' = PopTop(ctl)
        BY <1>6, <2>1, <2>3, BackToPop DEF EndFinally
      <3>2. ~Holds(ctl, Len(ctl))
        BY <2>1, <2>3 DEF FlagInv
      <3> QED
        BY <1>4, <2>1, <3>1, <3>2
    <2> QED
      BY <2>2, <2>3 DEF IInv, TypeOK
  <1>7. CASE Return
    <2> DEFINE f == Top(ctl).frame
    <2>1. /\ ctl # << >> /\ pc = "run" /\ pc' = "run" /\ ctl' = Upto(ctl, f - 1)
          /\ UNCHANGED <<stack_unwinding, exc_obj>>
          /\ \A q \in f..Len(ctl) : ~Holds(ctl, q)
      BY <1>0, <1>7 DEF Return, InCode, BackTo, Interrupted, Holds
    <2>2. f \in 1..Len(ctl)
      BY <1>7, ReturnFalls
    <2> HIDE DEF f
    <2>3. f - 1 \in 0..Len(ctl)
      BY <1>0, <2>2
    <2>4. Len(ctl') = f - 1 /\ \A q \in 1..(f-1) : ctl'[q] = ctl[q]
      BY <1>0, <2>1, <2>3, UptoFacts
    <2>5. /\ f - 1 <= Len(ctl') /\ Len(ctl') \in Nat /\ ~(Len(ctl') > f - 1)
          /\ \A q \in (f-1+1)..Len(ctl) : ~Holds(ctl, q)
          /\ \A q \in (f-1+1)..Len(ctl') : FALSE
      BY <1>0, <2>1, <2>2, <2>3, <2>4
    <2> QED
      BY <2>1, <2>3, <2>4, <2>5, FlagKeep
  <1>8. ASSUME NEW k \in Klasses, exc_raise_object(k) PROVE FlagInv'
    BY <1>8 DEF exc_raise_object, FlagInv, Holds
  <1>9. CASE PopIgnored
    BY <1>9 DEF PopIgnored, Popping, FlagInv, Holds
  <1>10. CASE PopCatch \/ PopFinally
    BY <1>10, FlagLand
  <1>11. CASE Uncaught
    BY <1>11 DEF Uncaught, FlagInv
  <1>13. ~UncaughtToS /\ ~EndReport
    <2>1. ctl # << >> => Len(ctl) \in 1..Len(ctl)
      BY <1>0
    <2> QED
      BY <1>0, <2>1 DEF UncaughtToS, EndReport, NoReports, Top
  <1>12. CASE UNCHANGED vars
    BY <1>12 DEF vars, FlagInv, Holds
  <1> QED
    BY <1>1, <1>2, <1>3, <1>5, <1>6, <1>7, <1>8, <1>9, <1>10, <1>11, <1>12, <1>13
       DEF Next, Unwind, Types, CATCH_ALL, CATCH, FINALLY

-----------------------------------------------------------------------------
(* TryCatch and ExcStack speak of the same regions.                         *)
LEMMA SameKinds ==
  /\ Semantics!ANNOT = ANNOT
  /\ Semantics!CATCH_ALL = CATCH_ALL
  /\ Semantics!CATCH = CATCH
  /\ Semantics!FINALLY = FINALLY
  BY DEF Semantics!ANNOT, Semantics!CATCH_ALL, Semantics!CATCH, Semantics!FINALLY,
         ANNOT, CATCH_ALL, CATCH, FINALLY

LEMMA SameRegions ==
  /\ \A c : Semantics!Top(c) = Top(c) /\ Semantics!PopTop(c) = PopTop(c)
  /\ \A c, p : Semantics!Upto(c, p) = Upto(c, p)
  /\ \A at, anon : Semantics!FuncRegion(at, anon) = FuncRegion(at, anon)
  /\ \A r, h, k : Semantics!TryRegion(r, h, k) = TryRegion(r, h, k)
  /\ \A r, k : Semantics!HandlerRegion(r, k) = HandlerRegion(r, k)
  BY SameKinds, Zenon
     DEF Semantics!Top, Semantics!PopTop, Semantics!Upto, Semantics!FuncRegion,
         Semantics!TryRegion, Semantics!HandlerRegion,
         Top, PopTop, Upto, FuncRegion, TryRegion, HandlerRegion

LEMMA SameAccepts == \A r, k : Semantics!Accepts(r, k) <=> Accepts(r, k)
  <1>1. \A k, c : Semantics!obj_eq_klass(k, c) <=> obj_eq_klass(k, c)
    BY Zenon DEF Semantics!obj_eq_klass, obj_eq_klass
  <1> QED
    BY <1>1, SameKinds, Zenon DEF Semantics!Accepts, Accepts

(* Every step of the implementation is a step of TryCatch or leaves the     *)
(* context and the exception in flight as they are.                         *)
LEMMA StepRefines ==
  ASSUME Plain, IInv, Rejected, NoReports, FlagInv, [Next]_vars
  PROVE  [Semantics!Next]_(Semantics!vars)
  <1>0. /\ NoKlass \notin Klasses /\ ~ToS /\ ctl \in Seq(Region)
        /\ ctl # << >> => Len(ctl) \in 1..Len(ctl)
    BY KlassAssumption, TypeFacts DEF Plain
  <1> USE DEF Semantics!Running
  <1>1. ASSUME NEW anon \in BOOLEAN, Call(anon)
        PROVE  Semantics!Call(anon)
    BY <1>1, SameRegions DEF Call, Room, Enters, Semantics!Call
  <1>2. ASSUME NEW h, NEW k, Try(h, k)
        PROVE  Semantics!Try(h, k)
    BY <1>2, SameRegions DEF Try, InCode, Room, Enters, Semantics!Try
  <1>3. CASE EndTry
    <2>1. Semantics!EndTry
      BY <1>3, SameRegions, SameKinds, BackToPop DEF EndTry, InRegion, Semantics!EndTry
    <2> QED
      BY <2>1 DEF Semantics!Next
  <1>4. CASE EndCatch
    <2>1. Semantics!EndCatch
      BY <1>4, SameRegions, BackToPop DEF EndCatch, InRegion, Semantics!EndCatch
    <2> QED
      BY <2>1 DEF Semantics!Next
  <1>5. CASE EndFinally
    <2>0. /\ ctl # << >> /\ pc = "run" /\ Top(ctl).kind = "finally"
          /\ exc_obj' = exc_obj
      BY <1>5 DEF EndFinally, InRegion
    <2>1. ctl \in Seq(Region) /\ Len(ctl) \in 1..Len(ctl) /\ Top(ctl) = ctl[Len(ctl)]
      BY <2>0 DEF IInv, TypeOK, Top
    <2>2. CASE stack_unwinding = TRUE
      <3>1. pc' = "unwind" /\ ctl' = ctl
        BY <1>5, <2>2 DEF EndFinally
      <3>2. PICK p \in 1..Len(ctl) : Holds(ctl, p)
        BY <2>0, <2>2 DEF FlagInv
      <3>3. p = Len(ctl)
        <4>1. \A q \in (p+1)..Len(ctl) : ctl[q].kind = "func"
          BY <2>0, <3>2 DEF FlagInv
        <4> QED
          BY <2>0, <2>1, <4>1
      <3>4. Top(ctl).pending = exc_obj /\ Top(ctl).pending # NoKlass
        BY <2>0, <2>1, <3>2, <3>3 DEF FlagInv, Holds
      <3>5. Semantics!EndFinally
        BY <2>0, <3>1, <3>4, SameRegions DEF Semantics!EndFinally
      <3> QED
        BY <3>5 DEF Semantics!Next
    <2>3. CASE stack_unwinding = FALSE
      <3>1. pc' = "run" /\ ctl' = PopTop(ctl)
        BY <1>5, <2>0, <2>3, BackToPop DEF EndFinally
      <3>2. Top(ctl).pending = NoKlass
        BY <2>0, <2>1, <2>3 DEF FlagInv, Holds
      <3>3. Semantics!EndFinally
        BY <2>0, <3>1, <3>2, SameRegions DEF Semantics!EndFinally
      <3> QED
        BY <3>3 DEF Semantics!Next
    <2> QED
      BY <2>2, <2>3 DEF IInv, TypeOK
  <1>6. CASE Return
    <2>1. Semantics!Return
      BY <1>6, SameRegions DEF Return, InCode, BackTo, Semantics!Return
    <2> QED
      BY <2>1 DEF Semantics!Next
  <1>7. ASSUME NEW k \in Klasses, exc_raise_object(k)
        PROVE  Semantics!Raise(k)
    BY <1>7 DEF exc_raise_object, Semantics!Raise
  <1>8. CASE PopIgnored
    BY <1>8 DEF PopIgnored, Popping, Semantics!vars
  <1>9. CASE PopCatch \/ PopFinally
    <2> DEFINE a == stack[stack_idx].at
               k == IF ctl[a].h = FINALLY THEN exc_obj ELSE NoKlass
    <2>1. pc = "unwind" /\ stack_idx > 0 /\ Wants(stack[stack_idx])
      BY <1>9 DEF PopCatch, PopFinally, Popping, Wants
    <2>2. /\ Live(stack_idx)
          /\ a \in 1..Len(ctl) /\ ctl[a].h = stack[stack_idx].type
          /\ Accepts(ctl[a], exc_obj)
          /\ \A q \in (a+1)..Len(ctl) : ~Accepts(ctl[q], exc_obj)
      BY <2>1, LandsOutside
    <2>3. exc_obj # NoKlass
      BY <1>0, <2>1 DEF FlagInv
    <2>4. pc' = "run" /\ ctl' = Append(Upto(ctl, a - 1), HandlerRegion(ctl[a], k))
      BY <1>9, <2>2 DEF PopCatch, PopFinally, longjmp
    <2> HIDE DEF a
    <2>5. Semantics!Land
      BY <2>1, <2>2, <2>3, <2>4, SameRegions, SameAccepts, SameKinds
         DEF Semantics!Land
    <2> QED
      BY <2>5 DEF Semantics!Next
  <1>10. CASE Uncaught
    <2>1. /\ pc = "unwind" /\ stack_idx = 0 /\ pc' = "exit" /\ ctl' = ctl
          /\ exc_obj # NoKlass
      BY <1>0, <1>10 DEF Uncaught, NothingLeft, FlagInv
    <2>2. \A p \in 1..Len(ctl) : ~Accepts(ctl[p], exc_obj)
      <3>1. Report = 0 /\ \A p \in 1..Len(ctl) : slots[p].index \in 1..STACK_SIZE
        BY Outside, TypeFacts DEF NoReports
      <3> QED
        BY <2>1, <3>1 DEF Rejected, PassedBy
    <2>3. Semantics!Uncaught
      BY <2>1, <2>2, SameAccepts DEF Semantics!Uncaught
    <2> QED
      BY <2>3 DEF Semantics!Next
  <1>11. CASE UNCHANGED vars
    BY <1>11 DEF vars, Semantics!vars
  <1>12. ASSUME NEW anon \in BOOLEAN, Call(anon) PROVE Semantics!Next
    BY <1>1, <1>12 DEF Semantics!Next
  <1>13. CASE Try(CATCH_ALL, NoKlass) \/ Try(FINALLY, NoKlass)
    BY <1>2, <1>13, SameKinds DEF Semantics!Next
  <1>14. ASSUME NEW k \in Klasses, Try(CATCH, k) PROVE Semantics!Next
    BY <1>2, <1>14, SameKinds DEF Semantics!Next
  <1>15. ASSUME NEW k \in Klasses, exc_raise_object(k) PROVE Semantics!Next
    BY <1>7, <1>15 DEF Semantics!Next
  <1>16. ~UncaughtToS /\ ~EndReport
    BY <1>0 DEF UncaughtToS, EndReport, NoReports, Top
  <1> QED
    BY <1>3, <1>4, <1>5, <1>6, <1>8, <1>9, <1>10, <1>11, <1>12, <1>13, <1>14,
       <1>15, <1>16 DEF Next, Unwind

(* At the end of a finally block the flag tells what that block itself has  *)
(* interrupted.                                                             *)
LEMMA FlagTells ==
  ASSUME IInv, FlagInv, EndFinally
  PROVE  pc' = "unwind" <=> Top(ctl).pending # NoKlass
  <1> DEFINE n == Len(ctl)
  <1>1. /\ ctl \in Seq(Region) /\ n \in Nat /\ stack_unwinding \in BOOLEAN
        /\ pc = "run" /\ n \in 1..Len(ctl) /\ Top(ctl) = ctl[n]
        /\ ctl[n].kind = "finally"
    BY DEF IInv, TypeOK, EndFinally, InRegion, Top
  <1>2. pc' = "unwind" <=> stack_unwinding = TRUE
    BY <1>1 DEF EndFinally
  <1>3. stack_unwinding = TRUE <=> \E p \in 1..Len(ctl) : Holds(ctl, p)
    BY <1>1 DEF FlagInv
  <1>4. ASSUME NEW p \in 1..Len(ctl), Holds(ctl, p)
        PROVE  p = n
    <2>1. \A q \in (p+1)..Len(ctl) : ctl[q].kind = "func"
      BY <1>1, <1>4 DEF FlagInv
    <2> QED
      BY <1>1, <2>1
  <1> QED
    BY <1>1, <1>2, <1>3, <1>4 DEF Holds

(* For programs with plain finally blocks, a finally block passes on the    *)
(* exception that it has interrupted, and falls through when there is none. *)
THEOREM FinallyResumesCorrect == PlainFinally /\ ~ToS => (Spec => FinallyResumes)
  <1> SUFFICES ASSUME Plain PROVE Spec => FinallyResumes
    BY DEF Plain
  <1>0. Spec => []NoReports
    BY NoReportsCorrect DEF Plain
  <1>1. Init => FlagInv
    BY DEF Init, FlagInv
  <1>2. IInv /\ Rejected /\ NoReports /\ FlagInv /\ [Next]_vars => FlagInv'
    BY FlagNext
  <1>3. IInv /\ FlagInv =>
          [EndFinally => (pc' = "unwind" <=> Top(ctl).pending # NoKlass)]_vars
    BY FlagTells
  <1> QED
    BY <1>0, <1>1, <1>2, <1>3, Invariance, RejectedCorrect, PTL DEF Spec, FinallyResumes

(* For programs with plain finally blocks, the exception stack and the code *)
(* generated around it implement try, catch, finally, raise and return.     *)
THEOREM Refinement == PlainFinally /\ ~ToS => (Spec => ImplementsTryCatch)
  <1> SUFFICES ASSUME Plain PROVE Spec => Semantics!Spec
    BY DEF Plain, ImplementsTryCatch
  <1>0. Spec => []NoReports
    BY NoReportsCorrect DEF Plain
  <1>1. Init => FlagInv
    BY DEF Init, FlagInv
  <1>2. IInv /\ Rejected /\ NoReports /\ FlagInv /\ [Next]_vars => FlagInv'
    BY FlagNext
  <1>3. Init => Semantics!Init
    BY DEF Init, Semantics!Init
  <1>4. IInv /\ Rejected /\ NoReports /\ FlagInv /\ [Next]_vars
          => [Semantics!Next]_(Semantics!vars)
    BY StepRefines
  <1> QED
    BY <1>0, <1>1, <1>2, <1>3, <1>4, Invariance, RejectedCorrect, PTL
       DEF Spec, Semantics!Spec

-----------------------------------------------------------------------------
(***************************************************************************)
(* The trace of an uncaught exception is printed from stack_backup, the    *)
(* depth at the last raise.  A finally block that passes its exception on  *)
(* does not raise again: what it runs has put other elements above, and    *)
(* perhaps other depths in stack_backup.  While a finally block is         *)
(* interrupting an exception, stack_backup still covers all that is below  *)
(* the block.                                                              *)
(***************************************************************************)
Covered(n) ==
  \A p \in 1..Len(ctl) :
    ctl[p].kind = "func" =>
      \E i \in 1..n : stack[i].type = ANNOT /\ stack[i].at = p

BelowSaved(q) == \A i \in 1..stack_idx : stack[i].at < q => i <= stack_backup

BackupInv ==
  /\ pc = "unwind" => stack_idx <= stack_backup /\ Covered(stack_backup)
  /\ pc = "run" =>
       \A q \in 1..Len(ctl) : Holds(ctl, q) => BelowSaved(q)
  /\ TraceNamesCallers

(* While the program runs, every active function is on the stack.           *)
LEMMA FunctionsCovered ==
  ASSUME IInv, NoReports, pc = "run"
  PROVE  /\ Covered(stack_idx)
         /\ \A i \in 1..stack_idx : stack[i].at \in 1..Len(ctl)
                                 /\ ctl[stack[i].at].kind \in {"func", "try"}
  <1>0. Report = 0 /\ Base = 0
    BY Outside
  <1>1. /\ ElementsLive /\ RegionsCovered /\ Framed(ctl)
        /\ stack_idx \in Nat /\ Len(ctl) \in Nat
    BY Mirrored DEF IInv, HandlersMirror, TypeOK
  <1>2. \A i \in 1..stack_idx : /\ stack[i].at \in 1..Len(ctl)
                                /\ Registers(stack[i], ctl[stack[i].at])
    BY <1>0, <1>1 DEF ElementsLive
  <1>3. ASSUME NEW p \in 1..Len(ctl), ctl[p].kind = "func"
        PROVE  \E i \in 1..stack_idx : stack[i].type = ANNOT /\ stack[i].at = p
    <2>1. PICK i \in 1..stack_idx : stack[i].at = p
      BY <1>0, <1>1, <1>3 DEF RegionsCovered
    <2>2. stack[i].type = ANNOT
      BY <1>1, <1>2, <1>3, <2>1 DEF Registers, Framed, FramedAt, Frames
    <2> QED
      BY <2>1, <2>2
  <1> QED
    BY <1>2, <1>3 DEF Covered, Registers

(* A region is entered above all that is interrupted.                       *)
LEMMA BackupEnter ==
  ASSUME IInv, BackupInv, pc = "run", pc' = "run", Room,
         NEW r \in Region, r.pending = NoKlass, ctl' = Append(ctl, r),
         NEW h, NEW k, Push(h, k, Len(ctl) + 1), stack_backup' = stack_backup
  PROVE  BackupInv'
  <1>1. /\ ctl \in Seq(Region) /\ Len(ctl) \in Nat /\ stack_idx \in Nat
        /\ stack \in [1..STACK_SIZE -> Element] /\ STACK_SIZE \in Nat
    BY SizeAssumption DEF IInv, TypeOK
  <1>2. /\ Len(ctl') = Len(ctl) + 1 /\ ctl'[Len(ctl) + 1] = r
        /\ \A q \in 1..Len(ctl) : ctl'[q] = ctl[q]
    BY <1>1, AppendFacts
  <1>3. stack_idx < STACK_SIZE
    BY DEF Room
  <1>4. /\ stack_idx' = stack_idx + 1
        /\ stack'[stack_idx + 1].at = Len(ctl) + 1
        /\ \A i \in 1..stack_idx : stack'[i] = stack[i]
    BY <1>1, <1>3 DEF Push
  <1>5. ASSUME NEW q \in 1..Len(ctl'), Holds(ctl', q) PROVE BelowSaved(q)'
    <2>1. q \in 1..Len(ctl) /\ Holds(ctl, q)
      BY <1>1, <1>2, <1>5 DEF Holds
    <2>2. BelowSaved(q)
      BY <2>1 DEF BackupInv
    <2>3. ASSUME NEW i \in 1..stack_idx', stack'[i].at < q
          PROVE  i <= stack_backup
      <3>1. i # stack_idx + 1
        BY <1>1, <1>4, <2>1, <2>3
      <3>2. i \in 1..stack_idx /\ stack'[i] = stack[i]
        BY <1>1, <1>4, <3>1
      <3> QED
        BY <2>2, <2>3, <3>2 DEF BelowSaved
    <2> QED
      BY <2>3 DEF BelowSaved
  <1> QED
    BY <1>5 DEF BackupInv, TraceNamesCallers

(* Leaving regions only takes elements off.                                 *)
LEMMA BackupLeave ==
  ASSUME IInv, BackupInv, pc = "run", pc' = "run", stack_idx' \in Nat,
         stack_idx' <= stack_idx, UNCHANGED <<stack, stack_backup>>,
         \A q \in 1..Len(ctl') : Holds(ctl', q) => q \in 1..Len(ctl) /\ Holds(ctl, q)
  PROVE  BackupInv'
  <1>1. stack_idx \in Nat
    BY DEF IInv, TypeOK
  <1>2. ASSUME NEW q \in 1..Len(ctl'), Holds(ctl', q) PROVE BelowSaved(q)'
    <2>1. BelowSaved(q)
      BY <1>2 DEF BackupInv
    <2> QED
      BY <1>1, <2>1 DEF BelowSaved
  <1> QED
    BY <1>2 DEF BackupInv, TraceNamesCallers

LEMMA BackupNext ==
  ASSUME ~ToS, IInv, NoReports, FlagInv, BackupInv, [Next]_vars
  PROVE  BackupInv'
  <1>0. /\ ctl \in Seq(Region) /\ Len(ctl) \in Nat /\ Framed(ctl)
        /\ stack_idx \in Nat /\ stack_backup \in Nat
        /\ stack_unwinding \in BOOLEAN
    BY DEF IInv, TypeOK
  <1>1. ASSUME NEW anon \in BOOLEAN, Call(anon) PROVE BackupInv'
    <2> DEFINE r == FuncRegion(Len(ctl) + 1, anon)
    <2>1. r \in Region /\ r.pending = NoKlass
      BY <1>0, RegionTypes DEF FuncRegion
    <2> HIDE DEF r
    <2> QED
      BY <1>1, <2>1, BackupEnter DEF Call, Enters, r
  <1>2. ASSUME NEW h \in Types, NEW k \in Klasses \union {NoKlass}, Try(h, k)
        PROVE  BackupInv'
    <2> DEFINE r == TryRegion(Top(ctl), h, k)
    <2>1. Top(ctl) \in Region
      BY <1>0, <1>2 DEF Try, InCode, Top
    <2>2. r \in Region /\ r.pending = NoKlass
      BY <2>1, RegionTypes DEF TryRegion
    <2> HIDE DEF r
    <2> QED
      BY <1>2, <2>2, BackupEnter DEF Try, Enters, r
  <1>3. CASE EndTry
    <2> DEFINE n == Len(ctl)
               r == HandlerRegion(ctl[n], NoKlass)
    <2>1. /\ ctl # << >> /\ n \in 1..Len(ctl) /\ Top(ctl) = ctl[n]
          /\ Top(ctl).kind = "try" /\ pc = "run" /\ pc' = "run" /\ ctl[n] \in Region
          /\ stack_idx' = stack_idx - 1 /\ UNCHANGED <<stack, stack_backup>>
      BY <1>0, <1>3 DEF EndTry, InRegion, Top
    <2>2. stack_idx' \in Nat /\ stack_idx' <= stack_idx
      <3>1. Base = 0 /\ stack_idx \in (Base + 1)..STACK_SIZE
        BY <2>1, Outside, OwnTop
      <3> QED
        BY <1>0, <2>1, <3>1
    <2>3. /\ PopTop(ctl) = Upto(ctl, n - 1) /\ Len(PopTop(ctl)) = n - 1
          /\ \A q \in 1..(n-1) : PopTop(ctl)[q] = ctl[q]
      BY <1>0, <2>1, PopFacts
    <2>4. \A q \in 1..Len(ctl') : Holds(ctl', q) => q \in 1..Len(ctl) /\ Holds(ctl, q)
      <3>1. CASE Top(ctl).h = FINALLY
        <4>1. r \in Region /\ r.pending = NoKlass
          BY <2>1, RegionTypes, HandlerFields
        <4>2. ctl' = Cut(ctl, n, r)
          BY <1>3, <2>1, <2>3, <3>1 DEF EndTry, Cut
        <4> HIDE DEF r, n
        <4>3. /\ Len(ctl') = n /\ ctl'[n] = r
              /\ \A q \in 1..(n-1) : ctl'[q] = ctl[q]
          BY <1>0, <2>1, <4>1, <4>2, CutRegion
        <4> QED
          BY <1>0, <2>1, <4>1, <4>3 DEF Holds
      <3>2. CASE Top(ctl).h # FINALLY
        <4>1. ctl' = PopTop(ctl)
          BY <1>3, <3>2, BackToPop DEF EndTry
        <4> QED
          BY <1>0, <2>3, <4>1 DEF Holds
      <3> QED
        BY <3>1, <3>2
    <2> QED
      BY <2>1, <2>2, <2>4, BackupLeave
  <1>4. ASSUME ctl # << >>, pc = "run", pc' = "run", ctl' = PopTop(ctl),
               UNCHANGED <<stack, stack_idx, stack_backup>>
        PROVE  BackupInv'
    <2>1. /\ Len(ctl') = Len(ctl) - 1
          /\ \A q \in 1..(Len(ctl) - 1) : ctl'[q] = ctl[q]
      BY <1>0, <1>4, PopFacts
    <2>2. \A q \in 1..Len(ctl') : Holds(ctl', q) => q \in 1..Len(ctl) /\ Holds(ctl, q)
      BY <1>0, <2>1 DEF Holds
    <2> QED
      BY <1>0, <1>4, <2>2, BackupLeave
  <1>5. CASE EndCatch
    BY <1>4, <1>5, BackToPop DEF EndCatch, InRegion
  <1>6. CASE EndFinally
    <2>1. /\ ctl # << >> /\ pc = "run" /\ Top(ctl).kind = "finally"
          /\ Len(ctl) \in 1..Len(ctl) /\ Top(ctl) = ctl[Len(ctl)]
          /\ UNCHANGED <<stack, stack_idx, stack_backup>>
      BY <1>0, <1>6 DEF EndFinally, InRegion, Top
    <2>2. CASE stack_unwinding = TRUE
      <3>1. pc' = "unwind" /\ ctl' = ctl
        BY <1>6, <2>2 DEF EndFinally
      <3>2. Holds(ctl, Len(ctl))
        BY <1>6, <2>1, <3>1, FlagTells DEF Holds
      <3>3. BelowSaved(Len(ctl))
        BY <2>1, <3>2 DEF BackupInv
      <3>4. \A i \in 1..stack_idx : i <= stack_backup
        <4>1. \A i \in 1..stack_idx : /\ stack[i].at \in 1..Len(ctl)
                                      /\ stack[i].at # Len(ctl)
          BY <2>1, FunctionsCovered
        <4> QED
          BY <1>0, <3>3, <4>1 DEF BelowSaved
      <3>5. stack_idx <= stack_backup
        BY <1>0, <3>4
      <3>6. Covered(stack_backup)
        BY <1>0, <2>1, <3>5, FunctionsCovered DEF Covered
      <3> QED
        BY <2>1, <3>1, <3>5, <3>6 DEF BackupInv, Covered, TraceNamesCallers
    <2>3. CASE stack_unwinding = FALSE
      BY <1>4, <1>6, <2>1, <2>3, BackToPop DEF EndFinally
    <2> QED
      BY <1>0, <2>2, <2>3
  <1>7. CASE Return
    <2> DEFINE f == Top(ctl).frame
    <2>1. /\ ctl # << >> /\ pc = "run" /\ pc' = "run" /\ ctl' = Upto(ctl, f - 1)
          /\ UNCHANGED <<stack, stack_backup>>
      BY <1>7 DEF Return, InCode, BackTo
    <2>2. stack_idx' \in Nat /\ stack_idx' <= stack_idx
      BY <1>0, <1>7 DEF Return
    <2>3. f \in 1..Len(ctl)
      BY <1>7, ReturnFalls
    <2> HIDE DEF f
    <2>4. f - 1 \in 0..Len(ctl)
      BY <1>0, <2>3
    <2>5. Len(ctl') = f - 1 /\ \A q \in 1..(f-1) : ctl'[q] = ctl[q]
      BY <1>0, <2>1, <2>4, UptoFacts
    <2>6. \A q \in 1..Len(ctl') : Holds(ctl', q) => q \in 1..Len(ctl) /\ Holds(ctl, q)
      BY <1>0, <2>4, <2>5 DEF Holds
    <2> QED
      BY <2>1, <2>2, <2>6, BackupLeave
  <1>8. ASSUME NEW k \in Klasses, exc_raise_object(k) PROVE BackupInv'
    <2>1. /\ pc = "run" /\ pc' = "unwind" /\ stack_backup' = stack_idx
          /\ UNCHANGED <<ctl, stack, stack_idx>>
      BY <1>8 DEF exc_raise_object
    <2>2. Covered(stack_idx)
      BY <2>1, FunctionsCovered
    <2> QED
      BY <1>0, <2>1, <2>2 DEF BackupInv, Covered, TraceNamesCallers
  <1>9. CASE PopIgnored
    <2>1. /\ pc = "unwind" /\ pc' = "unwind" /\ stack_idx' = stack_idx - 1
          /\ UNCHANGED <<ctl, stack, stack_backup>>
      BY <1>9 DEF PopIgnored, Popping
    <2> QED
      BY <1>0, <2>1 DEF BackupInv, Covered, TraceNamesCallers
  <1>10. CASE PopCatch \/ PopFinally
    <2>1. /\ pc = "unwind" /\ pc' = "run" /\ stack_idx' = stack_idx - 1
          /\ UNCHANGED <<stack, stack_backup>>
      <3>1. pc = "unwind" /\ stack_idx > 0 /\ Wants(stack[stack_idx])
        BY <1>10, LandFalls
      <3>2. Live(stack_idx)
        BY <3>1, AstrayWhen DEF Strayed, NoReports
      <3> QED
        BY <1>10, <3>1, <3>2 DEF PopCatch, PopFinally, Popping, longjmp
    <2>2. stack_idx' <= stack_backup' /\ stack_idx' \in Int
      BY <1>0, <2>1 DEF BackupInv
    <2>3. \A q \in 1..Len(ctl') : BelowSaved(q)'
      BY <1>0, <2>1, <2>2 DEF BelowSaved
    <2> QED
      BY <2>1, <2>3 DEF BackupInv, TraceNamesCallers
  <1>11. CASE Uncaught
    <2>1. /\ pc = "unwind" /\ pc' = "exit" /\ stack_idx' = stack_backup
          /\ UNCHANGED <<ctl, stack>>
      BY <1>11 DEF Uncaught, NothingLeft
    <2> QED
      BY <2>1 DEF BackupInv, Covered, TraceNamesCallers
  <1>12. CASE UNCHANGED vars
    BY <1>12 DEF vars, BackupInv, BelowSaved, Covered, TraceNamesCallers, Holds
  <1>13. ~UncaughtToS /\ ~EndReport
    <2>1. ctl # << >> => Len(ctl) \in 1..Len(ctl)
      BY <1>0
    <2> QED
      BY <2>1 DEF UncaughtToS, EndReport, NoReports, Top
  <1> QED
    BY <1>1, <1>2, <1>3, <1>5, <1>6, <1>7, <1>8, <1>9, <1>10, <1>11, <1>12, <1>13
       DEF Next, Unwind, Types, CATCH_ALL, CATCH, FINALLY

(* For programs with plain finally blocks, the trace of an uncaught         *)
(* exception names every function that is still active, however many        *)
(* exceptions its finally blocks have raised and caught in between.         *)
THEOREM TraceCorrect == PlainFinally /\ ~ToS => (Spec => []TraceNamesCallers)
  <1> SUFFICES ASSUME Plain PROVE Spec => []TraceNamesCallers
    BY DEF Plain
  <1>0. Spec => []NoReports
    BY NoReportsCorrect DEF Plain
  <1>1. Init => FlagInv /\ BackupInv
    BY DEF Init, FlagInv, BackupInv, TraceNamesCallers
  <1>2. IInv /\ Rejected /\ NoReports /\ FlagInv /\ [Next]_vars => FlagInv'
    BY FlagNext
  <1>3. IInv /\ NoReports /\ FlagInv /\ BackupInv /\ [Next]_vars => BackupInv'
    BY BackupNext DEF Plain
  <1>4. BackupInv => TraceNamesCallers
    BY DEF BackupInv
  <1> QED
    BY <1>0, <1>1, <1>2, <1>3, <1>4, Invariance, RejectedCorrect, PTL DEF Spec
=============================================================================
