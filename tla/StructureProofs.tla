-------------------------- MODULE StructureProofs ---------------------------
(***************************************************************************)
(* Proofs about Structure, for every set of names and every bound on the   *)
(* program.  SInv is the inductive invariant: every ClassInfo is whole,    *)
(* the active calls of genist_run_r() are a chain of parents, and what is  *)
(* VISITED has inherited everything and is never touched again.  OInv adds *)
(* what the text declares, where, and what is written of it to the         *)
(* start-up code.                                                          *)
(***************************************************************************)
EXTENDS Structure, FiniteSetTheorems, TLAPS

(* A ClassInfo that OneWay allows; every virtual method is a method, which  *)
(* is why add_parent() refuses a class with virtual methods.                *)
Whole(ci) ==
  /\ ci \in ClassInfos /\ IsFiniteSet(ci.props)
  /\ \A f, g \in ci.methods : f[2] = g[2] => f = g
  /\ ci.num_props = Cardinality(ci.props)
  /\ ci.type = "FIELD" <=> ci.props # {}
  /\ ci.vg \union ci.vs \subseteq ci.methods

Tables ==
  /\ classes = [c \in Known |-> classes[c]] /\ Known \subseteq Classes
  /\ \A c \in Known : Whole(classes[c])
  /\ class_info \in Known \union {NoName}

Visited == {c \in Known : classes[c].marker = "VISITED"}

(* No ring of parents in a set of classes.                                  *)
Grounded(V) ==
  \A S \in SUBSET V : S # {} => \E c \in S : classes[c].parent \notin S

(* Class c has what it can count on from its mixin n.                       *)
Mixed(c, n) ==
  /\ n \in Known
  /\ classes[n].parent = NoName /\ classes[n].mixins = <<>> =>
       classes[n].type = "VIRTUAL" /\ classes[n].methods \subseteq classes[c].methods

(* How far the call of genist_run_r() at i has come: a mixin is still to be *)
(* added or has been, and the parent is traced last.                        *)
CallInv(i) ==
  LET c == path[i].class
  IN  /\ c \in Known /\ classes[c].marker = "VISITING"
      /\ \A l \in DOMAIN path[i].left : \E j \in DOMAIN classes[c].mixins :
           path[i].left[l] = classes[c].mixins[j]
      /\ \A j \in DOMAIN classes[c].mixins :
           \/ \E l \in DOMAIN path[i].left : path[i].left[l] = classes[c].mixins[j]
           \/ Mixed(c, classes[c].mixins[j])
      /\ path[i].called = TRUE => path[i].left = <<>> /\ classes[c].parent # NoName

(* Every call but the innermost waits for its parent.                       *)
LinkInv(i) ==
  LET p == classes[path[i].class].parent
  IN  /\ i < Len(path) => path[i].called = TRUE /\ p = path[i+1].class
      /\ i = Len(path) /\ path[i].called = TRUE => p \in Visited

Calls == [class : Classes, left : Seq(Classes), called : BOOLEAN]

Tracing ==
  /\ \A c \in Known : classes[c].marker = "UNVISITED" => c \in todo
  /\ \A c \in Known : classes[c].marker = "VISITING" =>
                        \E i \in 1..Len(path) : path[i].class = c
  /\ \A i \in 1..Len(path) : CallInv(i) /\ LinkInv(i)
  /\ \A i, j \in 1..Len(path) : path[i].class = path[j].class => i = j
  /\ Len(msgs) = Len(path) + 1 /\ msgs[1] = "genealogy"
  /\ \A i \in 1..Len(path) : msgs[i+1] = path[i].class

SInv ==
  /\ Tables /\ Inherits /\ Grounded(Visited)
  /\ path \in Seq(Calls)
  /\ msgs \in Seq({"structure", "genealogy", "processing"} \union Classes)
  /\ pc = "absorb" =>
       path = <<>> /\ \A c \in Known : classes[c].marker = "UNVISITED"
  /\ pc = "trace" => Tracing
  /\ pc \in {"process", "done"} => Visited = Known
  /\ NoCrash

-----------------------------------------------------------------------------
(* What absorbing and inheriting make of a ClassInfo.                       *)
LEMMA NewWhole ==
  ASSUME NEW p \in Classes \union {NoName}, NEW ms \in Seq(Classes)
  PROVE  /\ Whole(NewClass(p, ms))
         /\ NewClass(p, ms).marker = "UNVISITED"
  <1>1. NewClass(p, ms) \in ClassInfos
    BY DEF NewClass, ClassInfos, ClassTypes, Markers
  <1>2. IsFiniteSet({}) /\ Cardinality({}) = 0
    BY FS_EmptySet
  <1> QED
    BY <1>1, <1>2 DEF Whole, NewClass

LEMMA MethodWhole ==
  ASSUME NEW ci, Whole(ci), NEW f \in FuncInfos, f[2] \notin NamesOf(ci.methods),
         NEW vg \in SUBSET {f}, NEW vs \in SUBSET {f}
  PROVE  LET x == [ci EXCEPT !.methods = @ \union {f}, !.vg = @ \union vg,
                             !.vs = @ \union vs]
         IN  Whole(x) /\ x.marker = ci.marker
  <1> DEFINE x == [ci EXCEPT !.methods = @ \union {f}, !.vg = @ \union vg,
                             !.vs = @ \union vs]
  <1>1. ci \in ClassInfos
    BY DEF Whole
  <1>2. /\ x.methods = ci.methods \union {f} /\ x.vg = ci.vg \union vg
        /\ x.vs = ci.vs \union vs /\ x.props = ci.props /\ x.type = ci.type
        /\ x.num_props = ci.num_props /\ x.marker = ci.marker
    BY <1>1 DEF ClassInfos
  <1>3. x \in ClassInfos
    BY <1>1 DEF ClassInfos
  <1>4. \A g \in ci.methods : g[2] # f[2]
    BY DEF NamesOf
  <1>5. \A g, h \in x.methods : g[2] = h[2] => g = h
    BY <1>2, <1>4 DEF Whole
  <1>6. x.vg \union x.vs \subseteq x.methods
    BY <1>2 DEF Whole
  <1> QED
    BY <1>2, <1>3, <1>5, <1>6 DEF Whole

LEMMA PropertyWhole ==
  ASSUME NEW ci, Whole(ci), NEW y \in Members, y \notin ci.props,
         NEW x, x = [ci EXCEPT !.type = "FIELD", !.props = @ \union {y},
                               !.num_props = @ + 1]
  PROVE  Whole(x) /\ x.marker = ci.marker
  <1>1. ci \in ClassInfos
    BY DEF Whole
  <1>2. /\ x.methods = ci.methods /\ x.vg = ci.vg /\ x.vs = ci.vs
        /\ x.props = ci.props \union {y} /\ x.type = "FIELD"
        /\ x.num_props = ci.num_props + 1 /\ x.marker = ci.marker
    BY <1>1 DEF ClassInfos
  <1>3. x \in ClassInfos
    <2>1. /\ ci.num_props + 1 \in Nat /\ ci.props \union {y} \in SUBSET Members
          /\ "FIELD" \in ClassTypes
      BY <1>1 DEF ClassInfos, ClassTypes
    <2> QED
      BY <1>1, <2>1 DEF ClassInfos
  <1>4. /\ IsFiniteSet(ci.props \union {y})
        /\ Cardinality(ci.props \union {y}) = Cardinality(ci.props) + 1
    <2>1. IsFiniteSet(ci.props)
      BY DEF Whole
    <2> QED
      BY <2>1, FS_AddElement
  <1> QED
    BY <1>2, <1>3, <1>4 DEF Whole

LEMMA CCodeWhole ==
  ASSUME NEW ci, Whole(ci), ci.type # "FIELD",
         NEW x, x = [ci EXCEPT !.type = "CDATA"]
  PROVE  Whole(x) /\ x.marker = ci.marker
  <1>1. ci \in ClassInfos
    BY DEF Whole
  <1>2. /\ x.methods = ci.methods /\ x.vg = ci.vg /\ x.vs = ci.vs
        /\ x.props = ci.props /\ x.type = "CDATA"
        /\ x.num_props = ci.num_props /\ x.marker = ci.marker
    BY <1>1 DEF ClassInfos
  <1>3. x \in ClassInfos
    BY <1>1 DEF ClassInfos, ClassTypes
  <1> QED
    BY <1>2, <1>3 DEF Whole

(* What a .typ file gives back is what was written to it.                   *)
LEMMA ReadBack ==
  ASSUME NEW ci, Whole(ci), ci.marker = "UNVISITED"
  PROVE  Read(ci) = ci
  <1>1. ci \in ClassInfos /\ ci.num_props = Cardinality(ci.props)
    BY DEF Whole
  <1>2. ci = [type |-> ci.type, parent |-> ci.parent, mixins |-> ci.mixins,
              methods |-> ci.methods, vg |-> ci.vg, vs |-> ci.vs, props |-> ci.props,
              num_props |-> ci.num_props, marker |-> ci.marker]
    BY <1>1 DEF ClassInfos
  <1> DEFINE n == NewClass(ci.parent, ci.mixins)
             r == [n EXCEPT !.type = ci.type, !.methods = ci.methods, !.vg = ci.vg,
                            !.vs = ci.vs, !.props = ci.props,
                            !.num_props = Cardinality(ci.props)]
  <1>3. n \in ClassInfos /\ n.parent = ci.parent /\ n.mixins = ci.mixins
        /\ n.marker = "UNVISITED"
    BY <1>1, NewWhole DEF Whole, ClassInfos, NewClass
  <1>4. Read(ci) = r
    BY DEF Read
  <1> HIDE DEF n
  <1>5. /\ r.type = ci.type /\ r.parent = ci.parent /\ r.mixins = ci.mixins
        /\ r.methods = ci.methods /\ r.vg = ci.vg /\ r.vs = ci.vs
        /\ r.props = ci.props /\ r.num_props = ci.num_props /\ r.marker = ci.marker
    BY <1>1, <1>3 DEF ClassInfos
  <1>6. r \in ClassInfos
    BY <1>1, <1>3 DEF ClassInfos
  <1> HIDE DEF r
  <1>7. r = [type |-> r.type, parent |-> r.parent, mixins |-> r.mixins,
             methods |-> r.methods, vg |-> r.vg, vs |-> r.vs, props |-> r.props,
             num_props |-> r.num_props, marker |-> r.marker]
    BY <1>6 DEF ClassInfos
  <1> QED
    BY <1>2, <1>4, <1>5, <1>7

LEMMA MarkWhole ==
  ASSUME NEW ci, Whole(ci), NEW m \in Markers, NEW x, x = [ci EXCEPT !.marker = m]
  PROVE  /\ Whole(x) /\ x.marker = m
         /\ x.parent = ci.parent /\ x.mixins = ci.mixins /\ x.type = ci.type
         /\ x.methods = ci.methods /\ x.props = ci.props
         /\ x.vg = ci.vg /\ x.vs = ci.vs
  <1>1. ci \in ClassInfos
    BY DEF Whole
  <1>2. /\ x.methods = ci.methods /\ x.vg = ci.vg /\ x.vs = ci.vs
        /\ x.props = ci.props /\ x.type = ci.type /\ x.parent = ci.parent
        /\ x.mixins = ci.mixins /\ x.num_props = ci.num_props /\ x.marker = m
    BY <1>1 DEF ClassInfos
  <1>3. x \in ClassInfos
    BY <1>1 DEF ClassInfos, ClassTypes
  <1> QED
    BY <1>2, <1>3 DEF Whole

(* add_parent() accepts the parent or the mixin cp.                         *)
Accepted(ci, cp) == ~Refused(ci, cp, TRUE) \/ ~Refused(ci, cp, FALSE)

LEMMA InheritWhole ==
  ASSUME NEW ci, Whole(ci), NEW cp, Whole(cp), Accepted(ci, cp),
         NEW x, x = Inherit(ci, cp)
  PROVE  /\ Whole(x) /\ x.marker = ci.marker
         /\ x.parent = ci.parent /\ x.mixins = ci.mixins
         /\ x.methods = ci.methods \union cp.methods
         /\ x.vg = ci.vg /\ x.vs = ci.vs
         /\ cp.props \subseteq x.props /\ ci.props \subseteq x.props
  <1>1. ci \in ClassInfos /\ cp \in ClassInfos
    BY DEF Whole
  <1>2. /\ x.methods = ci.methods \union cp.methods /\ x.vg = ci.vg /\ x.vs = ci.vs
        /\ x.parent = ci.parent /\ x.mixins = ci.mixins /\ x.marker = ci.marker
    BY <1>1 DEF ClassInfos, Inherit
  <1>3. /\ x.type = IF ci.type = "VIRTUAL" /\ cp.type = "FIELD" THEN "FIELD" ELSE ci.type
        /\ x.props = IF cp.type = "FIELD" THEN ci.props \union cp.props ELSE ci.props
        /\ x.num_props = IF cp.type = "FIELD"
                         THEN ci.num_props + Cardinality(cp.props) ELSE ci.num_props
    BY <1>1 DEF ClassInfos, Inherit
  <1>4. /\ IsFiniteSet(cp.props) /\ IsFiniteSet(ci.props)
        /\ Cardinality(ci.props) \in Nat /\ Cardinality(cp.props) \in Nat
    BY FS_CardinalityType DEF Whole
  <1>5. x.num_props \in Nat /\ x.type \in ClassTypes
    BY <1>1, <1>3, <1>4 DEF ClassInfos, ClassTypes
  <1>6. x \in ClassInfos
    BY <1>1, <1>2, <1>3, <1>5 DEF ClassInfos, Inherit
  <1>7. NamesOf(ci.methods) \intersect NamesOf(cp.methods) = {}
    BY DEF Accepted, Refused
  <1>8. \A f \in ci.methods, g \in cp.methods : f[2] # g[2]
    BY <1>7 DEF NamesOf
  <1>9. \A f, g \in x.methods : f[2] = g[2] => f = g
    BY <1>2, <1>8 DEF Whole
  <1>10. IsFiniteSet(x.props) /\ x.num_props = Cardinality(x.props)
    <2>1. CASE cp.type = "FIELD"
      <3>1. ci.props \intersect cp.props = {}
        BY <2>1 DEF Accepted, Refused
      <3>2. /\ IsFiniteSet(ci.props \union cp.props)
            /\ Cardinality(ci.props \union cp.props) =
                 Cardinality(ci.props) + Cardinality(cp.props)
                   - Cardinality(ci.props \intersect cp.props)
        BY <1>4, FS_Union
      <3>3. Cardinality(ci.props \intersect cp.props) = 0
        BY <3>1, FS_EmptySet
      <3> QED
        BY <1>3, <1>4, <2>1, <3>2, <3>3 DEF Whole
    <2>2. CASE cp.type # "FIELD"
      BY <1>3, <1>4, <2>2 DEF Whole
    <2> QED
      BY <2>1, <2>2
  <1>11. x.type = "FIELD" <=> x.props # {}
    BY <1>1, <1>3 DEF Whole, Accepted, Refused, ClassInfos, ClassTypes
  <1>12. x.vg \union x.vs \subseteq x.methods
    BY <1>2 DEF Whole
  <1>13. cp.props \subseteq x.props /\ ci.props \subseteq x.props
    BY <1>3 DEF Whole
  <1> QED
    BY <1>2, <1>6, <1>9, <1>10, <1>11, <1>12, <1>13 DEF Whole

-----------------------------------------------------------------------------
(* A table in which one class has another ClassInfo.                        *)
Update(c, x) ==
  /\ Known' = Known /\ c \in Known
  /\ classes' = [d \in Known |-> IF d = c THEN x ELSE classes[d]]

LEMMA UpdateTables ==
  ASSUME Tables, NEW c \in Known, NEW x, Whole(x),
         classes' = [classes EXCEPT ![c] = x],
         class_info' \in Known \union {NoName}
  PROVE  Tables' /\ Update(c, x)
  <1>1. Update(c, x)
    BY DEF Tables, Update, Known
  <1>2. Tables'
    BY <1>1 DEF Tables, Update
  <1> QED
    BY <1>1, <1>2

(* While the program is absorbed no class is traced.                        *)
LEMMA AbsorbKeeps ==
  ASSUME SInv, pc = "absorb", pc' = "absorb", UNCHANGED <<path, msgs>>, Tables',
         \A c \in Known' : classes'[c].marker = "UNVISITED"
  PROVE  SInv'
  <1>1. Visited' = {}
    BY DEF Visited
  <1>2. Inherits'
    BY DEF Inherits, InheritsFromParent, MixesIn
  <1>3. Grounded(Visited)'
    BY <1>1 DEF Grounded
  <1> QED
    BY <1>2, <1>3 DEF SInv, NoCrash

(* An error leaves the tables as they are.                                  *)
LEMMA FatalKeeps ==
  ASSUME SInv, pc' = "fatal", UNCHANGED <<classes, class_info>>,
         path' \in Seq(Calls), UNCHANGED msgs
  PROVE  SInv'
  <1>1. Tables' /\ Inherits' /\ Grounded(Visited)'
    BY DEF SInv, Tables, Inherits, InheritsFromParent, MixesIn, Grounded, Visited, Known
  <1> QED
    BY <1>1 DEF SInv, NoCrash

-----------------------------------------------------------------------------
(* Absorbing a program, declaration by declaration.                         *)
LEMMA FatalInKeeps ==
  ASSUME SInv, NEW item, FatalIn(item)
  PROVE  SInv'
  <1>1. /\ pc' = "fatal" /\ UNCHANGED <<classes, class_info>> /\ UNCHANGED msgs
        /\ path' = path /\ path \in Seq(Calls)
    BY DEF FatalIn, Fatal, tables, SInv
  <1> QED
    BY <1>1, FatalKeeps

LEMMA TablesOnly ==
  ASSUME SInv, NEW item, Absorb(item), UNCHANGED <<classes, class_info>>
  PROVE  SInv'
  <1>1. /\ pc = "absorb" /\ pc' = "absorb" /\ UNCHANGED <<path, msgs>>
    BY DEF Absorb, Later
  <1>2. Tables' /\ \A c \in Known' : classes'[c].marker = "UNVISITED"
    BY <1>1 DEF SInv, Tables, Known
  <1> QED
    BY <1>1, <1>2, AbsorbKeeps

LEMMA ClassChanges ==
  ASSUME SInv, NEW item, Absorb(item), class_info # NoName, NEW x, Whole(x),
         x.marker = classes[class_info].marker,
         classes' = [classes EXCEPT ![class_info] = x], class_info' = class_info
  PROVE  SInv'
  <1>1. pc = "absorb" /\ pc' = "absorb" /\ UNCHANGED <<path, msgs>>
    BY DEF Absorb, Later
  <1>2. Tables /\ class_info \in Known
    BY DEF SInv, Tables
  <1>3. Tables' /\ Update(class_info, x)
    BY <1>2, UpdateTables
  <1>4. \A c \in Known' : classes'[c].marker = "UNVISITED"
    BY <1>1, <1>2, <1>3 DEF Update, SInv
  <1> QED
    BY <1>1, <1>3, <1>4, AbsorbKeeps

LEMMA EnterInv ==
  ASSUME SInv, NEW c \in Classes, NEW p \in Classes \union {NoName},
         NEW ms \in Seq(Classes), absorb_class_enter(c, p, ms)
  PROVE  SInv'
  <1>1. CASE c \in Known
    BY <1>1, FatalInKeeps DEF absorb_class_enter
  <1>2. CASE c \notin Known
    <2>1. /\ pc = "absorb" /\ pc' = "absorb" /\ UNCHANGED <<path, msgs>>
          /\ class_info' = c
          /\ classes' = [d \in Known \union {c} |->
                           IF d = c THEN NewClass(p, ms) ELSE classes[d]]
      BY <1>2 DEF absorb_class_enter, Absorb, Later
    <2>2. /\ Whole(NewClass(p, ms)) /\ NewClass(p, ms).marker = "UNVISITED"
      BY NewWhole
    <2>3. Known' = Known \union {c}
      BY <2>1 DEF Known
    <2>4. Tables'
      BY <2>1, <2>2, <2>3 DEF SInv, Tables
    <2>5. \A d \in Known' : classes'[d].marker = "UNVISITED"
      BY <2>1, <2>2, <2>3 DEF SInv
    <2> QED
      BY <2>1, <2>4, <2>5, AbsorbKeeps
  <1> QED
    BY <1>1, <1>2

LEMMA MethodInv ==
  ASSUME SInv, NEW name \in MethodNames, NEW type, absorb_method(name, type)
  PROVE  SInv'
  <1> DEFINE c == class_info
             m == MethodName(name, type)
             f == <<c, m>>
             vg == IF type = "VIRTUAL_GET" THEN {f} ELSE {}
             vs == IF type = "VIRTUAL_SET" THEN {f} ELSE {}
             x == [classes[c] EXCEPT !.methods = @ \union {f}, !.vg = @ \union vg,
                                     !.vs = @ \union vs]
  <1>0. c # NoName /\ c \in Known /\ c \in Classes /\ Whole(classes[c])
    BY DEF absorb_method, SInv, Tables
  <1>1. CASE m \in NamesOf(classes[c].methods) \/ f \in functions
    BY <1>1, FatalInKeeps DEF absorb_method
  <1>2. CASE ~(m \in NamesOf(classes[c].methods) \/ f \in functions)
    <2>1. /\ Absorb(Method(name, type)) /\ class_info' = class_info
          /\ classes' = WithMethod(classes, c, c, f, type)
      BY <1>2 DEF absorb_method
    <2>2. f \in FuncInfos /\ f[2] = m
      BY <1>0 DEF FuncInfos, MethodNames, MethodName
    <2>3. Whole(x) /\ x.marker = classes[c].marker
      <3>1. vg \in SUBSET {f} /\ vs \in SUBSET {f}
        OBVIOUS
      <3>2. f[2] \notin NamesOf(classes[c].methods)
        BY <1>2, <2>2
      <3> HIDE DEF vg, vs, f, c
      <3>3. Whole([classes[c] EXCEPT !.methods = @ \union {f}, !.vg = @ \union vg,
                                     !.vs = @ \union vs])
        BY <1>0, <2>2, <3>1, <3>2, MethodWhole, Zenon
      <3>4. x.marker = classes[c].marker
        BY <1>0 DEF Whole, ClassInfos
      <3> QED
        BY <3>3, <3>4
    <2>4. WithMethod(classes, c, c, f, type) = [classes EXCEPT ![c] = x]
      <3>0. classes = [d \in Known |-> classes[d]] /\ classes[c] \in ClassInfos
        BY <1>0 DEF SInv, Tables, Whole
      <3> HIDE DEF f, c
      <3>1. CASE type = "VIRTUAL_GET"
        BY ZenonT(60), <1>0, <3>0, <3>1 DEF WithMethod, ClassInfos
      <3>2. CASE type = "VIRTUAL_SET"
        BY ZenonT(60), <1>0, <3>0, <3>2 DEF WithMethod, ClassInfos
      <3>3. CASE type \notin {"VIRTUAL_GET", "VIRTUAL_SET"}
        BY <1>0, <3>0, <3>3 DEF WithMethod, ClassInfos
      <3> QED
        BY <3>1, <3>2, <3>3
    <2> HIDE DEF x, f
    <2> QED
      BY <1>0, <2>1, <2>3, <2>4, ClassChanges
  <1> QED
    BY <1>1, <1>2

LEMMA PropertyInv ==
  ASSUME SInv, NEW y \in Members, absorb_property(y)
  PROVE  SInv'
  <1> DEFINE c == class_info
             x == [classes[c] EXCEPT !.type = "FIELD", !.props = @ \union {y},
                                     !.num_props = @ + 1]
  <1>0. c # NoName /\ c \in Known /\ Whole(classes[c])
    BY DEF absorb_property, SInv, Tables
  <1>1. CASE classes[c].type = "CDATA" \/ y \in classes[c].props
    BY <1>1, FatalInKeeps DEF absorb_property
  <1>2. CASE ~(classes[c].type = "CDATA" \/ y \in classes[c].props)
    <2>1. /\ Absorb(Property(y)) /\ class_info' = class_info
          /\ classes' = [classes EXCEPT ![c].type = "FIELD",
                                        ![c].props = @ \union {y},
                                        ![c].num_props = @ + 1]
      BY <1>2 DEF absorb_property
    <2>2. Whole(x) /\ x.marker = classes[c].marker
      BY <1>0, <1>2, PropertyWhole
    <2>3. classes' = [classes EXCEPT ![c] = x]
      <3>0. classes = [d \in Known |-> classes[d]] /\ classes[c] \in ClassInfos
        BY <1>0 DEF SInv, Tables, Whole
      <3> QED
        BY <1>0, <2>1, <3>0 DEF ClassInfos
    <2> HIDE DEF x
    <2> QED
      BY <1>0, <2>1, <2>2, <2>3, ClassChanges
  <1> QED
    BY <1>1, <1>2

LEMMA CCodeInv ==
  ASSUME SInv, absorb_ccode
  PROVE  SInv'
  <1> DEFINE c == class_info
             x == [classes[c] EXCEPT !.type = "CDATA"]
  <1>0. c # NoName => c \in Known /\ Whole(classes[c])
    BY DEF SInv, Tables
  <1>1. CASE c # NoName /\ classes[c].type = "FIELD"
    BY <1>1, FatalInKeeps DEF absorb_ccode
  <1>2. CASE c # NoName /\ classes[c].type # "FIELD"
    <2>1. /\ Absorb(CCode) /\ class_info' = class_info
          /\ classes' = [classes EXCEPT ![c].type = "CDATA"]
      BY <1>2 DEF absorb_ccode
    <2>2. Whole(x) /\ x.marker = classes[c].marker
      BY <1>0, <1>2, CCodeWhole
    <2>3. classes' = [classes EXCEPT ![c] = x]
      <3>0. classes = [d \in Known |-> classes[d]] /\ classes[c] \in ClassInfos
        BY <1>0, <1>2 DEF SInv, Tables, Whole
      <3> QED
        BY <1>0, <2>1, <3>0 DEF ClassInfos
    <2> HIDE DEF x
    <2> QED
      BY <1>2, <2>1, <2>2, <2>3, ClassChanges
  <1>3. CASE c = NoName
    BY <1>3, TablesOnly DEF absorb_ccode
  <1> QED
    BY <1>1, <1>2, <1>3

LEMMA ExitInv ==
  ASSUME SInv, absorb_class_exit
  PROVE  SInv'
  <1>1. /\ pc = "absorb" /\ pc' = "absorb" /\ UNCHANGED <<path, msgs>>
        /\ classes' = classes /\ class_info' = NoName
    BY DEF absorb_class_exit, Later, tables
  <1>2. Tables' /\ \A c \in Known' : classes'[c].marker = "UNVISITED"
    BY <1>1 DEF SInv, Tables, Known
  <1> QED
    BY <1>1, <1>2, AbsorbKeeps

LEMMA FileInv ==
  ASSUME SInv, NEW omit \in BOOLEAN, stran_absorb_file(omit)
  PROVE  SInv' /\ (~Unreadable => UNCHANGED <<classes, functions, globals>>)
  <1>1. CASE Unreadable
    BY <1>1, FatalInKeeps DEF stran_absorb_file
  <1>2. CASE ~Unreadable
    <2>1. /\ pc = "absorb" /\ pc' = "absorb" /\ UNCHANGED <<path, msgs>>
          /\ class_info' = class_info /\ UNCHANGED <<functions, globals>>
          /\ classes' = [c \in Known |-> Read(classes[c])]
      BY <1>2 DEF stran_absorb_file
    <2>2. \A c \in Known : Read(classes[c]) = classes[c]
      BY <2>1, ReadBack DEF SInv, Tables
    <2>3. classes' = classes
      BY <2>1, <2>2 DEF SInv, Tables
    <2>4. Tables' /\ \A c \in Known' : classes'[c].marker = "UNVISITED"
      BY <2>1, <2>3 DEF SInv, Tables, Known
    <2> QED
      BY <2>1, <2>3, <2>4, AbsorbKeeps
  <1> QED
    BY <1>1, <1>2

LEMMA KinshipTypes ==
  ASSUME NEW kin \in Kinships
  PROVE  kin[1] \in Classes \union {NoName} /\ kin[2] \in Seq(Classes)
  <1>1. PICK n \in 0..2 : kin[2] \in [1..n -> Classes]
    BY DEF Kinships
  <1>2. kin[2] \in Seq(Classes)
    BY <1>1
  <1> QED
    BY <1>2 DEF Kinships

LEMMA AbsorbInv ==
  ASSUME SInv, AbsorbSome
  PROVE  SInv'
  <1>1. ASSUME NEW c \in Classes, NEW kin \in Kinships,
               absorb_class_enter(c, kin[1], kin[2])
        PROVE  SInv'
    BY <1>1, KinshipTypes, EnterInv
  <1>2. ASSUME NEW y \in Members, absorb_var(y)
        PROVE  SInv'
    BY <1>2, FatalInKeeps, TablesOnly DEF absorb_var
  <1>3. ASSUME NEW sp \in Classes, NEW y \in Members, NEW params \in Params,
               AbsorbFunction(sp, <<"", y>>, params)
        PROVE  SInv'
    BY <1>3, FatalInKeeps, TablesOnly DEF AbsorbFunction, absorb_function
  <1>4. ASSUME NEW name \in {"", "get_"} \X Members, NEW annots \in SUBSET Annotations,
               NEW params \in Params, AbsorbMethod(name, params, annots)
        PROVE  SInv'
    <2>1. name \in MethodNames
      BY DEF MethodNames
    <2>2. CASE FatalIn(Method(name, TypeOf(annots)))
      BY <2>2, FatalInKeeps
    <2>3. CASE absorb_constructor(name)
      BY <2>3, FatalInKeeps, TablesOnly DEF absorb_constructor
    <2>4. CASE absorb_method(name, TypeOf(annots))
      BY <2>1, <2>4, MethodInv
    <2> QED
      BY <1>4, <2>2, <2>3, <2>4 DEF AbsorbMethod
  <1> QED
    BY <1>1, <1>2, <1>3, <1>4, ExitInv, PropertyInv, CCodeInv DEF AbsorbSome

-----------------------------------------------------------------------------
(* What a class that is being traced may become: nothing it has is lost,    *)
(* and a class without parent and mixins stays as it is.                    *)
Grown(c, x) ==
  LET ci == classes[c]
  IN  /\ Whole(x) /\ x.parent = ci.parent /\ x.mixins = ci.mixins
      /\ ci.methods \subseteq x.methods
      /\ ci.parent = NoName /\ ci.mixins = <<>> =>
           x.type = ci.type /\ x.methods = ci.methods

FromParent(d) ==
  LET p == classes[d].parent
  IN  p # NoName => /\ p \in Visited
                    /\ classes[p].methods \subseteq classes[d].methods
                    /\ classes[p].props \subseteq classes[d].props

FromMixins(d) == \A j \in DOMAIN classes[d].mixins : Mixed(d, classes[d].mixins[j])

LEMMA InheritsMeans ==
  Inherits <=> \A d \in Visited : FromParent(d) /\ FromMixins(d)
  BY DEF Inherits, InheritsFromParent, MixesIn, FromParent, FromMixins, Mixed, Visited

LEMMA InheritsNext ==
  ASSUME \A d \in Visited' : FromParent(d)' /\ FromMixins(d)'
  PROVE  Inherits'
  BY DEF Inherits, InheritsFromParent, MixesIn, FromParent, FromMixins, Mixed, Visited

LEMMA OthersKept ==
  ASSUME SInv, NEW c \in Known, classes[c].marker # "VISITED",
         NEW x, Grown(c, x), Update(c, x)
  PROVE  /\ \A d \in Known : \A n : Mixed(d, n) => Mixed(d, n)'
         /\ Visited \subseteq Visited' /\ Visited' \subseteq Visited \union {c}
         /\ c \in Visited' <=> x.marker = "VISITED"
         /\ \A d \in Visited : classes'[d] = classes[d] /\ d # c
                               /\ FromParent(d)' /\ FromMixins(d)'
         /\ \A d \in Known : /\ classes'[d].parent = classes[d].parent
                             /\ classes'[d].mixins = classes[d].mixins
  <1>1. /\ Known' = Known /\ classes'[c] = x
        /\ \A d \in Known : d # c => classes'[d] = classes[d]
    BY DEF Update
  <1>2. \A d \in Known : /\ classes'[d].parent = classes[d].parent
                         /\ classes'[d].mixins = classes[d].mixins
                         /\ classes[d].methods \subseteq classes'[d].methods
    BY <1>1 DEF Grown
  <1>3. ASSUME NEW d \in Known, NEW n, Mixed(d, n)
        PROVE  Mixed(d, n)'
    <2>1. n \in Known
      BY <1>3 DEF Mixed
    <2>2. classes[n].parent = NoName /\ classes[n].mixins = <<>> =>
            classes'[n].type = classes[n].type /\ classes'[n].methods = classes[n].methods
      BY <1>1, <2>1 DEF Grown
    <2> QED
      BY <1>1, <1>2, <1>3, <2>1, <2>2 DEF Mixed
  <1>4. \A d \in Visited : d \in Known /\ d # c /\ classes'[d] = classes[d]
    BY <1>1 DEF Visited
  <1>5. /\ Visited \subseteq Visited' /\ Visited' \subseteq Visited \union {c}
        /\ c \in Visited' <=> x.marker = "VISITED"
    BY <1>1, <1>4 DEF Visited
  <1>6. ASSUME NEW d \in Visited
        PROVE  FromParent(d)' /\ FromMixins(d)'
    <2>1. FromParent(d) /\ FromMixins(d)
      BY InheritsMeans DEF SInv
    <2>2. FromParent(d)'
      BY <1>4, <1>5, <2>1 DEF FromParent
    <2>3. FromMixins(d)'
      BY <1>3, <1>4, <2>1 DEF FromMixins
    <2> QED
      BY <2>2, <2>3
  <1> QED
    BY <1>2, <1>3, <1>4, <1>5, <1>6

(* As long as nothing becomes VISITED, what is traced keeps its parents.    *)
LEMMA VisitedKept ==
  ASSUME SInv, NEW c \in Known, classes[c].marker # "VISITED",
         NEW x, Grown(c, x), Update(c, x), x.marker # "VISITED"
  PROVE  Visited' = Visited /\ Inherits' /\ Grounded(Visited)'
  <1>1. Visited' = Visited
    BY OthersKept
  <1>2. Inherits'
    BY <1>1, OthersKept, InheritsNext
  <1>3. \A d \in Visited : classes'[d] = classes[d]
    BY OthersKept
  <1>4. Grounded(Visited)'
    BY <1>1, <1>3 DEF SInv, Grounded
  <1> QED
    BY <1>1, <1>2, <1>4

(* A class becomes VISITED when its parent is, so no ring is closed.        *)
LEMMA VisitedMore ==
  ASSUME SInv, NEW c \in Known, classes[c].marker # "VISITED",
         NEW x, Grown(c, x), Update(c, x), x.marker = "VISITED",
         FromParent(c)', FromMixins(c)', classes[c].parent \in Visited \union {NoName}
  PROVE  Visited' = Visited \union {c} /\ Inherits' /\ Grounded(Visited)'
  <1>1. Visited' = Visited \union {c}
    BY OthersKept
  <1>2. Inherits'
    <2>1. \A d \in Visited' : FromParent(d)' /\ FromMixins(d)'
      BY <1>1, OthersKept
    <2> QED
      BY <2>1, InheritsNext
  <1>3. \A d \in Known : classes'[d].parent = classes[d].parent
    BY OthersKept
  <1>4. Visited \subseteq Known /\ c \notin Visited /\ NoName \notin Known
    BY NamesAssumption DEF Visited, SInv, Tables
  <1>5. \A d \in Visited : classes[d].parent \in Visited \union {NoName}
    BY InheritsMeans DEF SInv, FromParent
  <1>6. ASSUME NEW S \in SUBSET Visited', S # {}
        PROVE  \E d \in S : classes'[d].parent \notin S
    <2>1. S \subseteq Known
      BY <1>1, <1>4
    <2>2. CASE S \ {c} = {}
      <3>1. S = {c} /\ classes'[c].parent \notin S
        BY <1>3, <1>4, <1>6, <2>2
      <3> QED
        BY <1>6, <3>1
    <2>3. CASE S \ {c} # {}
      <3>1. S \ {c} \in SUBSET Visited
        BY <1>1
      <3>2. PICK d \in S \ {c} : classes[d].parent \notin S \ {c}
        BY <2>3, <3>1 DEF SInv, Grounded
      <3>3. d \in Visited /\ d \in Known
        BY <1>4, <3>1, <3>2
      <3>4. classes[d].parent # c
        BY <1>4, <1>5, <3>3
      <3>5. classes'[d].parent \notin S
        BY <1>3, <1>4, <2>1, <3>2, <3>3, <3>4
      <3> QED
        BY <3>2, <3>5
    <2> QED
      BY <2>2, <2>3
  <1>7. Grounded(Visited)'
    BY <1>6 DEF Grounded
  <1> QED
    BY <1>1, <1>2, <1>7

-----------------------------------------------------------------------------
(* The active calls.                                                        *)
LEMMA WithoutFacts ==
  ASSUME NEW S, NEW s \in Seq(S), NEW j \in DOMAIN s
  PROVE  /\ Without(s, j) \in Seq(S)
         /\ Len(Without(s, j)) = Len(s) - 1
         /\ \A l \in DOMAIN Without(s, j) : \E i \in DOMAIN s : Without(s, j)[l] = s[i]
         /\ \A i \in DOMAIN s : i # j =>
              \E l \in DOMAIN Without(s, j) : Without(s, j)[l] = s[i]
  <1> DEFINE a == SubSeq(s, 1, j - 1)
             b == SubSeq(s, j + 1, Len(s))
             w == a \o b
  <1>1. j \in 1..Len(s) /\ Len(s) \in Nat /\ DOMAIN s = 1..Len(s)
    OBVIOUS
  <1>2. a \in Seq(S) /\ Len(a) = j - 1 /\ \A i \in 1..(j-1) : a[i] = s[i]
    BY <1>1
  <1>3. b \in Seq(S) /\ Len(b) = Len(s) - j /\ \A i \in 1..(Len(s)-j) : b[i] = s[i+j]
    BY <1>1
  <1> HIDE DEF a, b
  <1>4. w \in Seq(S) /\ Len(w) = Len(s) - 1 /\ DOMAIN w = 1..(Len(s)-1)
    <2>1. a \in Seq(S) /\ b \in Seq(S)
      BY <1>2, <1>3
    <2>2. w \in Seq(S) /\ Len(w) = Len(a) + Len(b)
      BY <2>1
    <2>3. Len(a) + Len(b) = Len(s) - 1
      BY <1>1, <1>2, <1>3
    <2> HIDE DEF w
    <2> QED
      BY <2>2, <2>3
  <1>5. \A i \in 1..(Len(s)-1) : w[i] = IF i < j THEN s[i] ELSE s[i+1]
    <2> TAKE i \in 1..(Len(s)-1)
    <2>1. CASE i < j
      BY <1>1, <1>2, <1>3, <2>1
    <2>2. CASE ~(i < j)
      <3>1. w[i] = b[i - (j-1)] /\ i - (j-1) \in 1..(Len(s)-j)
        BY <1>1, <1>2, <1>3, <2>2
      <3>2. i - (j-1) + j = i + 1
        BY <1>1
      <3> QED
        BY <1>3, <2>2, <3>1, <3>2
    <2> QED
      BY <2>1, <2>2
  <1>6. Without(s, j) = w
    BY DEF Without, a, b
  <1> HIDE DEF w
  <1>7. \A l \in DOMAIN w : \E i \in DOMAIN s : w[l] = s[i]
    BY <1>1, <1>4, <1>5
  <1>8. ASSUME NEW i \in DOMAIN s, i # j
        PROVE  \E l \in DOMAIN w : w[l] = s[i]
    <2>1. CASE i < j
      BY <1>1, <1>4, <1>5, <2>1
    <2>2. CASE i > j
      <3>1. i - 1 \in DOMAIN w /\ w[i-1] = s[i-1+1] /\ i-1+1 = i
        BY <1>1, <1>4, <1>5, <2>2
      <3> QED
        BY <3>1
    <2> QED
      BY <1>1, <1>8, <2>1, <2>2
  <1> QED
    BY <1>4, <1>6, <1>7, <1>8

LEMMA PopSeq ==
  ASSUME NEW S, NEW s \in Seq(S), Len(s) > 0
  PROVE  /\ Pop(s) \in Seq(S) /\ Len(Pop(s)) = Len(s) - 1
         /\ \A i \in 1..(Len(s)-1) : Pop(s)[i] = s[i]
  <1> DEFINE n == Len(s) - 1
  <1>1. n \in 0..Len(s) /\ Pop(s) = SubSeq(s, 1, n)
    BY DEF Pop
  <1> HIDE DEF n
  <1>2. /\ SubSeq(s, 1, n) \in Seq(S) /\ Len(SubSeq(s, 1, n)) = n
        /\ \A i \in 1..n : SubSeq(s, 1, n)[i] = s[i]
    BY <1>1
  <1> QED
    BY <1>1, <1>2 DEF n

LEMMA PushSeq ==
  ASSUME NEW S, NEW s \in Seq(S), NEW e \in S
  PROVE  /\ Append(s, e) \in Seq(S) /\ Len(Append(s, e)) = Len(s) + 1
         /\ \A i \in 1..Len(s) : Append(s, e)[i] = s[i]
         /\ Append(s, e)[Len(s) + 1] = e
  OBVIOUS

(* A call that does not move keeps what it has come to.                     *)
LEMMA CallKept ==
  ASSUME SInv, NEW c \in Known, classes[c].marker # "VISITED",
         NEW x, Grown(c, x), Update(c, x), NEW i \in 1..Len(path), CallInv(i),
         path'[i] = path[i], path[i].class = c => x.marker = "VISITING"
  PROVE  CallInv(i)'
  <1> DEFINE d == path[i].class
  <1>1. d \in Known /\ classes[d].marker = "VISITING"
    BY DEF CallInv
  <1>2. Known' = Known /\ classes'[d].marker = "VISITING"
    BY <1>1 DEF Update
  <1>3. /\ \A n : Mixed(d, n) => Mixed(d, n)'
        /\ classes'[d].parent = classes[d].parent
        /\ classes'[d].mixins = classes[d].mixins
    BY <1>1, OthersKept
  <1> QED
    BY <1>1, <1>2, <1>3 DEF CallInv

(* The caller has noted that it calls genist_run_r() for its parent.        *)
Noted(q) ==
  \/ path = <<>> /\ q = path
  \/ /\ path # <<>> /\ Top.left = <<>> /\ classes[Top.class].parent # NoName
     /\ q = [path EXCEPT ![Len(path)].called = TRUE]

LEMMA NotedFacts ==
  ASSUME SInv, pc = "trace", NEW q, Noted(q)
  PROVE  /\ q \in Seq(Calls) /\ Len(q) = Len(path) /\ Len(path) \in Nat
         /\ \A i \in 1..Len(path) :
              /\ q[i].class = path[i].class /\ q[i].left = path[i].left
              /\ i < Len(path) => q[i] = path[i]
              /\ i = Len(path) => /\ q[i].called = TRUE /\ q[i].left = <<>>
                                  /\ classes[q[i].class].parent # NoName
  <1>1. path \in Seq(Calls) /\ Len(path) \in Nat
    BY DEF SInv
  <1>2. CASE path = <<>>
    BY <1>1, <1>2 DEF Noted
  <1>3. CASE path # <<>>
    <2>1. Len(path) \in 1..Len(path) /\ Top = path[Len(path)]
      BY <1>1, <1>3 DEF Top
    <2>2. q = [path EXCEPT ![Len(path)].called = TRUE]
      BY <1>3 DEF Noted
    <2>3. Top.left = <<>> /\ classes[Top.class].parent # NoName
      BY <1>3 DEF Noted
    <2>4. Top \in Calls
      BY <1>1, <2>1
    <2>5. q \in Seq(Calls) /\ Len(q) = Len(path)
      <3>1. [Top EXCEPT !.called = TRUE] \in Calls
        BY <2>4 DEF Calls
      <3>2. q = [path EXCEPT ![Len(path)] = [Top EXCEPT !.called = TRUE]]
        BY <2>1, <2>2
      <3> QED
        BY <1>1, <2>1, <3>1, <3>2
    <2>6. /\ q[Len(path)].class = Top.class /\ q[Len(path)].left = Top.left
          /\ q[Len(path)].called = TRUE
      BY <1>1, <2>1, <2>2, <2>4 DEF Calls
    <2>7. \A i \in 1..Len(path) : i < Len(path) => q[i] = path[i]
      BY <1>1, <2>1, <2>2
    <2>8. \A i \in 1..Len(path) : i < Len(path) \/ i = Len(path)
      BY <1>1
    <2> QED
      BY <1>1, <2>1, <2>3, <2>5, <2>6, <2>7, <2>8
  <1> QED
    BY <1>2, <1>3

-----------------------------------------------------------------------------
(* genist_run_r() is called for a class that is not traced yet: it cannot   *)
(* be on the path, for every class there is VISITING.                       *)
LEMMA PushInv ==
  ASSUME SInv, pc = "trace", pc' = "trace", NEW c \in Known,
         classes[c].marker = "UNVISITED", NEW q, Noted(q),
         path # <<>> => classes[Top.class].parent = c,
         classes' = Marked(classes, c, "VISITING"), path' = Append(q, Call(c)),
         msgs' = Append(msgs, c), class_info' = class_info, todo \ {c} \subseteq todo'
  PROVE  SInv'
  <1> DEFINE x == [classes[c] EXCEPT !.marker = "VISITING"]
             n == Len(path)
             msgset == {"structure", "genealogy", "processing"} \union Classes
  <1>1. /\ Tables /\ Tracing /\ path \in Seq(Calls) /\ msgs \in Seq(msgset)
        /\ c \in Classes /\ Whole(classes[c]) /\ n \in Nat
    BY DEF SInv, Tables
  <1>2. /\ Whole(x) /\ x.marker = "VISITING"
        /\ x.parent = classes[c].parent /\ x.mixins = classes[c].mixins
        /\ x.type = classes[c].type /\ x.methods = classes[c].methods
    BY <1>1, MarkWhole DEF Markers
  <1>3. Grown(c, x)
    BY <1>2 DEF Grown
  <1>4. classes' = [classes EXCEPT ![c] = x]
    BY DEF Marked
  <1> HIDE DEF x
  <1>5. Tables' /\ Update(c, x)
    BY <1>1, <1>2, <1>4, UpdateTables DEF Tables
  <1>6. Visited' = Visited /\ Inherits' /\ Grounded(Visited)'
    BY <1>2, <1>3, <1>5, VisitedKept
  <1>7. /\ q \in Seq(Calls) /\ Len(q) = n
        /\ \A i \in 1..n :
              /\ q[i].class = path[i].class /\ q[i].left = path[i].left
              /\ i < n => q[i] = path[i]
              /\ i = n => /\ q[i].called = TRUE /\ q[i].left = <<>>
                          /\ classes[q[i].class].parent # NoName
    BY NotedFacts
  <1>8. /\ Call(c) \in Calls /\ Call(c).class = c /\ Call(c).left = classes[c].mixins
        /\ Call(c).called = FALSE
    BY <1>1 DEF Call, Calls, Whole, ClassInfos
  <1>9. /\ path' \in Seq(Calls) /\ Len(path') = n + 1
        /\ path'[n+1] = Call(c) /\ \A i \in 1..n : path'[i] = q[i]
    BY <1>7, <1>8, PushSeq
  <1>10. \A i \in 1..n : path[i].class # c
    BY <1>1 DEF Tracing, CallInv
  <1>0. n \in Nat /\ \A i \in 1..n : i = n \/ i < n
    BY <1>1
  <1>11. ASSUME NEW i \in 1..n PROVE CallInv(i)' /\ LinkInv(i)'
    <2>0. PICK d : d = path[i].class
      OBVIOUS
    <2>1. CallInv(i) /\ LinkInv(i) /\ d \in Known
      BY <1>1, <2>0 DEF Tracing, CallInv
    <2>2. /\ Known' = Known /\ classes'[d] = classes[d]
      BY <1>5, <1>10, <2>0, <2>1 DEF Update
    <2>3. \A m : Mixed(d, m) => Mixed(d, m)'
      BY <1>3, <1>5, <2>1, OthersKept
    <2>4. /\ path'[i].class = d /\ path'[i].left = path[i].left
          /\ path'[i].called = TRUE /\ classes[d].parent # NoName /\ path[i].left = <<>>
      <3>1. CASE i = n
        BY <1>7, <1>9, <2>0, <3>1
      <3>2. CASE i < n
        BY <1>7, <1>9, <2>0, <2>1, <3>2 DEF LinkInv, CallInv
      <3> QED
        BY <1>0, <3>1, <3>2
    <2>5. CallInv(i)'
      BY <2>0, <2>1, <2>2, <2>3, <2>4 DEF CallInv
    <2>6. i < Len(path') /\ classes[d].parent = path'[i+1].class
      <3>1. CASE i = n
        BY <1>0, <1>8, <1>9, <2>0, <3>1 DEF Top
      <3>2. CASE i < n
        <4>1. i + 1 \in 1..n /\ path'[i+1].class = path[i+1].class
          BY <1>0, <1>7, <1>9, <3>2
        <4> QED
          BY <1>0, <1>9, <2>0, <2>1, <3>2, <4>1 DEF LinkInv
      <3> QED
        BY <1>0, <3>1, <3>2
    <2>7. LinkInv(i)'
      BY <1>0, <1>9, <2>2, <2>4, <2>6 DEF LinkInv
    <2> QED
      BY <2>5, <2>7
  <1>12. ASSUME NEW k \in Nat, k = n + 1 PROVE CallInv(k)' /\ LinkInv(k)'
    <2>1. c \in Known' /\ classes'[c] = x
      BY <1>5 DEF Update
    <2>2. CallInv(k)'
      <3>1. /\ path'[k].class = c /\ path'[k].left = classes[c].mixins
            /\ ~(path'[k].called = TRUE)
        BY <1>8, <1>9, <1>12
      <3>2. classes'[c].marker = "VISITING" /\ classes'[c].mixins = classes[c].mixins
        BY <1>2, <2>1
      <3> QED
        BY <2>1, <3>1, <3>2 DEF CallInv
    <2>3. LinkInv(k)'
      BY <1>0, <1>8, <1>9, <1>12 DEF LinkInv
    <2> QED
      BY <2>2, <2>3
  <1>13. Tracing'
    <2>1. \A d \in Known' : classes'[d].marker = "UNVISITED" => d \in todo'
      BY <1>1, <1>2, <1>5 DEF Update, Tracing
    <2>2. \A d \in Known' : classes'[d].marker = "VISITING" =>
                              \E i \in 1..Len(path') : path'[i].class = d
      <3> TAKE d \in Known'
      <3> HAVE classes'[d].marker = "VISITING"
      <3>1. CASE d = c
        BY <1>1, <1>8, <1>9, <3>1
      <3>2. CASE d # c
        <4>1. d \in Known /\ classes'[d] = classes[d]
          BY <1>5, <3>2 DEF Update
        <4>2. PICK i \in 1..n : path[i].class = d
          BY <1>1, <4>1 DEF Tracing
        <4> QED
          <5>1. path'[i] = q[i] /\ q[i].class = path[i].class /\ i \in 1..(n + 1)
            BY <1>1, <1>7, <1>9, <4>2
          <5> QED
            BY <1>9, <4>2, <5>1
      <3> QED
        BY <3>1, <3>2
    <2>3. \A i \in 1..Len(path') : CallInv(i)' /\ LinkInv(i)'
      <3>1. \A i \in 1..Len(path') : i \in 1..n \/ i = n + 1
        BY <1>0, <1>9
      <3> QED
        BY <1>0, <1>11, <1>12, <3>1
    <2>4. \A i, j \in 1..Len(path') : path'[i].class = path'[j].class => i = j
      <3>1. \A i \in 1..n : path'[i].class = path[i].class
        BY <1>7, <1>9
      <3>2. \A i \in 1..Len(path') : i \in 1..n \/ i = n + 1
        BY <1>0, <1>9
      <3>3. \A i, j \in 1..n : path[i].class = path[j].class => i = j
        BY <1>1 DEF Tracing
      <3> QED
        BY <1>8, <1>9, <1>10, <3>1, <3>2, <3>3
    <2>5. /\ Len(msgs') = Len(msgs) + 1 /\ msgs'[Len(msgs) + 1] = c
          /\ \A i \in 1..Len(msgs) : msgs'[i] = msgs[i]
      BY <1>1, PushSeq
    <2>6. Len(msgs') = Len(path') + 1 /\ msgs'[1] = "genealogy"
      BY <1>1, <1>9, <2>5 DEF Tracing
    <2>7. \A i \in 1..Len(path') : msgs'[i+1] = path'[i].class
      <3> TAKE i \in 1..Len(path')
      <3>1. CASE i = n + 1
        BY <1>1, <1>8, <1>9, <2>5, <3>1 DEF Tracing
      <3>2. CASE i \in 1..n
        <4>1. i + 1 \in 1..Len(msgs)
          BY <1>1, <3>2 DEF Tracing
        <4> QED
          BY <1>1, <1>7, <1>9, <2>5, <3>2, <4>1 DEF Tracing
      <3>3. i \in 1..n \/ i = n + 1
        BY <1>0, <1>9
      <3> QED
        BY <3>1, <3>2, <3>3
    <2> QED
      BY <2>1, <2>2, <2>3, <2>4, <2>6, <2>7 DEF Tracing
  <1>14. msgs' \in Seq(msgset)
    BY <1>1
  <1> QED
    BY <1>5, <1>6, <1>9, <1>13, <1>14 DEF SInv, NoCrash

(* ... and for one that is traced: it returns at once.                      *)
LEMMA StayInv ==
  ASSUME SInv, pc = "trace", pc' = "trace", NEW c \in Visited, NEW q, Noted(q),
         path # <<>> => classes[Top.class].parent = c,
         UNCHANGED <<classes, msgs, class_info>>, path' = q, todo \ {c} \subseteq todo'
  PROVE  SInv'
  <1> DEFINE n == Len(path)
  <1>1. Tracing /\ path \in Seq(Calls) /\ n \in Nat /\ \A i \in 1..n : i = n \/ i < n
    BY DEF SInv
  <1>2. /\ Tables' /\ Inherits' /\ Grounded(Visited)' /\ Visited' = Visited
        /\ Known' = Known /\ \A d, m : Mixed(d, m) => Mixed(d, m)'
    BY DEF SInv, Tables, Inherits, InheritsFromParent, MixesIn, Grounded, Visited,
           Known, Mixed
  <1>3. /\ path' \in Seq(Calls) /\ Len(path') = n
        /\ \A i \in 1..n :
              /\ path'[i].class = path[i].class /\ path'[i].left = path[i].left
              /\ i < n => path'[i] = path[i]
              /\ i = n => /\ path'[i].called = TRUE /\ path'[i].left = <<>>
                          /\ classes[path'[i].class].parent # NoName
    <2>1. /\ q \in Seq(Calls) /\ Len(q) = n
          /\ \A i \in 1..n :
                /\ q[i].class = path[i].class /\ q[i].left = path[i].left
                /\ i < n => q[i] = path[i]
                /\ i = n => /\ q[i].called = TRUE /\ q[i].left = <<>>
                            /\ classes[q[i].class].parent # NoName
      BY NotedFacts
    <2> QED
      BY <2>1
  <1>4. ASSUME NEW i \in 1..n PROVE CallInv(i)' /\ LinkInv(i)'
    <2>0. PICK d : d = path[i].class
      OBVIOUS
    <2>1. CallInv(i) /\ LinkInv(i) /\ d \in Known
      BY <1>1, <2>0 DEF Tracing, CallInv
    <2>2. /\ path'[i].class = d /\ path'[i].left = path[i].left
          /\ path'[i].called = TRUE /\ classes[d].parent # NoName /\ path[i].left = <<>>
      <3>1. CASE i = n
        BY <1>3, <2>0, <3>1
      <3>2. CASE i < n
        BY <1>3, <2>0, <2>1, <3>2 DEF LinkInv, CallInv
      <3> QED
        BY <1>1, <3>1, <3>2
    <2>3. CallInv(i)'
      BY <1>2, <2>0, <2>1, <2>2 DEF CallInv
    <2>4. LinkInv(i)'
      <3>1. CASE i = n
        <4>1. path # <<>> /\ Top.class = d
          BY <1>1, <2>0, <3>1 DEF Top
        <4> QED
          BY <1>1, <1>2, <1>3, <2>2, <3>1, <4>1 DEF LinkInv
      <3>2. CASE i < n
        <4>1. i + 1 \in 1..n /\ path'[i+1].class = path[i+1].class
          BY <1>1, <1>3, <3>2
        <4> QED
          BY <1>1, <1>3, <2>0, <2>1, <2>2, <3>2, <4>1 DEF LinkInv
      <3> QED
        BY <1>1, <3>1, <3>2
    <2> QED
      BY <2>3, <2>4
  <1>5. Tracing'
    <2>1. \A d \in Known' : classes'[d].marker = "UNVISITED" => d \in todo'
      BY <1>1, <1>2 DEF Tracing, Visited
    <2>2. \A d \in Known' : classes'[d].marker = "VISITING" =>
                              \E i \in 1..Len(path') : path'[i].class = d
      BY <1>1, <1>2, <1>3 DEF Tracing
    <2>3. \A i, j \in 1..Len(path') : path'[i].class = path'[j].class => i = j
      BY <1>1, <1>3 DEF Tracing
    <2>4. /\ Len(msgs') = Len(path') + 1 /\ msgs'[1] = "genealogy"
          /\ \A i \in 1..Len(path') : msgs'[i+1] = path'[i].class
      BY <1>1, <1>3 DEF Tracing
    <2> QED
      BY <1>3, <1>4, <2>1, <2>2, <2>3, <2>4 DEF Tracing
  <1> QED
    BY <1>2, <1>3, <1>5 DEF SInv, NoCrash

(* The innermost call.                                                      *)
LEMMA TopCall ==
  ASSUME SInv, InTrace
  PROVE  /\ path \in Seq(Calls) /\ Len(path) \in Nat /\ Len(path) \in 1..Len(path)
         /\ Top = path[Len(path)] /\ Top \in Calls /\ Tracing
         /\ Top.class \in Known /\ classes[Top.class].marker = "VISITING"
         /\ Whole(classes[Top.class]) /\ CallInv(Len(path)) /\ LinkInv(Len(path))
  <1>1. path \in Seq(Calls) /\ path # <<>> /\ Tracing
    BY DEF SInv, InTrace
  <1>2. Len(path) \in Nat /\ Len(path) \in 1..Len(path) /\ Top = path[Len(path)]
    BY <1>1 DEF Top
  <1>3. CallInv(Len(path)) /\ LinkInv(Len(path))
    BY <1>1, <1>2 DEF Tracing
  <1>4. Top.class \in Known /\ classes[Top.class].marker = "VISITING"
    BY <1>2, <1>3 DEF CallInv
  <1>5. Whole(classes[Top.class])
    BY <1>4 DEF SInv, Tables
  <1> QED
    BY <1>1, <1>2, <1>3, <1>4, <1>5

(* A mixin is copied.                                                       *)
LEMMA MixInv ==
  ASSUME SInv, InTrace, pc' = "trace", NEW j \in DOMAIN Top.left,
         ~AddFails(Top.class, Top.left[j], TRUE),
         path' = [path EXCEPT ![Len(path)].left = Without(@, j)],
         classes' = [classes EXCEPT ![Top.class] = Inherit(@, classes[Top.left[j]])],
         UNCHANGED <<class_info, msgs, todo>>
  PROVE  SInv'
  <1>0. PICK c, n, m, x, t : /\ c = Top.class /\ n = Len(path) /\ m = Top.left[j]
                             /\ x = Inherit(classes[c], classes[m])
                             /\ t = [Top EXCEPT !.left = Without(Top.left, j)]
    OBVIOUS
  <1>1. /\ path \in Seq(Calls) /\ n \in Nat /\ n \in 1..n /\ Top = path[n]
        /\ Top \in Calls /\ Tracing /\ c \in Known /\ CallInv(n)
        /\ classes[c].marker = "VISITING" /\ Whole(classes[c])
        /\ \A i \in 1..n : i = n \/ i < n
    BY <1>0, TopCall
  <1>2. m \in Known /\ Whole(classes[m]) /\ ~Refused(classes[c], classes[m], TRUE)
    BY <1>0 DEF AddFails, SInv, Tables
  <1>3. /\ Whole(x) /\ x.marker = classes[c].marker
        /\ x.parent = classes[c].parent /\ x.mixins = classes[c].mixins
        /\ x.methods = classes[c].methods \union classes[m].methods
        /\ classes[m].type = "VIRTUAL"
    <2>1. classes[m].type = "VIRTUAL"
      BY <1>2 DEF Refused
    <2>2. Whole(classes[c]) /\ Whole(classes[m]) /\ x = Inherit(classes[c], classes[m])
          /\ Accepted(classes[c], classes[m])
      BY <1>0, <1>1, <1>2 DEF Accepted
    <2>3. /\ Whole(x) /\ x.marker = classes[c].marker
          /\ x.parent = classes[c].parent /\ x.mixins = classes[c].mixins
          /\ x.methods = classes[c].methods \union classes[m].methods
      BY <2>2, InheritWhole
    <2> QED
      BY <2>1, <2>3
  <1>4. Top.left \in Seq(Classes) /\ Top.left # <<>>
    BY <1>1 DEF Calls
  <1>5. classes[c].mixins # <<>>
    <2>1. PICK k \in DOMAIN classes[c].mixins : Top.left[j] = classes[c].mixins[k]
      BY <1>0, <1>1 DEF CallInv
    <2> QED
      BY <2>1
  <1>6. Grown(c, x)
    BY <1>3, <1>5 DEF Grown
  <1>7. classes' = [classes EXCEPT ![c] = x]
    BY <1>0
  <1>8. Tables' /\ Update(c, x)
    BY <1>1, <1>3, <1>7, UpdateTables DEF SInv, Tables
  <1>9. Visited' = Visited /\ Inherits' /\ Grounded(Visited)'
    BY <1>1, <1>3, <1>6, <1>8, VisitedKept
  <1>10. /\ t \in Calls /\ t.class = c /\ t.called = Top.called
         /\ t.left = Without(Top.left, j)
    <2>1. Without(Top.left, j) \in Seq(Classes)
      BY <1>4, WithoutFacts
    <2> QED
      BY <1>0, <1>1, <2>1 DEF Calls
  <1>11. /\ path' \in Seq(Calls) /\ Len(path') = n /\ path'[n] = t
         /\ \A i \in 1..n : i < n => path'[i] = path[i]
    <2>1. path' = [path EXCEPT ![n] = t]
      BY <1>0, <1>1
    <2> QED
      BY <1>0, <1>1, <1>10, <2>1
  <1>12. \A i \in 1..n : path'[i].class = path[i].class
    BY <1>0, <1>1, <1>10, <1>11
  <1>13. ~(Top.called = TRUE)
    BY <1>1, <1>4 DEF CallInv
  <1>14. ASSUME NEW i \in 1..n PROVE CallInv(i)' /\ LinkInv(i)'
    <2>1. CallInv(i) /\ LinkInv(i) /\ i \in 1..Len(path)
      BY <1>0, <1>1 DEF Tracing
    <2>2. CASE i < n
      <3>1. CallInv(i)'
        BY <1>1, <1>3, <1>6, <1>8, <1>11, <2>1, <2>2, CallKept
      <3>2. i + 1 \in 1..n /\ classes'[path[i].class].parent = classes[path[i].class].parent
        <4>1. path[i].class \in Known
          BY <2>1 DEF CallInv
        <4> QED
          BY <1>1, <1>6, <1>8, <2>2, <4>1, OthersKept
      <3>3. LinkInv(i)'
        BY <1>0, <1>1, <1>11, <1>12, <2>1, <2>2, <3>2 DEF LinkInv
      <3> QED
        BY <3>1, <3>3
    <2>3. CASE i = n
      <3>1. /\ c \in Known' /\ classes'[c] = x
            /\ \A k : Mixed(c, k) => Mixed(c, k)'
        BY <1>1, <1>6, <1>8, OthersKept DEF Update
      <3>2. Mixed(c, m)'
        <4>1. m \in Known' /\ classes'[m] = IF m = c THEN x ELSE classes[m]
          BY <1>2, <1>8 DEF Update
        <4> QED
          BY <1>3, <1>5, <3>1, <4>1 DEF Mixed
      <3>3. \A l \in DOMAIN t.left : \E k \in DOMAIN classes[c].mixins :
              t.left[l] = classes[c].mixins[k]
        <4>1. \A l \in DOMAIN t.left : \E k \in DOMAIN Top.left : t.left[l] = Top.left[k]
          BY <1>4, <1>10, WithoutFacts
        <4>2. \A l \in DOMAIN Top.left : \E k \in DOMAIN classes[c].mixins :
                Top.left[l] = classes[c].mixins[k]
          BY <1>0, <1>1 DEF CallInv
        <4> QED
          BY <4>1, <4>2
      <3>4. ASSUME NEW k \in DOMAIN classes[c].mixins
            PROVE  \/ \E l \in DOMAIN t.left : t.left[l] = classes[c].mixins[k]
                   \/ Mixed(c, classes[c].mixins[k])'
        <4>0. PICK e : e = classes[c].mixins[k]
          OBVIOUS
        <4>1. CASE Mixed(c, e)
          BY <3>1, <4>0, <4>1, <1>3
        <4>2. CASE \E l \in DOMAIN Top.left : Top.left[l] = e
          <5>1. PICK l \in DOMAIN Top.left : Top.left[l] = e
            BY <4>2
          <5>2. CASE l = j
            BY <1>0, <1>3, <3>1, <3>2, <4>0, <5>1, <5>2
          <5>3. CASE l # j
            BY <1>4, <1>10, <4>0, <5>1, <5>3, WithoutFacts
          <5> QED
            BY <5>2, <5>3
        <4> QED
          BY <1>0, <1>1, <4>0, <4>1, <4>2 DEF CallInv
      <3>5. CallInv(i)'
        <4>1. path'[i].class = c /\ path'[i].left = t.left /\ ~(path'[i].called = TRUE)
          BY <1>10, <1>11, <1>13, <2>3
        <4>2. /\ classes'[c].marker = "VISITING" /\ c \in Known'
              /\ classes'[c].mixins = classes[c].mixins
          BY <1>1, <1>3, <3>1
        <4>3. \A l \in DOMAIN path'[i].left : \E k \in DOMAIN classes'[c].mixins :
                path'[i].left[l] = classes'[c].mixins[k]
          BY <3>3, <4>1, <4>2
        <4>4. \A k \in DOMAIN classes'[c].mixins :
                \/ \E l \in DOMAIN path'[i].left :
                     path'[i].left[l] = classes'[c].mixins[k]
                \/ Mixed(c, classes[c].mixins[k])'
          BY <3>4, <4>1, <4>2
        <4>5. /\ path'[i].class \in Known'
              /\ classes'[path'[i].class].marker = "VISITING"
          BY <4>1, <4>2
        <4>6. \A l \in DOMAIN path'[i].left :
                \E k \in DOMAIN classes'[path'[i].class].mixins :
                  path'[i].left[l] = classes'[path'[i].class].mixins[k]
          BY <4>1, <4>3
        <4>7. (\A k \in DOMAIN classes[path[i].class].mixins :
                 \/ \E l \in DOMAIN path[i].left :
                      path[i].left[l] = classes[path[i].class].mixins[k]
                 \/ Mixed(path[i].class, classes[path[i].class].mixins[k]))'
          <5>1. classes'[path'[i].class].mixins = classes[c].mixins
            BY <4>1, <4>2
          <5> QED
            BY <4>1, <4>2, <4>4, <5>1
        <4> QED
          BY <4>1, <4>5, <4>6, <4>7 DEF CallInv
      <3>6. LinkInv(i)'
        BY <1>1, <1>10, <1>11, <1>13, <2>3 DEF LinkInv
      <3> QED
        BY <3>5, <3>6
    <2> QED
      BY <1>1, <2>2, <2>3
  <1>15. Tracing'
    <2>1. \A d \in Known : classes'[d].marker = classes[d].marker
      BY <1>3, <1>8 DEF Update
    <2>2. Known' = Known /\ n = Len(path)
      BY <1>0, <1>8 DEF Update
    <2>3. \A d \in Known' : classes'[d].marker = "UNVISITED" => d \in todo'
      BY <1>1, <2>1, <2>2 DEF Tracing
    <2>4. \A d \in Known' : classes'[d].marker = "VISITING" =>
                              \E i \in 1..Len(path') : path'[i].class = d
      BY <1>1, <1>11, <1>12, <2>1, <2>2 DEF Tracing
    <2>5. \A i, k \in 1..Len(path') : path'[i].class = path'[k].class => i = k
      BY <1>1, <1>11, <1>12, <2>2 DEF Tracing
    <2>6. /\ Len(msgs') = Len(path') + 1 /\ msgs'[1] = "genealogy"
          /\ \A i \in 1..Len(path') : msgs'[i+1] = path'[i].class
      BY <1>1, <1>11, <1>12, <2>2 DEF Tracing
    <2> QED
      BY <1>11, <1>14, <2>3, <2>4, <2>5, <2>6 DEF Tracing
  <1>16. path' \in Seq(Calls) /\ pc' = "trace"
    BY <1>11
  <1> QED
    BY <1>8, <1>9, <1>15, <1>16 DEF SInv, NoCrash

(* The end of genist_run_r(): the class is traced, and so is the parent of  *)
(* the class whose call is the innermost now.                               *)
LEMMA FinishInv ==
  ASSUME SInv, InTrace, pc' = "trace", Top.left = <<>>,
         NEW x, Grown(Top.class, x), x.marker = "VISITED",
         NEW p, p = classes[Top.class].parent,
         p # NoName => /\ p \in Visited
                       /\ classes[p].methods \subseteq x.methods
                       /\ classes[p].props \subseteq x.props,
         classes' = [classes EXCEPT ![Top.class] = x],
         path' = Pop(path), msgs' = Pop(msgs), UNCHANGED <<class_info, todo>>
  PROVE  SInv'
  <1> DEFINE msgset == {"structure", "genealogy", "processing"} \union Classes
  <1>0. PICK c, n : c = Top.class /\ n = Len(path)
    OBVIOUS
  <1>1. /\ path \in Seq(Calls) /\ n \in Nat /\ n \in 1..n /\ Top = path[n]
        /\ Tracing /\ c \in Known /\ CallInv(n) /\ classes[c].marker = "VISITING"
        /\ \A i \in 1..n : i = n \/ i < n
    BY <1>0, TopCall
  <1>2. Grown(c, x) /\ Whole(x) /\ classes' = [classes EXCEPT ![c] = x]
    BY <1>0 DEF Grown
  <1>3. Tables' /\ Update(c, x)
    BY <1>1, <1>2, UpdateTables DEF SInv, Tables
  <1>4. /\ \A d \in Known : \A m : Mixed(d, m) => Mixed(d, m)'
        /\ Visited \subseteq Visited'
        /\ \A d \in Visited : classes'[d] = classes[d]
        /\ \A d \in Known : /\ classes'[d].parent = classes[d].parent
                            /\ classes'[d].mixins = classes[d].mixins
    BY <1>1, <1>2, <1>3, OthersKept
  <1>5. classes'[c] = x /\ Known' = Known
        /\ \A d \in Known : d # c => classes'[d] = classes[d]
    BY <1>1, <1>3 DEF Update
  <1>6. FromParent(c)'
    BY <1>0, <1>1, <1>4, <1>5 DEF FromParent
  <1>7. FromMixins(c)'
    <2>1. \A j \in DOMAIN classes[c].mixins : Mixed(c, classes[c].mixins[j])
      BY <1>0, <1>1 DEF CallInv
    <2> QED
      BY <1>1, <1>4, <2>1 DEF FromMixins
  <1>8. Visited' = Visited \union {c} /\ Inherits' /\ Grounded(Visited)'
    BY <1>0, <1>1, <1>2, <1>3, <1>6, <1>7, VisitedMore
  <1>9. /\ path' \in Seq(Calls) /\ Len(path') = n - 1
        /\ \A i \in 1..(n-1) : path'[i] = path[i]
    BY <1>0, <1>1, PopSeq
  <1>10. \A i \in 1..(n-1) : i \in 1..n /\ i + 1 \in 1..n /\ path[i].class # c
    BY <1>0, <1>1 DEF Tracing
  <1>11. ASSUME NEW i \in 1..(n-1) PROVE CallInv(i)' /\ LinkInv(i)'
    <2>0. PICK d : d = path[i].class
      OBVIOUS
    <2>1. CallInv(i) /\ LinkInv(i) /\ i \in 1..Len(path) /\ d \in Known
      BY <1>0, <1>1, <1>10, <2>0 DEF Tracing, CallInv
    <2>2. CallInv(i)'
      BY <1>1, <1>2, <1>3, <1>9, <1>10, <2>1, CallKept
    <2>3. path[i].called = TRUE /\ classes[d].parent = path[i+1].class
      BY <1>0, <1>1, <2>0, <2>1 DEF LinkInv
    <2>4. CASE i = n - 1
      <3>1. classes'[d].parent = c /\ c \in Visited'
        BY <1>0, <1>1, <1>4, <1>8, <2>1, <2>3, <2>4
      <3>2. path'[i] = path[i] /\ i = Len(path')
        BY <1>9, <2>4
      <3> QED
        BY <1>1, <2>0, <2>2, <2>3, <2>4, <3>1, <3>2 DEF LinkInv
    <2>5. CASE i < n - 1
      <3>1. /\ path'[i+1] = path[i+1] /\ path'[i] = path[i]
            /\ i < Len(path')
        BY <1>1, <1>9, <2>5
      <3>2. classes'[d].parent = classes[d].parent
        BY <1>4, <2>1
      <3> QED
        BY <1>1, <1>9, <2>0, <2>2, <2>3, <2>5, <3>1, <3>2 DEF LinkInv
    <2> QED
      BY <1>1, <2>4, <2>5
  <1>12. Tracing'
    <2>1. \A d \in Known' : classes'[d].marker = "UNVISITED" => d \in todo'
      BY <1>1, <1>5 DEF Tracing
    <2>2. ASSUME NEW d \in Known', classes'[d].marker = "VISITING"
          PROVE  \E i \in 1..Len(path') : path'[i].class = d
      <3>1. d \in Known /\ d # c /\ classes'[d] = classes[d]
        BY <1>5, <2>2
      <3>2. PICK i \in 1..n : path[i].class = d
        BY <1>0, <1>1, <2>2, <3>1 DEF Tracing
      <3>3. i # n
        BY <1>0, <1>1, <3>1, <3>2
      <3>4. i \in 1..(n-1)
        BY <1>1, <3>2, <3>3
      <3> QED
        BY <1>9, <3>2, <3>4
    <2>3. \A i, j \in 1..Len(path') : path'[i].class = path'[j].class => i = j
      <3>1. \A i, j \in 1..n : path[i].class = path[j].class => i = j
        BY <1>0, <1>1 DEF Tracing
      <3> QED
        BY <1>9, <1>10, <3>1
    <2>4. /\ msgs \in Seq(msgset) /\ Len(msgs) = n + 1
          /\ \A i \in 1..n : msgs[i+1] = path[i].class
      BY <1>0, <1>1 DEF SInv, Tracing
    <2>5. Len(msgs') = n /\ \A i \in 1..n : msgs'[i] = msgs[i]
      <3> HIDE DEF msgset
      <3>1. msgs \in Seq(msgset) /\ Len(msgs) > 0 /\ Len(msgs) - 1 = n
        BY <1>1, <2>4
      <3>2. /\ Len(Pop(msgs)) = Len(msgs) - 1
            /\ \A i \in 1..(Len(msgs)-1) : Pop(msgs)[i] = msgs[i]
        BY <3>1, PopSeq
      <3> QED
        BY <3>1, <3>2
    <2>6. /\ Len(msgs') = Len(path') + 1 /\ msgs'[1] = "genealogy"
      BY <1>1, <1>9, <2>5 DEF Tracing
    <2>7. \A i \in 1..Len(path') : msgs'[i+1] = path'[i].class
      BY <1>9, <1>10, <2>4, <2>5
    <2>8. \A i \in 1..Len(path') : CallInv(i)' /\ LinkInv(i)'
      BY <1>9, <1>11
    <2> QED
      BY <2>1, <2>2, <2>3, <2>6, <2>7, <2>8 DEF Tracing
  <1>13. msgs' \in Seq(msgset)
    <2>1. msgs \in Seq(msgset) /\ Len(msgs) > 0
      BY <1>0, <1>1 DEF SInv, Tracing
    <2> QED
      BY <2>1, PopSeq
  <1> QED
    BY <1>3, <1>8, <1>9, <1>12, <1>13 DEF SInv, NoCrash

-----------------------------------------------------------------------------
(* The steps of genist_run().                                               *)
LEMMA RunInv ==
  ASSUME SInv, pc = "trace", NEW c, NEW q, Noted(q),
         path # <<>> => classes[Top.class].parent = c,
         genist_run_r(c, q), class_info' = class_info, todo \ {c} \subseteq todo'
  PROVE  SInv'
  <1>1. CASE /\ c \in Known /\ classes[c].marker = "UNVISITED"
             /\ classes' = Marked(classes, c, "VISITING")
             /\ path' = Append(q, Call(c))
             /\ msgs' = Append(msgs, c)
             /\ UNCHANGED pc
    BY <1>1, PushInv
  <1>2. CASE /\ c \in Known /\ classes[c].marker = "VISITED"
             /\ path' = q
             /\ UNCHANGED <<pc, classes, msgs>>
    <2>1. c \in Visited
      BY <1>2 DEF Visited
    <2> QED
      BY <1>2, <2>1, StayInv
  <1>3. CASE pc' = "fatal" /\ UNCHANGED <<classes, path, msgs>>
    <2>1. path' \in Seq(Calls)
      BY <1>3 DEF SInv
    <2> QED
      BY <1>3, <2>1, FatalKeeps
  <1> QED
    BY <1>1, <1>2, <1>3 DEF genist_run_r

(* A class with virtual methods is refused before they are looked at.       *)
LEMMA RefusedBeforeCrash ==
  ASSUME SInv, NEW c \in Known, NEW p, ~(p \notin Known),
         ~RefusedVirtual(classes[c], classes[p])
  PROVE  ~AddCrashes(p)
  <1>1. Whole(classes[p])
    BY DEF SInv, Tables
  <1>2. \A f \in classes[p].vg \union classes[p].vs :
          f[2] \in NamesOf(classes[c].methods \union classes[p].methods)
    BY <1>1 DEF Whole, NamesOf
  <1> QED
    BY <1>2 DEF RefusedVirtual, AddCrashes

LEMMA AddMixinInv ==
  ASSUME SInv, NEW j, AddMixin(j)
  PROVE  SInv'
  <1>1. /\ InTrace /\ j \in DOMAIN Top.left /\ UNCHANGED <<class_info, msgs, todo>>
        /\ path' = [path EXCEPT ![Len(path)].left = Without(@, j)]
    BY DEF AddMixin, TraceOnly
  <1>2. path \in Seq(Calls) /\ Len(path) \in 1..Len(path) /\ Top \in Calls
        /\ Top = path[Len(path)] /\ Top.class \in Known
    BY <1>1, TopCall
  <1>3. path' \in Seq(Calls)
    <2>1. Without(Top.left, j) \in Seq(Classes)
      BY <1>1, <1>2, WithoutFacts DEF Calls
    <2>2. [Top EXCEPT !.left = Without(Top.left, j)] \in Calls
      BY <1>2, <2>1 DEF Calls
    <2>3. path' = [path EXCEPT ![Len(path)] = [Top EXCEPT !.left = Without(Top.left, j)]]
      BY <1>1, <1>2
    <2> QED
      BY <1>2, <2>2, <2>3
  <1>4. CASE AddFails(Top.class, Top.left[j], TRUE)
    <2>1. pc' = "fatal" /\ UNCHANGED <<classes, class_info>> /\ UNCHANGED msgs
      BY <1>1, <1>4 DEF AddMixin
    <2> QED
      BY <1>3, <2>1, FatalKeeps
  <1>5. CASE ~AddFails(Top.class, Top.left[j], TRUE)
    <2>1. ~AddCrashes(Top.left[j])
      BY <1>2, <1>5, RefusedBeforeCrash DEF AddFails
    <2>2. /\ pc' = "trace"
          /\ classes' = [classes EXCEPT ![Top.class] = Inherit(@, classes[Top.left[j]])]
      BY <1>1, <1>5, <2>1 DEF AddMixin, InTrace
    <2> QED
      BY <1>1, <1>5, <2>2, MixInv
  <1> QED
    BY <1>4, <1>5

LEMMA TracedRootInv ==
  ASSUME SInv, TracedRoot
  PROVE  SInv'
  <1>0. PICK c, x : c = Top.class /\ x = [classes[c] EXCEPT !.marker = "VISITED"]
    OBVIOUS
  <1>1. /\ InTrace /\ Top.left = <<>> /\ classes[c].parent = NoName /\ pc' = "trace"
        /\ classes' = [classes EXCEPT ![c] = x]
        /\ path' = Pop(path) /\ msgs' = Pop(msgs) /\ UNCHANGED <<class_info, todo>>
    BY <1>0 DEF TracedRoot, Marked, TraceOnly, InTrace
  <1>2. Whole(classes[c])
    BY <1>0, <1>1, TopCall
  <1>3. Grown(c, x) /\ x.marker = "VISITED"
    BY <1>0, <1>2, MarkWhole DEF Markers, Grown
  <1> QED
    BY <1>0, <1>1, <1>3, FinishInv

LEMMA TracedChildInv ==
  ASSUME SInv, TracedChild
  PROVE  SInv'
  <1>0. PICK c, p, y, x : /\ c = Top.class /\ p = classes[c].parent
                          /\ y = Inherit(classes[c], classes[p])
                          /\ x = [y EXCEPT !.marker = "VISITED"]
    OBVIOUS
  <1>1. InTrace /\ Top.called /\ UNCHANGED <<class_info, todo>>
    BY DEF TracedChild, TraceOnly
  <1>2. /\ c \in Known /\ Whole(classes[c]) /\ CallInv(Len(path)) /\ LinkInv(Len(path))
        /\ Top = path[Len(path)] /\ Top \in Calls
    BY <1>0, <1>1, TopCall
  <1>3. Top.called = TRUE
    BY <1>1, <1>2 DEF Calls
  <1>4. Top.left = <<>> /\ p # NoName /\ p \in Visited /\ p \in Known
    BY <1>0, <1>2, <1>3 DEF CallInv, LinkInv, Visited
  <1>5. CASE AddFails(c, p, FALSE)
    <2>1. pc' = "fatal" /\ UNCHANGED <<classes, class_info>> /\ UNCHANGED msgs
          /\ path' = path
      BY <1>0, <1>1, <1>5 DEF TracedChild
    <2>2. path' \in Seq(Calls)
      BY <2>1 DEF SInv
    <2> QED
      BY <2>1, <2>2, FatalKeeps
  <1>6. CASE ~AddFails(c, p, FALSE)
    <2>1. ~AddCrashes(p)
      BY <1>2, <1>4, <1>6, RefusedBeforeCrash DEF AddFails
    <2>2. /\ pc' = "trace"
          /\ classes' = Marked([classes EXCEPT ![c] = y], c, "VISITED")
          /\ path' = Pop(path) /\ msgs' = Pop(msgs)
      BY <1>0, <1>1, <1>6, <2>1 DEF TracedChild, InTrace
    <2>3. classes' = [classes EXCEPT ![c] = x]
      <3>1. classes = [d \in Known |-> classes[d]]
        BY DEF SInv, Tables
      <3> QED
        BY <1>0, <1>2, <2>2, <3>1 DEF Marked
    <2>4. Whole(classes[p]) /\ Accepted(classes[c], classes[p])
      BY <1>4, <1>6 DEF AddFails, Accepted, SInv, Tables
    <2>5. /\ Whole(y) /\ y.marker = classes[c].marker
          /\ y.parent = classes[c].parent /\ y.mixins = classes[c].mixins
          /\ y.methods = classes[c].methods \union classes[p].methods
          /\ classes[p].props \subseteq y.props
      <3>1. y = Inherit(classes[c], classes[p]) /\ Whole(classes[c])
        BY <1>0, <1>2
      <3> QED
        BY <2>4, <3>1, InheritWhole
    <2>6. /\ Whole(x) /\ x.marker = "VISITED"
          /\ x.parent = y.parent /\ x.mixins = y.mixins
          /\ x.methods = y.methods /\ x.props = y.props
      <3>1. Whole(y) /\ x = [y EXCEPT !.marker = "VISITED"]
        BY <1>0, <2>5
      <3>2. "VISITED" \in Markers
        BY DEF Markers
      <3> QED
        BY <3>1, <3>2, MarkWhole
    <2>7. Grown(c, x)
      BY <1>0, <1>4, <2>5, <2>6 DEF Grown
    <2>8. /\ p \in Visited
          /\ classes[p].methods \subseteq x.methods
          /\ classes[p].props \subseteq x.props
      BY <1>4, <2>5, <2>6
    <2> QED
      BY <1>0, <1>1, <1>4, <2>2, <2>3, <2>6, <2>7, <2>8, FinishInv
  <1> QED
    BY <1>5, <1>6

LEMMA TraceInv ==
  ASSUME SInv, Trace
  PROVE  SInv'
  <1>1. ASSUME NEW c \in Classes, TraceNext(c)
        PROVE  SInv'
    <2>1. /\ pc = "trace" /\ path = <<>> /\ todo' = todo \ {c} /\ class_info' = class_info
          /\ genist_run_r(c, path) /\ Noted(path)
      BY <1>1 DEF TraceNext, Noted
    <2> QED
      BY <2>1, RunInv
  <1>2. CASE TraceParent
    <2>0. PICK p, q : /\ p = classes[Top.class].parent
                      /\ q = [path EXCEPT ![Len(path)].called = TRUE]
      OBVIOUS
    <2>1. /\ pc = "trace" /\ path # <<>> /\ todo' = todo /\ class_info' = class_info
          /\ genist_run_r(p, q) /\ Noted(q)
      BY <1>2, <2>0 DEF TraceParent, TraceOnly, InTrace, Noted
    <2> QED
      BY <2>0, <2>1, RunInv
  <1>3. CASE genist_end
    <2>1. /\ pc = "trace" /\ path = <<>> /\ todo = {} /\ pc' = "process"
          /\ msgs' = <<"processing">> /\ UNCHANGED <<classes, class_info, path>>
      BY <1>3 DEF genist_end, tables
    <2>2. Tracing
      BY <2>1 DEF SInv
    <2>3. \A c \in Known : classes[c].marker \in Markers
      BY DEF SInv, Tables, Whole, ClassInfos
    <2>4. Visited = Known
      BY <2>1, <2>2, <2>3 DEF Tracing, Markers, Visited
    <2>5. /\ Tables' /\ Inherits' /\ Grounded(Visited)' /\ Visited' = Known'
      BY <2>1, <2>4 DEF SInv, Tables, Inherits, InheritsFromParent, MixesIn, Grounded,
                 Visited, Known
    <2>6. msgs' \in Seq({"structure", "genealogy", "processing"} \union Classes)
      BY <2>1
    <2> QED
      BY <2>1, <2>5, <2>6 DEF SInv, NoCrash
  <1> QED
    BY <1>1, <1>2, <1>3, AddMixinInv, TracedRootInv, TracedChildInv DEF Trace

LEMMA StartInv ==
  ASSUME SInv, genist_start
  PROVE  SInv'
  <1>1. /\ pc = "absorb" /\ pc' = "trace" /\ todo' = Known /\ msgs' = <<"genealogy">>
        /\ path' = path /\ UNCHANGED <<classes, class_info>>
    BY DEF genist_start, tables
  <1>2. /\ Tables' /\ Inherits' /\ Grounded(Visited)' /\ Known' = Known
    BY <1>1 DEF SInv, Tables, Inherits, InheritsFromParent, MixesIn, Grounded,
               Visited, Known
  <1>3. path' = <<>> /\ \A c \in Known : classes[c].marker = "UNVISITED"
    BY <1>1 DEF SInv
  <1>4. Tracing'
    BY <1>1, <1>2, <1>3 DEF Tracing
  <1>5. /\ msgs' \in Seq({"structure", "genealogy", "processing"} \union Classes)
        /\ path' \in Seq(Calls)
    BY <1>1 DEF SInv
  <1> QED
    BY <1>1, <1>2, <1>4, <1>5 DEF SInv, NoCrash

(* The start-up code is written from tables that no longer change.          *)
LEMMA ProcessInv ==
  ASSUME SInv, Process \/ Processed \/ UNCHANGED vars
  PROVE  SInv'
  <1>1. UNCHANGED <<classes, class_info, path, todo>>
    BY DEF Process, Processed, vars, tables
  <1>2. /\ Tables' /\ Inherits' /\ Grounded(Visited)' /\ Known' = Known
        /\ Visited' = Visited
    BY <1>1 DEF SInv, Tables, Inherits, InheritsFromParent, MixesIn, Grounded,
               Visited, Known
  <1>3. \/ pc \in {"process", "done"} /\ pc' \in {"process", "done"}
        \/ pc' = pc /\ msgs' = msgs
    BY DEF Process, Processed, vars
  <1>4. msgs' \in Seq({"structure", "genealogy", "processing"} \union Classes)
    <2>1. msgs' = msgs \/ msgs' = <<>>
      BY DEF Process, Processed, vars
    <2>2. <<>> \in Seq({"structure", "genealogy", "processing"} \union Classes)
      OBVIOUS
    <2> QED
      BY <2>1, <2>2, Zenon DEF SInv
  <1>5. pc' = "trace" => Tracing'
    <2> SUFFICES ASSUME pc' = "trace" PROVE Tracing'
      OBVIOUS
    <2>1. msgs' = msgs /\ Tracing
      BY <1>3 DEF SInv
    <2> QED
      <3>1. \A c, m : Mixed(c, m)' <=> Mixed(c, m)
        BY <1>1, <1>2 DEF Mixed
      <3>2. \A i : CallInv(i) => CallInv(i)'
        BY <1>1, <1>2, <3>1 DEF CallInv
      <3>3. \A i : LinkInv(i) => LinkInv(i)'
        BY <1>1, <1>2 DEF LinkInv
      <3> QED
        BY <1>1, <1>2, <2>1, <3>2, <3>3 DEF Tracing
  <1> QED
    BY <1>1, <1>2, <1>3, <1>4, <1>5 DEF SInv, NoCrash, Known

LEMMA SInvInit == Init => SInv
  <1> SUFFICES ASSUME Init PROVE SInv
    OBVIOUS
  <1>1. Known = {} /\ Visited = {} /\ path = <<>> /\ pc = "absorb"
    BY DEF Init, Known, Visited
  <1>2. Tables
    BY <1>1 DEF Init, Tables, Known
  <1>3. Inherits /\ Grounded(Visited)
    BY <1>1 DEF Inherits, InheritsFromParent, MixesIn, Grounded
  <1>4. /\ msgs \in Seq({"structure", "genealogy", "processing"} \union Classes)
        /\ path \in Seq(Calls)
    BY <1>1 DEF Init
  <1> QED
    BY <1>1, <1>2, <1>3, <1>4 DEF SInv, NoCrash

LEMMA SInvNext == SInv /\ [Next]_vars => SInv'
  <1> SUFFICES ASSUME SInv, [Next]_vars PROVE SInv'
    OBVIOUS
  <1> QED
    BY AbsorbInv, FileInv, StartInv, TraceInv, ProcessInv DEF Next

THEOREM StructureInvariance == Spec => []SInv
  BY SInvInit, SInvNext, PTL DEF Spec

-----------------------------------------------------------------------------
(* What genist_run_r() leaves in a class has all of its parent and mixins.  *)
THEOREM InheritsCorrect == Spec => []Inherits
  <1>1. SInv => Inherits
    BY DEF SInv
  <1> QED
    BY <1>1, StructureInvariance, PTL

(* No method gets into a class in two ways, and properties are counted.     *)
THEOREM OneWayCorrect == Spec => []OneWay
  <1>1. SInv => OneWay
    BY DEF SInv, Tables, Whole, OneWay
  <1> QED
    BY <1>1, StructureInvariance, PTL

(* add_parent() never enters a virtual method into class_info, then NULL.   *)
THEOREM NoCrashCorrect == Spec => []NoCrash
  <1>1. SInv => NoCrash
    BY DEF SInv
  <1> QED
    BY <1>1, StructureInvariance, PTL

LEMMA ConcatTail ==
  ASSUME NEW S, NEW a \in Seq(S), NEW b \in Seq(S)
  PROVE  \A i \in (Len(a) + 1)..(Len(a) + Len(b)) : (a \o b)[i] = b[i - Len(a)]
  OBVIOUS

LEMMA MessagesOfPath ==
  ASSUME SInv, pc = "trace"
  PROVE  msgs = <<"genealogy">> \o [i \in 1..Len(path) |-> path[i].class]
  <1> DEFINE S == {"structure", "genealogy", "processing"} \union Classes
             r == [i \in 1..Len(path) |-> path[i].class]
             m == <<"genealogy">> \o r
  <1>1. /\ path \in Seq(Calls) /\ Len(path) \in Nat /\ msgs \in Seq(S) /\ Tracing
    BY DEF SInv
  <1>2. r \in Seq(S) /\ Len(r) = Len(path)
    <2>1. \A i \in 1..Len(path) : path[i].class \in S
      <3>1. \A i \in 1..Len(path) : path[i] \in Calls
        BY <1>1
      <3>2. \A t \in Calls : t.class \in Classes
        BY DEF Calls
      <3> QED
        BY <3>1, <3>2
    <2> HIDE DEF S
    <2> QED
      BY <1>1, <2>1
  <1>3. <<"genealogy">> \in Seq(S) /\ Len(<<"genealogy">>) = 1
    OBVIOUS
  <1> HIDE DEF S
  <1>4. \A i \in 1..Len(path) : r[i] = path[i].class
    OBVIOUS
  <1> HIDE DEF r
  <1>5. m \in Seq(S) /\ Len(m) = 1 + Len(path) /\ m[1] = "genealogy"
    BY <1>1, <1>2, <1>3
  <1>6. \A i \in 2..Len(m) : m[i] = r[i-1]
    <2>1. \A i \in (Len(<<"genealogy">>) + 1)..(Len(<<"genealogy">>) + Len(r)) :
            m[i] = r[i - Len(<<"genealogy">>)]
      BY <1>2, <1>3, ConcatTail
    <2> HIDE DEF m
    <2> QED
      BY <1>1, <1>2, <1>3, <1>5, <2>1
  <1> HIDE DEF m
  <1>7. Len(msgs) = Len(m) /\ \A i \in 1..Len(m) : msgs[i] = m[i]
    <2>1. Len(msgs) = Len(m) /\ msgs[1] = m[1]
      BY <1>1, <1>5 DEF Tracing
    <2>2. ASSUME NEW i \in 2..Len(m) PROVE msgs[i] = m[i]
      <3>1. i - 1 \in 1..Len(path) /\ i - 1 + 1 = i
        BY <1>1, <1>5
      <3>2. msgs[i - 1 + 1] = path[i-1].class
        BY <1>1, <3>1 DEF Tracing
      <3> QED
        BY <1>4, <1>6, <3>1, <3>2
    <2> QED
      BY <1>1, <1>5, <2>1, <2>2
  <1>8. msgs = m
    BY <1>1, <1>5, <1>7
  <1> QED
    BY <1>8 DEF m, r

(* genist_run() meets no class twice on one path, its messages name that    *)
(* path, and a program that is processed has no class that is its own       *)
(* ancestor.                                                                *)
THEOREM AcyclicCorrect == Spec => []Acyclic
  <1>1. SInv => PathSimple
    BY SMTT(60), MessagesOfPath DEF SInv, Tracing, CallInv, PathSimple
  <1>2. SInv => NoCycle
    <2> SUFFICES ASSUME SInv, pc \in {"process", "done"}
                 PROVE  /\ \A c \in Known : classes[c].marker = "VISITED"
                        /\ \A S \in SUBSET Known :
                             S # {} => \E c \in S : classes[c].parent \notin S
      BY DEF NoCycle
    <2>1. Visited = Known /\ Grounded(Visited)
      BY DEF SInv
    <2>2. Grounded(Known)
      BY <2>1
    <2> QED
      BY <2>1, <2>2 DEF Visited, Grounded
  <1> QED
    BY <1>1, <1>2, StructureInvariance, PTL DEF Acyclic

-----------------------------------------------------------------------------
(* The declarations a program is made of.                                   *)
Types == {"METHOD", "CONSTRUCTOR", "VIRTUAL_GET", "VIRTUAL_SET"}

Items ==
  [kind : {"class"}, name : Classes, parent : Classes \union {NoName},
   mixins : Seq(Classes)]
  \union [kind : {"end", "ccode"}]
  \union [kind : {"method"}, name : MethodNames, type : Types]
  \union [kind : {"constructor"}, name : MethodNames]
  \union [kind : {"property", "var"}, name : Members]
  \union [kind : {"function"}, name : FuncInfos]
  \union [kind : {"typ"}, omit : BOOLEAN]

(* A declaration is added to the text, or none, when there is an error.     *)
Adds(item) == item \in Items /\ text' = Append(text, item) /\ pc' = pc

LEMMA ItemTypes ==
  /\ \A c \in Classes, q \in Classes \union {NoName}, ms \in Seq(Classes) :
       Header(c, q, ms) \in Items
  /\ End \in Items /\ CCode \in Items
  /\ \A m \in MethodNames, t \in Types : Method(m, t) \in Items
  /\ \A m \in MethodNames : Constructor(m) \in Items
  /\ \A y \in Members : Property(y) \in Items /\ Var(y) \in Items
  /\ \A sp \in Classes, m \in MethodNames : Function(sp, m) \in Items
  /\ \A omit \in BOOLEAN : Typ(omit) \in Items
  BY DEF Items, Header, End, CCode, Method, Constructor, Property, Var, Function, Typ,
         FuncInfos

LEMMA AbsorbText ==
  ASSUME AbsorbSome
  PROVE  \/ text' = text
         \/ \E item \in Items : Adds(item) /\ item.kind # "typ"
  <1>1. \A item : FatalIn(item) => text' = text
    BY DEF FatalIn, Fatal
  <1>2. \A item \in Items : Absorb(item) => Adds(item)
    BY DEF Absorb, Adds
  <1>3. ASSUME NEW c \in Classes, NEW kin \in Kinships,
               absorb_class_enter(c, kin[1], kin[2]), text' # text
        PROVE  \E item \in Items : Adds(item) /\ item.kind # "typ"
    <2>1. Absorb(Header(c, kin[1], kin[2]))
      BY <1>1, <1>3 DEF absorb_class_enter
    <2>2. Header(c, kin[1], kin[2]) \in Items
      BY ItemTypes, KinshipTypes
    <2>3. Header(c, kin[1], kin[2]).kind # "typ"
      BY DEF Header
    <2> QED
      BY <1>2, <2>1, <2>2, <2>3
  <1>4. ASSUME NEW y \in Members, absorb_var(y) \/ absorb_property(y), text' # text
        PROVE  \E item \in Items : Adds(item) /\ item.kind # "typ"
    <2>1. Absorb(Var(y)) \/ Absorb(Property(y))
      BY <1>1, <1>4 DEF absorb_var, absorb_property
    <2>2. Var(y) \in Items /\ Property(y) \in Items
      BY ItemTypes
    <2>3. Var(y).kind # "typ" /\ Property(y).kind # "typ"
      BY DEF Var, Property
    <2> QED
      BY <1>2, <2>1, <2>2, <2>3
  <1>5. ASSUME NEW sp \in Classes, NEW y \in Members, NEW params \in Params,
               AbsorbFunction(sp, <<"", y>>, params), text' # text
        PROVE  \E item \in Items : Adds(item) /\ item.kind # "typ"
    <2>1. Absorb(Function(sp, <<"", y>>))
      BY <1>1, <1>5 DEF AbsorbFunction, absorb_function
    <2>2. Function(sp, <<"", y>>) \in Items
      BY ItemTypes DEF MethodNames
    <2>3. Function(sp, <<"", y>>).kind # "typ"
      BY DEF Function
    <2> QED
      BY <1>2, <2>1, <2>2, <2>3
  <1>6. ASSUME NEW name \in {"", "get_"} \X Members, NEW annots \in SUBSET Annotations,
               NEW params \in Params, AbsorbMethod(name, params, annots), text' # text
        PROVE  \E item \in Items : Adds(item) /\ item.kind # "typ"
    <2>1. Absorb(Method(name, TypeOf(annots))) \/ Absorb(Constructor(name))
      BY <1>1, <1>6 DEF AbsorbMethod, absorb_method, absorb_constructor
    <2>2. name \in MethodNames /\ TypeOf(annots) \in Types
      BY DEF MethodNames, TypeOf, Types
    <2>3. Method(name, TypeOf(annots)) \in Items /\ Constructor(name) \in Items
      BY <2>2, ItemTypes
    <2>4. Method(name, TypeOf(annots)).kind # "typ" /\ Constructor(name).kind # "typ"
      BY DEF Method, Constructor
    <2> QED
      BY <1>2, <2>1, <2>3, <2>4
  <1>7. ASSUME absorb_ccode, text' # text
        PROVE  \E item \in Items : Adds(item) /\ item.kind # "typ"
    <2>1. Absorb(CCode)
      BY <1>1, <1>7 DEF absorb_ccode
    <2>2. CCode \in Items /\ CCode.kind # "typ"
      BY ItemTypes DEF CCode
    <2> QED
      BY <1>2, <2>1, <2>2
  <1>8. ASSUME absorb_class_exit
        PROVE  \E item \in Items : Adds(item) /\ item.kind # "typ"
    <2>1. End \in Items /\ End.kind # "typ"
      BY ItemTypes DEF End
    <2> QED
      BY <1>8, <2>1 DEF absorb_class_exit, Adds
  <1> QED
    BY <1>3, <1>4, <1>5, <1>6, <1>7, <1>8 DEF AbsorbSome

LEMMA TextStep ==
  ASSUME [Next]_vars
  PROVE  \/ text' = text
         \/ AbsorbSome /\ \E item \in Items : Adds(item) /\ item.kind # "typ"
         \/ \E omit \in BOOLEAN : /\ stran_absorb_file(omit) /\ ~Unreadable
                                  /\ Adds(Typ(omit))
  <1>1. ASSUME NEW omit \in BOOLEAN, stran_absorb_file(omit), text' # text
        PROVE  ~Unreadable /\ Adds(Typ(omit))
    BY <1>1, ItemTypes DEF stran_absorb_file, FatalIn, Fatal, Adds
  <1>2. ASSUME Trace PROVE text' = text
    BY <1>2 DEF Trace, TraceNext, AddMixin, TraceParent, TracedRoot, TracedChild, TraceOnly,
               genist_end
  <1>3. ASSUME genist_start \/ Process \/ Processed \/ UNCHANGED vars
        PROVE  text' = text
    BY <1>3 DEF genist_start, Process, Processed, vars
  <1> QED
    BY <1>1, <1>2, <1>3, AbsorbText DEF Next

LEMMA TextTyped == Spec => [](text \in Seq(Items))
  <1>1. Init => text \in Seq(Items)
    BY DEF Init
  <1>2. text \in Seq(Items) /\ [Next]_vars => (text \in Seq(Items))'
    <2> SUFFICES ASSUME text \in Seq(Items), [Next]_vars PROVE text' \in Seq(Items)
      OBVIOUS
    <2>1. \A item : Adds(item) => text' \in Seq(Items)
      BY DEF Adds
    <2> QED
      BY <2>1, TextStep
  <1> QED
    BY <1>1, <1>2, PTL DEF Spec

(* Until a .typ file is read, every function has its ripe_name.             *)
Loadless == \A i \in 1..Len(text) : text[i].kind # "typ"

NamedInv == Loadless => functions \subseteq named

LEMMA NamedAbsorb ==
  ASSUME AbsorbSome
  PROVE  \/ UNCHANGED <<functions, named>>
         \/ \E f : functions' = functions \union {f} /\ named' = named \union {f}
  <1>1. \A item : FatalIn(item) => UNCHANGED <<functions, named>>
    BY DEF FatalIn, Fatal, tables
  <1>2. ASSUME NEW y \in Members, absorb_var(y)
        PROVE  UNCHANGED <<functions, named>>
    BY <1>1, <1>2 DEF absorb_var
  <1>3. ASSUME NEW c \in Classes, NEW kin \in Kinships,
               absorb_class_enter(c, kin[1], kin[2])
        PROVE  UNCHANGED <<functions, named>>
    BY <1>1, <1>3 DEF absorb_class_enter
  <1>4. ASSUME NEW y \in Members, absorb_property(y)
        PROVE  UNCHANGED <<functions, named>>
    BY <1>1, <1>4 DEF absorb_property
  <1>5. ASSUME absorb_ccode \/ absorb_class_exit
        PROVE  UNCHANGED <<functions, named>>
    BY <1>1, <1>5 DEF absorb_ccode, absorb_class_exit, tables
  <1>6. ASSUME NEW s \in Classes, NEW x \in Members, NEW params \in Params,
               AbsorbFunction(s, <<"", x>>, params)
        PROVE  \/ UNCHANGED <<functions, named>>
               \/ \E f : functions' = functions \union {f} /\ named' = named \union {f}
    BY <1>1, <1>6 DEF AbsorbFunction, absorb_function
  <1>7. ASSUME NEW name, NEW annots \in SUBSET Annotations, NEW params \in Params,
               AbsorbMethod(name, params, annots)
        PROVE  \/ UNCHANGED <<functions, named>>
               \/ \E f : functions' = functions \union {f} /\ named' = named \union {f}
    <2>1. \A type : absorb_method(name, type) =>
               \/ UNCHANGED <<functions, named>>
               \/ \E f : functions' = functions \union {f} /\ named' = named \union {f}
      BY <1>1 DEF absorb_method
    <2>2. absorb_constructor(name) =>
               \/ UNCHANGED <<functions, named>>
               \/ \E f : functions' = functions \union {f} /\ named' = named \union {f}
      BY <1>1 DEF absorb_constructor
    <2> QED
      BY <1>1, <1>7, <2>1, <2>2 DEF AbsorbMethod
  <1> QED
    BY <1>2, <1>3, <1>4, <1>5, <1>6, <1>7 DEF AbsorbSome

LEMMA NamedStep ==
  ASSUME text \in Seq(Items), NamedInv, [Next]_vars
  PROVE  NamedInv'
  <1>1. ASSUME NEW omit \in BOOLEAN, stran_absorb_file(omit), Adds(Typ(omit))
        PROVE  NamedInv'
    <2>1. Typ(omit) \in Items /\ Typ(omit).kind = "typ"
      BY ItemTypes DEF Typ
    <2>2. text'[Len(text')] = Typ(omit) /\ Len(text') \in 1..Len(text')
      BY <1>1, <2>1 DEF Adds
    <2> QED
      BY <2>1, <2>2 DEF NamedInv, Loadless
  <1>2. ASSUME NEW omit \in BOOLEAN, stran_absorb_file(omit), text' = text
        PROVE  UNCHANGED <<functions, named>>
    BY <1>2 DEF stran_absorb_file, FatalIn, Fatal, tables
  <1>3. ASSUME Trace PROVE UNCHANGED <<functions, named>>
    BY <1>3 DEF Trace, TraceNext, AddMixin, TraceParent, TracedRoot, TracedChild, TraceOnly,
               genist_end, tables
  <1>4. ASSUME genist_start \/ Process \/ Processed \/ UNCHANGED vars
        PROVE  UNCHANGED <<functions, named>>
    BY <1>4 DEF genist_start, Process, Processed, vars, tables
  <1>5. Loadless' => Loadless
    <2>1. \A item \in Items : Adds(item) => \A i \in 1..Len(text) :
             i \in 1..Len(text') /\ text'[i] = text[i]
      BY DEF Adds
    <2>2. text' = text => (Loadless' => Loadless)
      BY DEF Loadless
    <2>3. \A omit \in BOOLEAN : Typ(omit) \in Items
      BY ItemTypes
    <2> QED
      BY <2>1, <2>2, <2>3, TextStep DEF Loadless
  <1>6. CASE UNCHANGED <<functions, named>>
    BY <1>5, <1>6 DEF NamedInv
  <1>7. CASE \E f : functions' = functions \union {f} /\ named' = named \union {f}
    BY <1>5, <1>7 DEF NamedInv
  <1>8. ASSUME NEW omit \in BOOLEAN, stran_absorb_file(omit) PROVE NamedInv'
    <2>1. text' = text \/ Adds(Typ(omit))
      <3>1. CASE Unreadable
        BY <1>8, <3>1 DEF stran_absorb_file, FatalIn, Fatal
      <3>2. CASE ~Unreadable
        <4>1. text' = Append(text, Typ(omit)) /\ pc' = pc
          BY <1>8, <3>2 DEF stran_absorb_file
        <4>2. Typ(omit) \in Items
          BY ItemTypes
        <4> QED
          BY <4>1, <4>2, Zenon DEF Adds
      <3> QED
        BY <3>1, <3>2
    <2> QED
      BY <1>1, <1>2, <1>6, <1>8, <2>1
  <1> QED
    BY <1>3, <1>4, <1>6, <1>7, <1>8, NamedAbsorb DEF Next

LEMMA NamedInvariance == Spec => []NamedInv
  <1>1. Init => NamedInv
    BY DEF Init, NamedInv
  <1>2. text \in Seq(Items) /\ NamedInv /\ [Next]_vars => NamedInv'
    BY NamedStep
  <1> QED
    BY <1>1, <1>2, TextTyped, PTL DEF Spec

(* The guard of stran_absorb_file(), in the terms of NamedInv.              *)
LEMMA NoLoad ==
  ASSUME text \in Seq(Items), Count({"typ"}) = 0
  PROVE  Loadless
  <1> DEFINE S == {i \in 1..Len(text) : text[i].kind \in {"typ"}}
  <1>1. IsFiniteSet(S)
    <2>1. IsFiniteSet(1..Len(text))
      BY FS_Interval
    <2> QED
      BY <2>1, FS_Subset
  <1>2. S = {}
    <2>1. Cardinality(S) = 0
      BY DEF Count
    <2> QED
      BY <1>1, <2>1, FS_EmptySet
  <1> QED
    BY <1>2 DEF Loadless

(* A compiler that reads the .typ file of some files has the classes, the   *)
(* functions and the globals of one that has absorbed the files themselves, *)
(* and every function that is written has the name it is written under.     *)
THEOREM TypesSurviveCorrect == Spec => TypesSurvive
  <1>1. SInv /\ NamedInv /\ text \in Seq(Items) /\ [Next]_vars =>
          [text' # text /\ text'[Len(text')].kind = "typ" =>
             /\ UNCHANGED <<classes, functions, globals>>
             /\ functions \subseteq named]_vars
    <2> SUFFICES ASSUME SInv, NamedInv, text \in Seq(Items), [Next]_vars, text' # text,
                        text'[Len(text')].kind = "typ"
                 PROVE  /\ UNCHANGED <<classes, functions, globals>>
                        /\ functions \subseteq named
      OBVIOUS
    <2>1. \A item : Adds(item) => text'[Len(text')] = item
      BY DEF Adds
    <2>2. PICK omit \in BOOLEAN : stran_absorb_file(omit) /\ ~Unreadable
      BY <2>1, TextStep
    <2>3. Count({"typ"}) = 0
      BY <2>2 DEF stran_absorb_file
    <2>4. functions \subseteq named
      BY <2>3, NoLoad DEF NamedInv
    <2> QED
      BY <2>2, <2>4, FileInv
  <1> QED
    BY <1>1, StructureInvariance, NamedInvariance, TextTyped, PTL DEF Spec, TypesSurvive

-----------------------------------------------------------------------------
(* Work, without its CHOOSE: a class has at most one active call.           *)
WorkOf(t) == Len(t.left) + (IF t.called = TRUE THEN 1 ELSE 2)

WorkFacts ==
  SInv /\ pc = "trace" =>
    /\ \A c \in Known, i \in 1..Len(path) : path[i].class = c =>
         /\ Len(path[i].left) \in Nat
         /\ classes[c].marker = "VISITING"
         /\ Work(c) = WorkOf(path[i])
    /\ \A c \in Known :
         /\ classes[c].marker \in Markers
         /\ Len(classes[c].mixins) \in Nat
         /\ classes[c].marker = "UNVISITED" => Work(c) = Len(classes[c].mixins) + 3
         /\ classes[c].marker = "VISITED" => Work(c) = 0
         /\ classes[c].marker = "VISITING" => \E i \in 1..Len(path) : path[i].class = c

LEMMA WorkMeans == WorkFacts
  <1> SUFFICES ASSUME SInv, pc = "trace" PROVE WorkFacts
    BY DEF WorkFacts
  <1> DEFINE At(c) == CHOOSE i \in 1..Len(path) : path[i].class = c
             Rest(c, k) == Len(path[k].left) + (IF path[k].called THEN 1 ELSE 2)
  <1>1. Tracing /\ path \in Seq(Calls) /\ Tables
    BY DEF SInv
  <1>2. \A c \in Known : classes[c] \in ClassInfos
    BY <1>1 DEF Tables, Whole
  <1>3. ASSUME NEW c \in Known
        PROVE  Work(c) = IF classes[c].marker = "UNVISITED" THEN Len(classes[c].mixins) + 3
                         ELSE IF classes[c].marker = "VISITED" THEN 0
                         ELSE Rest(c, At(c))
    BY DEF Work
  <1>4. ASSUME NEW c \in Known, NEW i \in 1..Len(path), path[i].class = c
        PROVE  /\ Len(path[i].left) \in Nat
               /\ classes[c].marker = "VISITING"
               /\ Work(c) = WorkOf(path[i])
    <2>1. path[i] \in Calls /\ CallInv(i)
      BY <1>1, <1>4 DEF Tracing
    <2>2. path[i].left \in Seq(Classes) /\ path[i].called \in BOOLEAN
      BY <2>1 DEF Calls
    <2>3. classes[c].marker = "VISITING"
      BY <1>4, <2>1 DEF CallInv
    <2>4. At(c) = i
      BY <1>1, <1>4 DEF Tracing
    <2>5. Work(c) = Rest(c, At(c))
      <3> HIDE DEF Rest, At
      <3> QED
        BY <1>3, <2>3
    <2>6. Work(c) = Rest(c, i)
      BY <2>4, <2>5
    <2>7. Rest(c, i) = WorkOf(path[i])
      BY <2>2 DEF WorkOf
    <2> HIDE DEF Rest
    <2> QED
      BY <2>2, <2>3, <2>6, <2>7
  <1>5. ASSUME NEW c \in Known
        PROVE  /\ classes[c].marker \in Markers
               /\ Len(classes[c].mixins) \in Nat
               /\ classes[c].marker = "UNVISITED" => Work(c) = Len(classes[c].mixins) + 3
               /\ classes[c].marker = "VISITED" => Work(c) = 0
    <2>1. classes[c].mixins \in Seq(Classes) /\ classes[c].marker \in Markers
      BY <1>2 DEF ClassInfos
    <2> HIDE DEF Rest, At
    <2> QED
      BY <1>3, <2>1
  <1> QED
    BY <1>1, <1>4, <1>5 DEF WorkFacts, Tracing

(* A class whose marker and call stay as they are has as much left to do.   *)
LEMMA WorkKept ==
  ASSUME SInv, pc = "trace", SInv', pc' = "trace", WorkFacts, WorkFacts',
         Known' = Known, NEW d \in Known,
         classes'[d].marker = classes[d].marker, classes'[d].mixins = classes[d].mixins,
         NEW n \in Nat, Len(path) - 1 <= n, n <= Len(path'),
         \A i \in 1..n : path'[i] = path[i],
         n < Len(path) => path[Len(path)].class # d
  PROVE  Work(d)' = Work(d)
  <1>0. Len(path) \in Nat /\ Len(path') \in Nat
    BY DEF SInv
  <1>1. CASE classes[d].marker = "VISITING"
    <2>1. PICK i \in 1..Len(path) : path[i].class = d
      BY <1>1 DEF WorkFacts
    <2>2. i \in 1..n
      BY <1>0, <2>1
    <2>3. i \in 1..Len(path') /\ path'[i] = path[i]
      BY <1>0, <2>2
    <2>4. Work(d) = WorkOf(path[i])
      BY <2>1 DEF WorkFacts
    <2>5. Work(d)' = WorkOf(path'[i])
      BY <2>1, <2>3 DEF WorkFacts
    <2> QED
      BY <2>3, <2>4, <2>5
  <1>2. CASE classes[d].marker = "UNVISITED"
    BY ZenonT(60), <1>2 DEF WorkFacts
  <1>3. CASE classes[d].marker = "VISITED"
    BY <1>3 DEF WorkFacts
  <1> QED
    BY <1>1, <1>2, <1>3 DEF WorkFacts, Markers

LEMMA WorkOfMeans ==
  ASSUME NEW t, Len(t.left) \in Nat
  PROVE  /\ WorkOf(t) \in Nat /\ WorkOf(t) > 0
         /\ t.called = TRUE => WorkOf(t) = Len(t.left) + 1
         /\ ~(t.called = TRUE) => WorkOf(t) = Len(t.left) + 2
  <1>1. CASE t.called = TRUE
    <2>1. WorkOf(t) = Len(t.left) + 1
      BY <1>1 DEF WorkOf
    <2> QED
      BY <1>1, <2>1
  <1>2. CASE ~(t.called = TRUE)
    <2>1. WorkOf(t) = Len(t.left) + 2
      BY <1>2 DEF WorkOf
    <2> QED
      BY <1>2, <2>1
  <1> QED
    BY <1>1, <1>2

LEMMA WorkNat ==
  ASSUME SInv, pc = "trace", WorkFacts
  PROVE  \A c \in Known : Work(c) \in Nat
  <1> SUFFICES ASSUME NEW c \in Known PROVE Work(c) \in Nat
    OBVIOUS
  <1>1. CASE classes[c].marker = "VISITING"
    <2>1. PICK i \in 1..Len(path) : path[i].class = c
      BY <1>1 DEF WorkFacts
    <2>2. Work(c) = WorkOf(path[i]) /\ Len(path[i].left) \in Nat
      BY <2>1 DEF WorkFacts
    <2> QED
      BY <2>2, WorkOfMeans
  <1>2. CASE classes[c].marker = "UNVISITED"
    BY <1>2 DEF WorkFacts
  <1>3. CASE classes[c].marker = "VISITED"
    BY <1>3 DEF WorkFacts
  <1> QED
    BY <1>1, <1>2, <1>3 DEF WorkFacts, Markers

(* No step adds to what is left to do, and this one takes something off.    *)
NoMore == Known' = Known /\ \A c \in Known : Work(c)' <= Work(c)
Less   == \E c \in Known : Work(c)' < Work(c)

LEMMA RunWork ==
  ASSUME SInv, pc = "trace", SInv', pc' = "trace", WorkFacts, WorkFacts',
         NEW c, NEW q, Noted(q), path # <<>> => ~Top.called, genist_run_r(c, q)
  PROVE  NoMore /\ (path # <<>> => Less)
  <1>0. PICK m : m = Len(path)
    OBVIOUS
  <1>1. /\ q \in Seq(Calls) /\ Len(q) = m /\ m \in Nat /\ path \in Seq(Calls)
    BY <1>0, NotedFacts DEF SInv
  <1>a. \A i \in 1..m : q[i].class = path[i].class /\ q[i].left = path[i].left
    BY <1>0, NotedFacts
  <1>b. \A i \in 1..m : i < m => q[i] = path[i]
    BY <1>0, NotedFacts
  <1>c. \A i \in 1..m : i = m => q[i].called = TRUE
    BY <1>0, NotedFacts
  <1>2. classes = [d \in Known |-> classes[d]] /\ \A d \in Known : classes[d] \in ClassInfos
    BY DEF SInv, Tables, Whole
  <1>3. c \in Known /\ classes[c].marker \in {"UNVISITED", "VISITED"}
    BY DEF genist_run_r
  <1>4. /\ Known' = Known
        /\ \A d \in Known : d # c => classes'[d] = classes[d]
        /\ \A d \in Known : classes'[d].mixins = classes[d].mixins
        /\ classes[c].marker = "UNVISITED" => classes'[c].marker = "VISITING"
        /\ classes[c].marker # "UNVISITED" => classes'[c] = classes[c]
    <2>1. CASE classes[c].marker = "UNVISITED"
      <3>1. classes' = [classes EXCEPT ![c].marker = "VISITING"]
        BY <2>1 DEF genist_run_r, Marked
      <3> QED
        BY <1>2, <1>3, <2>1, <3>1 DEF Known, ClassInfos
    <2>2. CASE classes[c].marker # "UNVISITED"
      <3>1. classes' = classes
        BY <2>2 DEF genist_run_r
      <3> QED
        BY <2>2, <3>1 DEF Known
    <2> QED
      BY <2>1, <2>2
  <1>5. /\ m <= Len(path') /\ Len(path') \in Nat
        /\ \A i \in 1..m : path'[i] = q[i]
        /\ classes[c].marker = "UNVISITED" =>
             m + 1 \in 1..Len(path') /\ path'[m+1] = Call(c)
    <2>1. CASE path' = q
      <3>1. classes[c].marker # "UNVISITED"
        BY <1>1, <2>1 DEF genist_run_r
      <3> QED
        BY <1>1, <2>1, <3>1
    <2>2. CASE path' = Append(q, Call(c))
      <3>1. Call(c) \in Calls
        BY <1>2, <1>3 DEF Call, Calls, ClassInfos, SInv, Tables
      <3>2. /\ Len(path') = Len(q) + 1 /\ path'[Len(q) + 1] = Call(c)
            /\ \A i \in 1..Len(q) : path'[i] = q[i]
        BY <1>1, <2>2, <3>1, PushSeq
      <3> QED
        BY <1>1, <3>2
    <2> QED
      BY <2>1, <2>2 DEF genist_run_r
  <1>6. \A d \in Known : Work(d) \in Nat
    BY WorkNat
  <1>7. Work(c)' <= Work(c)
    <2>1. CASE classes[c].marker = "UNVISITED"
      <3>1. path'[m+1].class = c /\ path'[m+1].left = classes[c].mixins
            /\ ~(path'[m+1].called = TRUE)
        BY <1>5, <2>1 DEF Call
      <3>2. Work(c)' = WorkOf(path'[m+1])
        BY <1>3, <1>4, <1>5, <2>1, <3>1 DEF WorkFacts
      <3>3. Work(c) = Len(classes[c].mixins) + 3 /\ Len(classes[c].mixins) \in Nat
        BY <1>3, <2>1 DEF WorkFacts
      <3> QED
        BY <3>1, <3>2, <3>3 DEF WorkOf
    <2>2. CASE classes[c].marker # "UNVISITED"
      <3>1. Work(c) = 0 /\ Work(c)' = 0
        BY <1>3, <1>4, <2>2 DEF WorkFacts
      <3> QED
        BY <3>1
    <2> QED
      BY <2>1, <2>2
  <1>8. ASSUME path # <<>>
        PROVE  \E d \in Known : /\ d = path[m].class
                                /\ Work(d)' < Work(d) /\ Work(d)' <= Work(d)
    <2>1. m \in 1..m /\ Top = path[m] /\ Top.class \in Known /\ Top \in Calls
      BY <1>0, <1>8, TopCall DEF InTrace
    <2>2. PICK d \in Known : d = path[m].class
      BY <2>1
    <2>3. path'[m].class = d /\ path'[m].left = path[m].left /\ path'[m].called = TRUE
      <3>1. path'[m] = q[m]
        BY <1>5, <2>1
      <3>2. q[m].class = path[m].class /\ q[m].left = path[m].left /\ q[m].called = TRUE
        BY <1>a, <1>c, <2>1
      <3> QED
        BY <2>2, <3>1, <3>2
    <2>4. ~(path[m].called = TRUE)
      BY <1>8, <2>1 DEF Calls
    <2>5. Work(d) = WorkOf(path[m]) /\ Len(path[m].left) \in Nat
      BY <1>0, <2>1, <2>2 DEF WorkFacts
    <2>6. Work(d)' = WorkOf(path'[m])
      BY <1>1, <1>4, <1>5, <2>1, <2>2, <2>3 DEF WorkFacts
    <2>7. Work(d) = Len(path[m].left) + 2 /\ Work(d)' = Len(path[m].left) + 1
      BY <2>3, <2>4, <2>5, <2>6, WorkOfMeans
    <2> QED
      BY <2>2, <2>5, <2>7
  <1>9. ASSUME NEW d \in Known, d # c
        PROVE  Work(d)' <= Work(d)
    <2>1. CASE path # <<>> /\ path[m].class = d
      BY <1>8, <2>1
    <2>2. CASE path # <<>> /\ path[m].class # d
      <3>1. /\ m - 1 \in Nat /\ Len(path) - 1 <= m - 1 /\ m - 1 <= Len(path')
            /\ \A i \in 1..(m-1) : path'[i] = path[i]
        <4>1. m # 0
          BY <1>0, <1>1, <2>2
        <4>2. m - 1 \in Nat /\ \A i \in 1..(m-1) : i \in 1..m /\ i < m
          BY <1>1, <4>1
        <4>3. \A i \in 1..(m-1) : path'[i] = path[i]
          BY <1>5, <1>b, <4>2
        <4> QED
          BY <1>0, <1>1, <1>5, <4>2, <4>3
      <3>2. Work(d)' = Work(d)
        BY <1>0, <1>4, <1>9, <2>2, <3>1, WorkKept
      <3> QED
        BY <1>6, <3>2
    <2>3. CASE path = <<>>
      <3>1. m = 0 /\ m <= Len(path') /\ \A i \in 1..m : path'[i] = path[i]
        BY <1>0, <1>1, <1>5, <2>3
      <3>2. Work(d)' = Work(d)
        BY <1>0, <1>1, <1>4, <1>9, <3>1, WorkKept
      <3> QED
        BY <1>6, <3>2
    <2> QED
      BY <2>1, <2>2, <2>3
  <1> QED
    BY <1>4, <1>7, <1>8, <1>9 DEF NoMore, Less

(* A call ends, or adds a mixin: only its class changes.                    *)
LEMMA TopWork ==
  ASSUME SInv, InTrace, SInv', pc' = "trace", WorkFacts, WorkFacts',
         NEW x, classes' = [classes EXCEPT ![Top.class] = x],
         Len(path') >= Len(path) - 1,
         \A i \in 1..(Len(path)-1) : path'[i] = path[i],
         \/ x.marker = "VISITED"
         \/ /\ Len(path') = Len(path)
            /\ path'[Len(path)].class = Top.class
            /\ path'[Len(path)].called = Top.called
            /\ Len(path'[Len(path)].left) = Len(Top.left) - 1
  PROVE  NoMore /\ Less
  <1>0. PICK m, c : m = Len(path) /\ c = Top.class
    OBVIOUS
  <1>1. /\ m \in Nat /\ m \in 1..m /\ Top = path[m] /\ Top \in Calls /\ c \in Known
        /\ pc = "trace"
    BY <1>0, TopCall DEF InTrace
  <1>2. classes = [d \in Known |-> classes[d]]
    BY DEF SInv, Tables
  <1>3. /\ Known' = Known /\ classes'[c] = x
        /\ \A d \in Known : d # c => classes'[d] = classes[d]
    BY <1>0, <1>1, <1>2 DEF Known
  <1>4. Len(path') \in Nat /\ m - 1 \in Nat
    BY <1>1 DEF SInv
  <1>5. ASSUME NEW d \in Known, d # c
        PROVE  Work(d)' <= Work(d)
    <2>0. PICK k \in Nat : k = m - 1
      BY <1>4
    <2>1. /\ Len(path) - 1 <= k /\ k <= Len(path') /\ path[Len(path)].class # d
          /\ \A i \in 1..k : path'[i] = path[i]
      BY <1>0, <1>1, <1>4, <1>5, <2>0
    <2>2. Work(d)' = Work(d)
      BY <1>1, <1>3, <1>5, <2>1, WorkKept
    <2> QED
      BY <1>1, <2>2, WorkNat
  <1>6. Work(c) = WorkOf(path[m]) /\ Len(path[m].left) \in Nat
    BY <1>0, <1>1 DEF WorkFacts
  <1>7. Work(c)' < Work(c) /\ Work(c)' <= Work(c)
    <2>1. CASE x.marker = "VISITED"
      <3>1. Work(c)' = 0
        BY <1>1, <1>3, <2>1 DEF WorkFacts
      <3>2. Work(c) \in Nat /\ Work(c) > 0
        BY <1>6, WorkOfMeans
      <3> QED
        BY <3>1, <3>2
    <2>2. CASE /\ Len(path') = Len(path)
               /\ path'[Len(path)].class = Top.class
               /\ path'[Len(path)].called = Top.called
               /\ Len(path'[Len(path)].left) = Len(Top.left) - 1
      <3>1. Work(c)' = WorkOf(path'[m]) /\ Len(path'[m].left) \in Nat
        BY <1>0, <1>1, <1>3, <2>2 DEF WorkFacts
      <3>2. path'[m].called = path[m].called /\ Len(path'[m].left) = Len(path[m].left) - 1
        BY <1>0, <1>1, <2>2
      <3>3. PICK l : l = Len(path[m].left) /\ l \in Nat /\ l - 1 = Len(path'[m].left)
        BY <1>6, <3>2
      <3>4. \/ Work(c) = l + 1 /\ Work(c)' = l - 1 + 1
            \/ Work(c) = l + 2 /\ Work(c)' = l - 1 + 2
        BY <1>6, <3>1, <3>2, <3>3, WorkOfMeans
      <3> QED
        BY <3>3, <3>4
    <2> QED
      BY <2>1, <2>2
  <1> QED
    BY <1>1, <1>3, <1>5, <1>7 DEF NoMore, Less

LEMMA FinishWork ==
  ASSUME SInv, SInv', pc' = "trace", WorkFacts, WorkFacts',
         TracedRoot \/ TracedChild
  PROVE  NoMore /\ Less
  <1>1. InTrace /\ path' = Pop(path)
    BY DEF TracedRoot, TracedChild
  <1>2. PICK c, p : c = Top.class /\ p = classes[c].parent
    OBVIOUS
  <1>3. /\ path \in Seq(Calls) /\ Len(path) \in Nat /\ Len(path) > 0 /\ c \in Known
        /\ Whole(classes[c])
    BY <1>1, <1>2, TopCall
  <1>4. /\ Len(path') >= Len(path) - 1
        /\ \A i \in 1..(Len(path)-1) : path'[i] = path[i]
    BY <1>1, <1>3, PopSeq
  <1>5. PICK x : classes' = [classes EXCEPT ![c] = x] /\ x.marker = "VISITED"
    <2>1. classes = [d \in Known |-> classes[d]] /\ classes[c] \in ClassInfos
      BY <1>3 DEF SInv, Tables, Whole
    <2>2. CASE TracedRoot
      <3>1. classes' = [classes EXCEPT ![c] = [classes[c] EXCEPT !.marker = "VISITED"]]
        BY <1>2, <2>1, <2>2 DEF TracedRoot, Marked
      <3>2. [classes[c] EXCEPT !.marker = "VISITED"].marker = "VISITED"
        BY <2>1 DEF ClassInfos
      <3> QED
        BY <3>1, <3>2
    <2>3. CASE TracedChild
      <3>0. PICK y : y = Inherit(classes[c], classes[p])
        OBVIOUS
      <3>1. classes' = Marked([classes EXCEPT ![c] = y], c, "VISITED")
        BY <1>2, <2>3, <3>0 DEF TracedChild
      <3>2. classes' = [classes EXCEPT ![c] = [y EXCEPT !.marker = "VISITED"]]
        BY <1>3, <2>1, <3>1 DEF Marked
      <3>3. [y EXCEPT !.marker = "VISITED"].marker = "VISITED"
        <4>1. "marker" \in DOMAIN y
          BY <2>1, <3>0 DEF Inherit, ClassInfos
        <4> QED
          BY <4>1
      <3> QED
        BY <3>2, <3>3
    <2> QED
      BY <2>2, <2>3
  <1> QED
    BY <1>1, <1>2, <1>4, <1>5, TopWork

LEMMA MixWork ==
  ASSUME SInv, SInv', pc' = "trace", WorkFacts, WorkFacts', NEW j, AddMixin(j)
  PROVE  NoMore /\ Less
  <1>1. /\ InTrace /\ j \in DOMAIN Top.left
        /\ path' = [path EXCEPT ![Len(path)].left = Without(@, j)]
    BY DEF AddMixin
  <1>2. /\ path \in Seq(Calls) /\ Len(path) \in Nat /\ Len(path) \in 1..Len(path)
        /\ Top = path[Len(path)] /\ Top \in Calls
    BY <1>1, TopCall
  <1>3. PICK x : classes' = [classes EXCEPT ![Top.class] = x]
    BY <1>1 DEF AddMixin, InTrace
  <1>4. Top.left \in Seq(Classes) /\ Len(Without(Top.left, j)) = Len(Top.left) - 1
    BY <1>1, <1>2, WithoutFacts DEF Calls
  <1>5. /\ Len(path') = Len(path)
        /\ path'[Len(path)].class = Top.class
        /\ path'[Len(path)].called = Top.called
        /\ path'[Len(path)].left = Without(Top.left, j)
        /\ \A i \in 1..(Len(path)-1) : path'[i] = path[i]
    BY <1>1, <1>2 DEF Calls
  <1>6. Len(path') >= Len(path) - 1 /\ Len(path'[Len(path)].left) = Len(Top.left) - 1
    BY <1>2, <1>4, <1>5
  <1> QED
    BY <1>1, <1>3, <1>5, <1>6, TopWork

(* Tracing ends, whatever inherits from what.                               *)
THEOREM TraceAdvancesCorrect == Spec => TraceAdvances
  <1>1. ASSUME SInv, SInv', WorkFacts, WorkFacts', [Next]_vars
        PROVE  [pc = "trace" /\ pc' = "trace" =>
                  /\ Known' = Known /\ todo' \subseteq todo
                  /\ \A c \in Known : Work(c)' <= Work(c)
                  /\ todo' # todo \/ \E c \in Known : Work(c)' < Work(c)]_vars
    <2> SUFFICES ASSUME Next, pc = "trace", pc' = "trace"
                 PROVE  NoMore /\ todo' \subseteq todo /\ (todo' # todo \/ Less)
      BY <1>1 DEF NoMore, Less
    <2>1. Trace
      BY DEF Next, AbsorbSome, stran_absorb_file, genist_start, Process, Processed
    <2>2. CASE \E c \in Classes : TraceNext(c)
      <3>1. PICK c \in Classes : TraceNext(c)
        BY <2>2
      <3>2. /\ path = <<>> /\ genist_run_r(c, path) /\ Noted(path)
            /\ todo' = todo \ {c} /\ c \in todo
        BY <3>1 DEF TraceNext, Noted
      <3>3. NoMore
        BY <1>1, <3>2, RunWork
      <3> QED
        BY <3>2, <3>3
    <2>3. CASE TraceParent
      <3>0. PICK p, q : /\ p = classes[Top.class].parent
                        /\ q = [path EXCEPT ![Len(path)].called = TRUE]
        OBVIOUS
      <3>1. /\ path # <<>> /\ genist_run_r(p, q) /\ Noted(q) /\ ~Top.called
            /\ todo' = todo
        BY <2>3, <3>0 DEF TraceParent, TraceOnly, InTrace, Noted
      <3>2. NoMore /\ Less
        BY <1>1, <3>1, RunWork
      <3> QED
        BY <3>1, <3>2
    <2>4. CASE \E j \in 1..MaxKin : AddMixin(j)
      <3>1. PICK j \in 1..MaxKin : AddMixin(j)
        BY <2>4
      <3>2. todo' = todo
        BY <3>1 DEF AddMixin, TraceOnly
      <3> QED
        BY <1>1, <3>1, <3>2, MixWork
    <2>5. CASE TracedRoot \/ TracedChild
      <3>1. todo' = todo
        BY <2>5 DEF TracedRoot, TracedChild, TraceOnly
      <3> QED
        BY <1>1, <2>5, <3>1, FinishWork
    <2> QED
      BY <2>1, <2>2, <2>3, <2>4, <2>5 DEF Trace, genist_end
  <1> QED
    BY <1>1, StructureInvariance, WorkMeans, PTL DEF Spec, TraceAdvances

-----------------------------------------------------------------------------
(***************************************************************************)
(* The start-up code.                                                      *)
(***************************************************************************)

(* The i-th declaration belongs to the class whose header is the h-th.      *)
Inside(s, h, i) ==
  /\ h \in 1..Len(s) /\ h < i /\ s[h].kind = "class"
  /\ \A j \in h+1..i-1 : s[j].kind \notin {"class", "end", "typ"}

(* The class with header h is ended.                                        *)
Ended(s, h) == \E e \in 1..Len(s) : s[e].kind = "end" /\ Inside(s, h, e)

(* A text and the classes ks it declares, while class ci is absorbed: every *)
(* class has one header, every method and end is inside of a class, and     *)
(* every class but the one being absorbed is ended.                         *)
TextInv(s, ks, ci) ==
  /\ s \in Seq(Items)
  /\ \A c \in ks : \E h \in 1..Len(s) : s[h].kind = "class" /\ s[h].name = c
  /\ \A h \in 1..Len(s) : s[h].kind = "class" => s[h].name \in ks
  /\ \A g, h \in 1..Len(s) :
       s[g].kind = "class" /\ s[h].kind = "class" /\ s[g].name = s[h].name => g = h
  /\ \A i \in 1..Len(s) : s[i].kind \in {"end", "method", "constructor"} =>
       \E h \in 1..Len(s) : Inside(s, h, i)
  /\ \A h \in 1..Len(s) : s[h].kind = "class" => Ended(s, h) \/ ci = s[h].name
  /\ ci # NoName => \E h \in 1..Len(s) : Inside(s, h, Len(s) + 1) /\ s[h].name = ci

(* The method f is declared in the body of its class.                       *)
Declared(s, f) ==
  \E i, h \in 1..Len(s) :
    /\ s[i].kind = "method" /\ Inside(s, h, i)
    /\ s[h].name = f[1] /\ StaticName(f[1], s[i]) = f

(* The declarations up to the b-th come from a .typ file.                   *)
Loaded(b) ==
  /\ b \in 0..Len(text) /\ FromFile = 1..b
  /\ b > 0 => text[b].kind = "typ"

(* Every class is cached once, and before it is linked.                     *)
Cached(out, c, k) == \E j \in 1..k-1 : out[j] = <<"cache", c, NoName>>

Lines == {"cache", "link"} \X Classes \X (Classes \union {NoName})

CacheInv(out) ==
  /\ out \in Seq(Lines)
  /\ \A i, j \in 1..Len(out) : out[i] = out[j] /\ out[i][1] = "cache" => i = j
  /\ \A k \in 1..Len(out) : out[k][1] = "link" =>
       Cached(out, out[k][2], k) /\ Cached(out, out[k][3], k)

Writes == [op : {"declare", "use"}, funcs : SUBSET FuncInfos]

(* What has been written for the declarations of s from the b-th to the     *)
(* n-th, when the classes have these parents.                               *)
MethodsWritten(s, b, n, out) ==
  \A i \in b+1..n : s[i].kind = "method" =>
    \A h \in 1..Len(s) : Inside(s, h, i) =>
      \E j \in 1..Len(out) : out[j] = make_func_value(StaticName(s[h].name, s[i]))

LinksWritten(s, cs, b, n, out) ==
  \A e \in b+1..n : s[e].kind = "end" =>
    \A h \in 1..Len(s) : Inside(s, h, e) /\ cs[s[h].name].parent # NoName =>
      \E k \in 1..Len(out) : out[k] = <<"link", s[h].name, cs[s[h].name].parent>>

UsesDeclared(out) ==
  \A k \in 1..Len(out) : out[k].op = "use" =>
    \A f \in out[k].funcs : \E j \in 1..k-1 : out[j] = make_func_value(f)

(* Methods are declared in the text, those of a class before its end.       *)
MethodsDeclared ==
  \A c \in Known : \A f \in classes[c].methods : f[1] \in Known /\ Declared(text, f)

MethodsBefore ==
  Ordered => \A c \in Known : HeaderOf(c) \notin FromFile =>
    \A f \in classes[c].methods :
      HeaderOf(f[1]) <= HeaderOf(c) /\ HeaderOf(f[1]) \notin FromFile

OwnMethods == \A c \in Known : \A f \in classes[c].methods : f[1] = c

Started(b) ==
  /\ Loaded(b) /\ at \in b..Len(text)
  /\ MethodsWritten(text, b, at, init1b)
  /\ LinksWritten(text, classes, b, at, init2)

OInv ==
  /\ CacheInv(init2) /\ init1b \in Seq(Writes)
  /\ pc \in {"absorb", "trace", "process", "done"} =>
       TextInv(text, Known, class_info) /\ MethodsDeclared
  /\ pc \in {"absorb", "trace"} => Loaded(at) /\ init1b = <<>>
  /\ pc = "absorb" => OwnMethods
  /\ pc \in {"trace", "process", "done"} => class_info = NoName /\ MethodsBefore
  /\ pc \in {"process", "done"} =>
       (\E b \in 0..at : Started(b)) /\ (Ordered => UsesDeclared(init1b))
  /\ pc = "done" => at = Len(text)

LEMMA AppendItem ==
  ASSUME NEW s \in Seq(Items), NEW x \in Items, NEW t, t = Append(s, x)
  PROVE  /\ t \in Seq(Items) /\ Len(s) \in Nat /\ Len(t) = Len(s) + 1
         /\ t[Len(s) + 1] = x /\ t[Len(t)] = x
         /\ \A i \in 1..Len(s) : t[i] = s[i]
OBVIOUS

LEMMA InsideAppend ==
  ASSUME NEW s \in Seq(Items), NEW x \in Items, NEW t, t = Append(s, x),
         NEW h, NEW i \in Nat, i <= Len(s) + 1, Inside(s, h, i)
  PROVE  Inside(t, h, i)
<1>1. /\ Len(s) \in Nat /\ Len(t) = Len(s) + 1 /\ \A j \in 1..Len(s) : t[j] = s[j]
  BY AppendItem
<1>2. /\ h \in 1..Len(s) /\ h < i /\ s[h].kind = "class"
      /\ \A j \in h+1..i-1 : s[j].kind \notin {"class", "end", "typ"}
  BY DEF Inside
<1>3. h \in 1..Len(t) /\ t[h].kind = "class"
  BY <1>1, <1>2
<1>4. \A j \in h+1..i-1 : t[j].kind \notin {"class", "end", "typ"}
  <2> TAKE j \in h+1..i-1
  <2>1. j \in 1..Len(s)
    BY <1>1, <1>2
  <2> QED BY <1>1, <1>2, <2>1
<1> QED BY <1>2, <1>3, <1>4 DEF Inside

LEMMA EndedAppend ==
  ASSUME NEW s \in Seq(Items), NEW x \in Items, NEW t, t = Append(s, x),
         NEW h, Ended(s, h)
  PROVE  Ended(t, h)
<1>1. /\ Len(s) \in Nat /\ Len(t) = Len(s) + 1 /\ \A j \in 1..Len(s) : t[j] = s[j]
  BY AppendItem
<1>2. PICK e \in 1..Len(s) : s[e].kind = "end" /\ Inside(s, h, e)
  BY DEF Ended
<1>3. e \in Nat /\ e <= Len(s) + 1 /\ e \in 1..Len(t)
  BY <1>1
<1>4. Inside(t, h, e)
  BY <1>2, <1>3, InsideAppend
<1> QED BY <1>1, <1>2, <1>3, <1>4 DEF Ended

LEMMA DeclaredAppend ==
  ASSUME NEW s \in Seq(Items), NEW x \in Items, NEW t, t = Append(s, x),
         NEW f, Declared(s, f)
  PROVE  Declared(t, f)
<1>1. /\ Len(s) \in Nat /\ Len(t) = Len(s) + 1 /\ \A j \in 1..Len(s) : t[j] = s[j]
  BY AppendItem
<1>2. PICK i, h \in 1..Len(s) : /\ s[i].kind = "method" /\ Inside(s, h, i)
                                /\ s[h].name = f[1] /\ StaticName(f[1], s[i]) = f
  BY DEF Declared
<1>3. i \in Nat /\ i <= Len(s) + 1 /\ i \in 1..Len(t) /\ h \in 1..Len(t)
  BY <1>1
<1>4. Inside(t, h, i)
  BY <1>2, <1>3, InsideAppend
<1>5. t[i] = s[i] /\ t[h] = s[h]
  BY <1>1
<1> QED BY <1>2, <1>3, <1>4, <1>5 DEF Declared

(* What a new declaration leaves of the text that is there.                 *)
Kept(s, t, ks, ci) ==
  /\ \A c \in ks : \E h \in 1..Len(t) : t[h].kind = "class" /\ t[h].name = c
  /\ \A i \in 1..Len(s) : t[i].kind \in {"end", "method", "constructor"} =>
       \E h \in 1..Len(t) : Inside(t, h, i)
  /\ \A h \in 1..Len(s) : t[h].kind = "class" => Ended(t, h) \/ ci = t[h].name

LEMMA TextAppend ==
  ASSUME NEW s, NEW ks, NEW ci, TextInv(s, ks, ci), NEW x \in Items, NEW t, t = Append(s, x)
  PROVE  Kept(s, t, ks, ci)
<1>0. s \in Seq(Items)
  BY DEF TextInv
<1>1. /\ t \in Seq(Items)
      /\ Len(s) \in Nat /\ Len(t) = Len(s) + 1 /\ \A j \in 1..Len(s) : t[j] = s[j]
  BY <1>0, AppendItem
<1>2. \A i \in 1..Len(s) : i \in 1..Len(t) /\ i \in Nat /\ i <= Len(s) + 1
  BY <1>1
<1>3. ASSUME NEW c \in ks
      PROVE  \E h \in 1..Len(t) : t[h].kind = "class" /\ t[h].name = c
  <2>1. PICK h \in 1..Len(s) : s[h].kind = "class" /\ s[h].name = c
    BY DEF TextInv
  <2> QED BY <1>1, <1>2, <2>1
<1>4. ASSUME NEW i \in 1..Len(s), t[i].kind \in {"end", "method", "constructor"}
      PROVE  \E h \in 1..Len(t) : Inside(t, h, i)
  <2>1. t[i] = s[i]
    BY <1>1
  <2>2. PICK h \in 1..Len(s) : Inside(s, h, i)
    BY <1>4, <2>1 DEF TextInv
  <2>3. Inside(t, h, i)
    BY <1>0, <1>2, <2>2, InsideAppend
  <2> QED BY <1>2, <2>3
<1>5. ASSUME NEW h \in 1..Len(s), t[h].kind = "class"
      PROVE  Ended(t, h) \/ ci = t[h].name
  <2>1. t[h] = s[h]
    BY <1>1
  <2>2. Ended(s, h) \/ ci = s[h].name
    BY <1>5, <2>1 DEF TextInv
  <2> QED BY <1>0, <2>1, <2>2, EndedAppend
<1> QED BY <1>3, <1>4, <1>5 DEF Kept

(* A class header ...                                                       *)
LEMMA HeaderText ==
  ASSUME NEW s, NEW ks, TextInv(s, ks, NoName), NEW x \in Items, x.kind = "class",
         x.name \notin ks, NEW t, t = Append(s, x), NEW ks2, ks2 = ks \union {x.name}
  PROVE  TextInv(t, ks2, x.name)
<1>0. s \in Seq(Items)
  BY DEF TextInv
<1>1. /\ t \in Seq(Items) /\ t[Len(s) + 1] = x
      /\ Len(s) \in Nat /\ Len(t) = Len(s) + 1 /\ \A j \in 1..Len(s) : t[j] = s[j]
  BY <1>0, AppendItem
<1>2. /\ \A c \in ks : \E h \in 1..Len(t) : t[h].kind = "class" /\ t[h].name = c
      /\ \A i \in 1..Len(s) :
           t[i].kind \in {"end", "method", "constructor"} => \E h \in 1..Len(t) : Inside(t, h, i)
      /\ \A h \in 1..Len(s) : t[h].kind = "class" => Ended(t, h) \/ NoName = t[h].name
  <2>1. Kept(s, t, ks, NoName)
    BY TextAppend
  <2> QED BY <2>1 DEF Kept
<1>3. \A i \in 1..Len(t) : i \in 1..Len(s) \/ i = Len(s) + 1
  BY <1>1
<1>4. Len(s) + 1 \in 1..Len(t) /\ Len(s) + 1 < Len(t) + 1
  BY <1>1
<1>5. ASSUME NEW c \in ks2
      PROVE  \E h \in 1..Len(t) : t[h].kind = "class" /\ t[h].name = c
  BY <1>1, <1>2, <1>4
<1>6. ASSUME NEW h \in 1..Len(t), t[h].kind = "class"
      PROVE  t[h].name \in ks2 /\ (h \in 1..Len(s) => t[h].name \in ks)
  <2>1. CASE h \in 1..Len(s)
    <3>1. t[h] = s[h]
      BY <1>1, <2>1
    <3> QED BY <1>6, <2>1, <3>1 DEF TextInv
  <2>2. CASE h \notin 1..Len(s)
    <3>1. h = Len(s) + 1
      BY <1>3, <2>2
    <3> QED BY <1>1, <2>2, <3>1
  <2> QED BY <2>1, <2>2
<1>7. ASSUME NEW g \in 1..Len(t), NEW h \in 1..Len(t), t[g].kind = "class",
             t[h].kind = "class", t[g].name = t[h].name
      PROVE  g = h
  <2>1. CASE g \in 1..Len(s) /\ h \in 1..Len(s)
    BY <1>1, <1>7, <2>1 DEF TextInv
  <2>2. CASE ~(g \in 1..Len(s) /\ h \in 1..Len(s))
    BY <1>1, <1>3, <1>6, <1>7, <2>2
  <2> QED BY <2>1, <2>2
<1>8. ASSUME NEW i \in 1..Len(t), t[i].kind \in {"end", "method", "constructor"}
      PROVE  \E h \in 1..Len(t) : Inside(t, h, i)
  BY <1>1, <1>2, <1>3, <1>8
<1>9. ASSUME NEW h \in 1..Len(t), t[h].kind = "class"
      PROVE  Ended(t, h) \/ x.name = t[h].name
  <2>1. CASE h = Len(s) + 1
    BY <1>1, <2>1
  <2>2. CASE h \in 1..Len(s)
    <3>1. t[h].name \in ks
      BY <1>6, <1>9, <2>2
    <3>2. t[h].name # NoName
      <4>1. x.name \in Classes /\ t[h] \in Items
        BY <1>1 DEF Items
      <4>2. t[h].name \in Classes
        BY <1>9, <4>1 DEF Items
      <4> QED BY <4>2, NamesAssumption
    <3> QED BY <1>2, <1>9, <2>2, <3>2
  <2> QED BY <1>3, <2>1, <2>2
<1>10. Inside(t, Len(s) + 1, Len(t) + 1)
  <2>1. \A j \in (Len(s) + 1) + 1..(Len(t) + 1) - 1 : FALSE
    BY <1>1
  <2> QED BY <1>1, <1>4, <2>1 DEF Inside
<1>11. \E h \in 1..Len(t) : Inside(t, h, Len(t) + 1) /\ t[h].name = x.name
  BY <1>1, <1>4, <1>10
<1> QED BY <1>1, <1>5, <1>6, <1>7, <1>8, <1>9, <1>11 DEF TextInv

(* ... and what is not one.                                                 *)
SameHeaders(s, t, ks) ==
  /\ t \in Seq(Items)
  /\ \A c \in ks : \E h \in 1..Len(t) : t[h].kind = "class" /\ t[h].name = c
  /\ \A h \in 1..Len(t) : t[h].kind = "class" => h \in 1..Len(s) /\ t[h].name \in ks
  /\ \A g, h \in 1..Len(t) :
       t[g].kind = "class" /\ t[h].kind = "class" /\ t[g].name = t[h].name => g = h

LEMMA NoHeaderText ==
  ASSUME NEW s, NEW ks, NEW ci, TextInv(s, ks, ci), NEW x \in Items, x.kind # "class",
         NEW t, t = Append(s, x)
  PROVE  SameHeaders(s, t, ks)
<1>0. s \in Seq(Items)
  BY DEF TextInv
<1>1. /\ t \in Seq(Items) /\ t[Len(s) + 1] = x
      /\ Len(s) \in Nat /\ Len(t) = Len(s) + 1 /\ \A j \in 1..Len(s) : t[j] = s[j]
  BY <1>0, AppendItem
<1>2. Kept(s, t, ks, ci)
  BY TextAppend
<1>3. ASSUME NEW h \in 1..Len(t), t[h].kind = "class"
      PROVE  h \in 1..Len(s) /\ s[h].kind = "class" /\ s[h] = t[h]
  <2>1. h # Len(s) + 1
    BY <1>1, <1>3
  <2>2. h \in 1..Len(s)
    BY <1>1, <2>1
  <2> QED BY <1>1, <1>3, <2>2
<1>4. ASSUME NEW h \in 1..Len(t), t[h].kind = "class"
      PROVE  h \in 1..Len(s) /\ t[h].name \in ks
  <2>1. h \in 1..Len(s) /\ s[h].kind = "class" /\ s[h] = t[h]
    BY <1>3, <1>4
  <2>2. s[h].name \in ks
    BY <2>1 DEF TextInv
  <2> QED BY <2>1, <2>2
<1>5. ASSUME NEW g \in 1..Len(t), NEW h \in 1..Len(t), t[g].kind = "class",
             t[h].kind = "class", t[g].name = t[h].name
      PROVE  g = h
  <2>1. /\ g \in 1..Len(s) /\ s[g].kind = "class" /\ s[g] = t[g]
        /\ h \in 1..Len(s) /\ s[h].kind = "class" /\ s[h] = t[h]
    BY <1>3, <1>5
  <2>2. s[g].name = s[h].name
    BY <1>5, <2>1
  <2> QED BY <2>1, <2>2 DEF TextInv
<1> QED BY <1>1, <1>2, <1>4, <1>5 DEF Kept, SameHeaders

(* The end of a class ...                                                   *)
LEMMA EndText ==
  ASSUME NEW s, NEW ks, NEW ci, TextInv(s, ks, ci), ci # NoName,
         NEW x \in Items, x.kind = "end", NEW t, t = Append(s, x)
  PROVE  TextInv(t, ks, NoName)
<1>0. s \in Seq(Items)
  BY DEF TextInv
<1>1. /\ t[Len(s) + 1] = x
      /\ Len(s) \in Nat /\ Len(t) = Len(s) + 1 /\ \A j \in 1..Len(s) : t[j] = s[j]
  BY <1>0, AppendItem
<1>2. Kept(s, t, ks, ci)
  BY TextAppend
<1>3. /\ t \in Seq(Items)
      /\ \A c \in ks : \E h \in 1..Len(t) : t[h].kind = "class" /\ t[h].name = c
      /\ \A h \in 1..Len(t) : t[h].kind = "class" => h \in 1..Len(s) /\ t[h].name \in ks
      /\ \A g, h \in 1..Len(t) :
           t[g].kind = "class" /\ t[h].kind = "class" /\ t[g].name = t[h].name => g = h
  <2>1. SameHeaders(s, t, ks)
    BY NoHeaderText
  <2> QED BY <2>1 DEF SameHeaders
<1>4. PICK o \in 1..Len(s) : Inside(s, o, Len(s) + 1) /\ s[o].name = ci
  BY DEF TextInv
<1>5. Inside(t, o, Len(s) + 1) /\ o \in 1..Len(t) /\ t[o].name = ci /\ t[o].kind = "class"
  <2>1. Len(s) + 1 \in Nat /\ Len(s) + 1 <= Len(s) + 1
    BY <1>1
  <2>2. Inside(t, o, Len(s) + 1)
    BY <1>0, <1>4, <2>1, InsideAppend
  <2> QED BY <1>1, <1>4, <2>2 DEF Inside
<1>6. Len(s) + 1 \in 1..Len(t) /\ t[Len(s) + 1].kind = "end"
  BY <1>1
<1>7. Ended(t, o)
  BY <1>5, <1>6 DEF Ended
<1>8. ASSUME NEW i \in 1..Len(t), t[i].kind \in {"end", "method", "constructor"}
      PROVE  \E h \in 1..Len(t) : Inside(t, h, i)
  <2>1. CASE i \in 1..Len(s)
    BY <1>2, <1>8, <2>1 DEF Kept
  <2>2. CASE i \notin 1..Len(s)
    <3>1. i = Len(s) + 1
      BY <1>1, <2>2
    <3> QED BY <1>5, <3>1
  <2> QED BY <2>1, <2>2
<1>9. ASSUME NEW h \in 1..Len(t), t[h].kind = "class"
      PROVE  Ended(t, h)
  <2>1. h \in 1..Len(s)
    BY <1>3, <1>9
  <2>2. CASE ci = t[h].name
    <3>1. h = o
      BY <1>3, <1>5, <1>9, <2>2
    <3> QED BY <1>7, <3>1
  <2> QED BY <1>2, <1>9, <2>1, <2>2 DEF Kept
<1> QED BY <1>3, <1>8, <1>9 DEF TextInv

(* ... and all the rest.                                                    *)
LEMMA MemberText ==
  ASSUME NEW s, NEW ks, NEW ci, TextInv(s, ks, ci), NEW x \in Items,
         x.kind \notin {"class", "end"},
         x.kind \in {"method", "constructor"} => ci # NoName,
         x.kind = "typ" => ci = NoName, NEW t, t = Append(s, x)
  PROVE  TextInv(t, ks, ci)
<1>0. s \in Seq(Items)
  BY DEF TextInv
<1>1. /\ t[Len(s) + 1] = x
      /\ Len(s) \in Nat /\ Len(t) = Len(s) + 1 /\ \A j \in 1..Len(s) : t[j] = s[j]
  BY <1>0, AppendItem
<1>2. Kept(s, t, ks, ci)
  BY TextAppend
<1>3. /\ t \in Seq(Items)
      /\ \A c \in ks : \E h \in 1..Len(t) : t[h].kind = "class" /\ t[h].name = c
      /\ \A h \in 1..Len(t) : t[h].kind = "class" => h \in 1..Len(s) /\ t[h].name \in ks
      /\ \A g, h \in 1..Len(t) :
           t[g].kind = "class" /\ t[h].kind = "class" /\ t[g].name = t[h].name => g = h
  <2>1. SameHeaders(s, t, ks)
    BY NoHeaderText
  <2> QED BY <2>1 DEF SameHeaders
<1>4. ASSUME ci # NoName
      PROVE  \E o \in 1..Len(t) : /\ Inside(t, o, Len(s) + 1) /\ Inside(t, o, Len(t) + 1)
                                  /\ t[o].name = ci
  <2>1. PICK o \in 1..Len(s) : Inside(s, o, Len(s) + 1) /\ s[o].name = ci
    BY <1>4 DEF TextInv
  <2>2. Len(s) + 1 \in Nat /\ Len(s) + 1 <= Len(s) + 1
    BY <1>1
  <2>3. Inside(t, o, Len(s) + 1)
    BY <1>0, <2>1, <2>2, InsideAppend
  <2>4. /\ o \in 1..Len(t) /\ o < Len(s) + 1 /\ t[o].kind = "class"
        /\ \A j \in o+1..(Len(s)+1)-1 : t[j].kind \notin {"class", "end", "typ"}
    BY <2>3 DEF Inside
  <2>5. \A j \in o+1..(Len(t)+1)-1 : t[j].kind \notin {"class", "end", "typ"}
    <3> TAKE j \in o+1..(Len(t)+1)-1
    <3>1. CASE j = Len(s) + 1
      BY <1>1, <1>4, <3>1
    <3>2. CASE j # Len(s) + 1
      <4>1. j \in o+1..(Len(s)+1)-1
        BY <1>1, <3>2
      <4> QED BY <2>4, <4>1
    <3> QED BY <3>1, <3>2
  <2>6. o < Len(t) + 1
    BY <1>1, <2>4
  <2>7. Inside(t, o, Len(t) + 1)
    BY <2>4, <2>5, <2>6 DEF Inside
  <2>8. t[o] = s[o]
    BY <1>1
  <2> QED BY <2>1, <2>3, <2>4, <2>7, <2>8
<1>5. ASSUME NEW i \in 1..Len(t), t[i].kind \in {"end", "method", "constructor"}
      PROVE  \E h \in 1..Len(t) : Inside(t, h, i)
  <2>1. CASE i \in 1..Len(s)
    BY <1>2, <1>5, <2>1 DEF Kept
  <2>2. CASE i \notin 1..Len(s)
    <3>1. i = Len(s) + 1
      BY <1>1, <2>2
    <3>2. ci # NoName
      BY <1>1, <1>5, <3>1
    <3> QED BY <1>4, <3>1, <3>2
  <2> QED BY <2>1, <2>2
<1>6. ASSUME NEW h \in 1..Len(t), t[h].kind = "class"
      PROVE  Ended(t, h) \/ ci = t[h].name
  BY <1>2, <1>3, <1>6 DEF Kept
<1> QED BY <1>3, <1>4, <1>5, <1>6 DEF TextInv

-----------------------------------------------------------------------------
(* Classes and their headers.                                               *)
LEMMA HeaderFacts ==
  ASSUME NEW ci, TextInv(text, Known, ci), NEW c \in Known
  PROVE  /\ HeaderOf(c) \in 1..Len(text) /\ Len(text) \in Nat
         /\ text[HeaderOf(c)].kind = "class" /\ text[HeaderOf(c)].name = c
         /\ \A h \in 1..Len(text) :
              text[h].kind = "class" /\ text[h].name = c => h = HeaderOf(c)
<1>1. PICK h \in 1..Len(text) : text[h].kind = "class" /\ text[h].name = c
  BY DEF TextInv
<1>2. \A g \in 1..Len(text) : text[g].kind = "class" /\ text[g].name = c => g = h
  BY <1>1 DEF TextInv
<1>3. HeaderOf(c) = h
  BY <1>1, <1>2 DEF HeaderOf
<1>4. Len(text) \in Nat
  BY DEF TextInv
<1> QED BY <1>1, <1>2, <1>3, <1>4

LEMMA ClassAtInside ==
  ASSUME text \in Seq(Items), NEW i \in 1..Len(text), NEW h, Inside(text, h, i),
         text[i].kind # "class"
  PROVE  ClassAt(i) = text[h].name
<1>1. /\ h \in 1..Len(text) /\ Len(text) \in Nat /\ h < i /\ text[h].kind = "class"
      /\ \A j \in h+1..i-1 : text[j].kind \notin {"class", "end", "typ"}
  BY DEF Inside
<1>2. PICK headers : headers = {j \in 1..i : text[j].kind = "class"}
  OBVIOUS
<1>3. h \in headers
  BY <1>1, <1>2
<1>4. \A k \in headers : k <= h
  <2> TAKE k \in headers
  <2>1. k \in 1..i /\ text[k].kind = "class" /\ k # i
    BY <1>2
  <2>2. k \notin h+1..i-1
    BY <1>1, <2>1
  <2> QED BY <1>1, <2>1, <2>2
<1>5. \A j \in headers : (\A k \in headers : k <= j) => j = h
  <2> SUFFICES ASSUME NEW j \in headers, \A k \in headers : k <= j PROVE j = h
    OBVIOUS
  <2>1. h <= j /\ j <= h /\ j \in 1..i
    BY <1>2, <1>3, <1>4
  <2> QED BY <1>1, <2>1
<1>6. (CHOOSE j \in headers : \A k \in headers : k <= j) = h
  BY <1>3, <1>4, <1>5
<1>7. ClassAt(i) = text[CHOOSE j \in headers : \A k \in headers : k <= j].name
  BY <1>2 DEF ClassAt
<1> QED BY <1>6, <1>7

(* What comes from a .typ file does not change when the text grows ...      *)
LEMMA LoadedAppend ==
  ASSUME text \in Seq(Items), Loaded(at), ~Omitted, NEW x \in Items, x.kind # "typ",
         text' = Append(text, x), at' = at
  PROVE  Loaded(at)'
<1>1. PICK t : t = text'
  OBVIOUS
<1>2. /\ t \in Seq(Items) /\ t[Len(text) + 1] = x /\ t[Len(t)] = x /\ Len(text) \in Nat
      /\ Len(t) = Len(text) + 1 /\ \A j \in 1..Len(text) : t[j] = text[j]
  BY <1>1, AppendItem
<1>3. x # Typ(TRUE)
  BY DEF Typ
<1>4. FromFile' = {j \in 1..Len(t) : t[Len(t)] # Typ(TRUE)
                                    /\ \E i \in j..Len(t) : t[i].kind = "typ"}
  BY <1>1 DEF FromFile
<1>5. ASSUME NEW j \in FromFile PROVE j \in FromFile'
  <2>1. j \in 1..Len(text)
    BY DEF FromFile
  <2>2. PICK i \in j..Len(text) : text[i].kind = "typ"
    BY DEF FromFile
  <2>3. i \in j..Len(t) /\ i \in 1..Len(text) /\ j \in 1..Len(t)
    BY <1>2, <2>1
  <2>4. t[i].kind = "typ"
    BY <1>2, <2>2, <2>3
  <2> QED BY <1>2, <1>3, <1>4, <2>3, <2>4
<1>6. ASSUME NEW j \in FromFile' PROVE j \in FromFile
  <2>1. j \in 1..Len(t)
    BY <1>4
  <2>2. PICK i \in j..Len(t) : t[i].kind = "typ"
    BY <1>4
  <2>3. i # Len(text) + 1
    BY <1>2, <2>2
  <2>4. i \in j..Len(text) /\ i \in 1..Len(text) /\ j \in 1..Len(text)
    BY <1>2, <2>1, <2>3
  <2>5. text[i].kind = "typ"
    BY <1>2, <2>2, <2>4
  <2>6. text # <<>>
    BY <1>2, <2>4
  <2>7. text[Len(text)] # Typ(TRUE)
    BY <2>6 DEF Omitted
  <2> QED BY <2>4, <2>5, <2>7 DEF FromFile
<1>7. FromFile' = 1..at'
  <2>1. FromFile' = FromFile
    BY <1>5, <1>6
  <2> QED BY <2>1 DEF Loaded
<1>8. at' \in 0..Len(text') /\ (at' > 0 => text'[at'].kind = "typ")
  <2>1. at \in 0..Len(text) /\ (at > 0 => text[at].kind = "typ")
    BY DEF Loaded
  <2>2. CASE at > 0
    <3>1. at \in 1..Len(text)
      BY <1>2, <2>1, <2>2
    <3>2. t[at] = text[at]
      BY <1>2, <3>1
    <3> QED BY <1>1, <1>2, <2>1, <3>2
  <2>3. CASE ~(at > 0)
    BY <1>1, <1>2, <2>1, <2>3
  <2> QED BY <2>2, <2>3
<1> QED BY <1>7, <1>8 DEF Loaded

(* ... and is all of it when a .typ file is read, or nothing, if the same   *)
(* files are compiled.                                                      *)
LEMMA LoadedTyp ==
  ASSUME text \in Seq(Items), NEW omit \in BOOLEAN,
         text' = Append(text, Typ(omit)), at' = IF omit THEN 0 ELSE Len(text) + 1
  PROVE  Loaded(at)'
<1>1. PICK t : t = text'
  OBVIOUS
<1>2. PICK x : x = Typ(omit)
  OBVIOUS
<1>3. x \in Items /\ x.kind = "typ" /\ x.omit = omit
  BY <1>2, ItemTypes DEF Typ
<1>4. /\ t \in Seq(Items) /\ t[Len(text) + 1] = x /\ t[Len(t)] = x /\ Len(text) \in Nat
      /\ Len(t) = Len(text) + 1 /\ \A j \in 1..Len(text) : t[j] = text[j]
  BY <1>1, <1>2, <1>3, AppendItem
<1>5. FromFile' = {j \in 1..Len(t) : t[Len(t)] # Typ(TRUE)
                                    /\ \E i \in j..Len(t) : t[i].kind = "typ"}
  BY <1>1 DEF FromFile
<1>6. CASE omit = TRUE
  <2>1. x = Typ(TRUE)
    BY <1>2, <1>6
  <2>2. FromFile' = {}
    BY <1>4, <1>5, <2>1
  <2>3. at' = 0
    BY <1>6
  <2>4. 1..at' = {}
    BY <2>3
  <2> QED BY <1>1, <1>4, <2>2, <2>3, <2>4 DEF Loaded
<1>7. CASE omit = FALSE
  <2>1. x # Typ(TRUE)
    BY <1>3, <1>7 DEF Typ
  <2>2. at' = Len(text) + 1 /\ at' = Len(t)
    BY <1>4, <1>7
  <2>3. ASSUME NEW j \in 1..Len(t) PROVE j \in FromFile'
    <3>1. Len(t) \in j..Len(t) /\ t[Len(t)].kind = "typ"
      BY <1>3, <1>4
    <3> QED BY <1>4, <1>5, <2>1, <3>1
  <2>4. FromFile' = 1..at'
    BY <1>5, <2>2, <2>3
  <2> QED BY <1>1, <1>3, <1>4, <2>2, <2>4 DEF Loaded
<1> QED BY <1>6, <1>7

-----------------------------------------------------------------------------
(* What is written to the phases of the start-up code.                      *)
Longer(out, u) == Len(out) <= Len(u) /\ \A j \in 1..Len(out) : u[j] = out[j]

LEMMA LineAppend ==
  ASSUME NEW out, CacheInv(out), NEW l \in Lines, NEW u, u = Append(out, l),
         l[1] = "cache" => \A j \in 1..Len(out) : out[j] # l,
         l[1] = "link" => Cached(out, l[2], Len(out) + 1) /\ Cached(out, l[3], Len(out) + 1)
  PROVE  CacheInv(u) /\ Longer(out, u) /\ Len(u) = Len(out) + 1 /\ u[Len(u)] = l
<1>1. out \in Seq(Lines)
  BY DEF CacheInv
<1>2. /\ u \in Seq(Lines) /\ Len(out) \in Nat /\ Len(u) = Len(out) + 1
      /\ u[Len(out) + 1] = l /\ \A j \in 1..Len(out) : u[j] = out[j]
  BY <1>1
<1>3. Longer(out, u)
  BY <1>2 DEF Longer
<1>4. ASSUME NEW i \in 1..Len(u), NEW j \in 1..Len(u), u[i] = u[j], u[i][1] = "cache"
      PROVE  i = j
  <2>1. CASE i \in 1..Len(out) /\ j \in 1..Len(out)
    BY <1>2, <1>4, <2>1 DEF CacheInv
  <2>2. CASE i \notin 1..Len(out) /\ j \in 1..Len(out)
    <3>1. i = Len(out) + 1
      BY <1>2, <2>2
    <3> QED BY <1>2, <1>4, <2>2, <3>1
  <2>3. CASE i \in 1..Len(out) /\ j \notin 1..Len(out)
    <3>1. j = Len(out) + 1
      BY <1>2, <2>3
    <3> QED BY <1>2, <1>4, <2>3, <3>1
  <2>4. CASE i \notin 1..Len(out) /\ j \notin 1..Len(out)
    BY <1>2, <2>4
  <2> QED BY <2>1, <2>2, <2>3, <2>4
<1>5. ASSUME NEW k \in 1..Len(u), NEW c, Cached(out, c, k)
      PROVE  Cached(u, c, k)
  <2>1. PICK j \in 1..k-1 : out[j] = <<"cache", c, NoName>>
    BY <1>5 DEF Cached
  <2>2. j \in 1..Len(out)
    BY <1>2
  <2> QED BY <1>2, <2>1, <2>2 DEF Cached
<1>6. ASSUME NEW k \in 1..Len(u), u[k][1] = "link"
      PROVE  Cached(u, u[k][2], k) /\ Cached(u, u[k][3], k)
  <2>1. CASE k \in 1..Len(out)
    <3>1. u[k] = out[k]
      BY <1>2, <2>1
    <3>2. Cached(out, u[k][2], k) /\ Cached(out, u[k][3], k)
      BY <1>6, <2>1, <3>1 DEF CacheInv
    <3> QED BY <1>5, <3>2
  <2>2. CASE k \notin 1..Len(out)
    <3>1. k = Len(out) + 1
      BY <1>2, <2>2
    <3>2. Cached(out, u[k][2], k) /\ Cached(out, u[k][3], k)
      BY <1>2, <1>6, <3>1
    <3> QED BY <1>5, <3>2
  <2> QED BY <2>1, <2>2
<1> QED BY <1>2, <1>3, <1>4, <1>6 DEF CacheInv

LEMMA CacheKeeps ==
  ASSUME NEW out, CacheInv(out), NEW c \in Classes, NEW u, u = Cache(out, c)
  PROVE  CacheInv(u) /\ Longer(out, u) /\ Cached(u, c, Len(u) + 1)
<1>0. out \in Seq(Lines)
  BY DEF CacheInv
<1>1. PICK l : l = <<"cache", c, NoName>>
  OBVIOUS
<1>2. l \in Lines /\ l[1] = "cache"
  BY <1>1 DEF Lines
<1>3. CASE l \in {out[j] : j \in 1..Len(out)}
  <2>1. u = out
    BY <1>1, <1>3 DEF Cache
  <2>2. PICK j \in 1..Len(out) : out[j] = l
    BY <1>3
  <2>3. j \in 1..(Len(out) + 1) - 1
    BY <1>0
  <2>4. Cached(u, c, Len(u) + 1)
    BY <1>1, <2>1, <2>2, <2>3 DEF Cached
  <2>5. Longer(out, u)
    BY <1>0, <2>1 DEF Longer
  <2> QED BY <2>1, <2>4, <2>5
<1>4. CASE l \notin {out[j] : j \in 1..Len(out)}
  <2>1. u = Append(out, l) /\ \A j \in 1..Len(out) : out[j] # l
    BY <1>1, <1>4 DEF Cache
  <2>2. CacheInv(u) /\ Longer(out, u) /\ Len(u) = Len(out) + 1 /\ u[Len(u)] = l
    BY <1>2, <2>1, LineAppend
  <2>3. Len(u) \in 1..(Len(u) + 1) - 1
    BY <1>0, <2>2
  <2> QED BY <1>1, <2>2, <2>3 DEF Cached
<1> QED BY <1>3, <1>4

LEMMA LinkedKeeps ==
  ASSUME NEW out, CacheInv(out), NEW c \in Classes, NEW q \in Classes,
         NEW u, u = Linked(out, c, q)
  PROVE  /\ CacheInv(u) /\ Longer(out, u)
         /\ \E k \in 1..Len(u) : u[k] = <<"link", c, q>>
<1>1. PICK a : a = Cache(out, c)
  OBVIOUS
<1>2. CacheInv(a) /\ Longer(out, a) /\ Cached(a, c, Len(a) + 1)
  BY <1>1, CacheKeeps
<1>3. PICK b : b = Cache(a, q)
  OBVIOUS
<1>4. CacheInv(b) /\ Longer(a, b) /\ Cached(b, q, Len(b) + 1)
  BY <1>2, <1>3, CacheKeeps
<1>5. Len(out) \in Nat /\ Len(a) \in Nat /\ Len(b) \in Nat
  BY <1>2, <1>4 DEF CacheInv
<1>6. Cached(b, c, Len(b) + 1)
  <2>1. PICK j \in 1..(Len(a) + 1) - 1 : a[j] = <<"cache", c, NoName>>
    BY <1>2 DEF Cached
  <2>2. j \in 1..Len(a) /\ j \in 1..(Len(b) + 1) - 1
    BY <1>4, <1>5 DEF Longer
  <2>3. b[j] = a[j]
    BY <1>4, <2>2 DEF Longer
  <2> QED BY <2>1, <2>2, <2>3 DEF Cached
<1>7. PICK l : l = <<"link", c, q>>
  OBVIOUS
<1>8. l \in Lines /\ l[1] = "link" /\ l[2] = c /\ l[3] = q
  BY <1>7 DEF Lines
<1>9. u = Append(b, l)
  BY <1>1, <1>3, <1>7 DEF Linked
<1>10. CacheInv(u) /\ Longer(b, u) /\ Len(u) = Len(b) + 1 /\ u[Len(u)] = l
  BY <1>4, <1>6, <1>8, <1>9, LineAppend
<1>11. Longer(out, u)
  <2>1. Len(out) <= Len(u)
    BY <1>2, <1>4, <1>5, <1>10 DEF Longer
  <2>2. ASSUME NEW j \in 1..Len(out) PROVE u[j] = out[j]
    <3>1. j \in 1..Len(a) /\ j \in 1..Len(b)
      BY <1>2, <1>4, <1>5 DEF Longer
    <3> QED BY <1>2, <1>4, <1>10, <3>1 DEF Longer
  <2> QED BY <2>1, <2>2 DEF Longer
<1>12. Len(u) \in 1..Len(u)
  BY <1>5, <1>10
<1> QED BY <1>7, <1>10, <1>11, <1>12

-----------------------------------------------------------------------------
(* Absorbing declarations.                                                  *)
LEMMA FatalO ==
  ASSUME OInv, pc' \in {"fatal", "crash"}, UNCHANGED <<init1b, init2>>
  PROVE  OInv'
BY DEF OInv

LEMMA AbsorbO ==
  ASSUME OInv, pc = "absorb", pc' = "absorb", UNCHANGED <<init1b, init2>>,
         NEW x \in Items, text' = Append(text, x), Loaded(at)',
         TextInv(text', Known', class_info'), Known \subseteq Known',
         \A c \in Known' : \A f \in classes'[c].methods :
           (c \in Known /\ f \in classes[c].methods) \/ (f[1] = c /\ Declared(text', f))
  PROVE  OInv'
<1>1. text \in Seq(Items) /\ MethodsDeclared /\ OwnMethods /\ init1b = <<>>
  BY DEF OInv, TextInv
<1>2. ASSUME NEW c \in Known', NEW f \in classes'[c].methods
      PROVE  f[1] = c /\ Declared(text', f)
  <2>1. CASE c \in Known /\ f \in classes[c].methods
    <3>1. f[1] = c /\ Declared(text, f)
      BY <1>1, <2>1 DEF MethodsDeclared, OwnMethods
    <3>2. Declared(text', f)
      BY <1>1, <3>1, DeclaredAppend
    <3> QED BY <3>1, <3>2
  <2> QED BY <2>1
<1>3. MethodsDeclared' /\ OwnMethods'
  BY <1>2 DEF MethodsDeclared, OwnMethods
<1>4. CacheInv(init2)' /\ (init1b \in Seq(Writes))' /\ init1b' = <<>>
  BY <1>1 DEF OInv
<1>5. TextInv(text, Known, class_info)'
  OBVIOUS
<1> QED BY <1>3, <1>4, <1>5 DEF OInv

LEMMA EnterO ==
  ASSUME SInv, OInv, ~Omitted, NEW c \in Classes, NEW q \in Classes \union {NoName},
         NEW ms \in Seq(Classes), absorb_class_enter(c, q, ms)
  PROVE  OInv'
<1>1. CASE c \in Known
  BY <1>1, FatalO DEF absorb_class_enter, FatalIn, Fatal
<1>2. CASE c \notin Known
  <2>1. PICK x : x = Header(c, q, ms)
    OBVIOUS
  <2>2. x \in Items /\ x.kind = "class" /\ x.name = c
    BY <2>1, ItemTypes DEF Header
  <2>3. /\ pc = "absorb" /\ pc' = "absorb" /\ UNCHANGED <<init1b, init2, at>>
        /\ text' = Append(text, x) /\ class_info = NoName /\ class_info' = c
        /\ classes' = [d \in Known \union {c} |->
                         IF d = c THEN NewClass(q, ms) ELSE classes[d]]
    BY <1>2, <2>1 DEF absorb_class_enter, Absorb, Later
  <2>4. Known' = Known \union {c}
    BY <2>3 DEF Known
  <2>5. TextInv(text, Known, NoName) /\ text \in Seq(Items) /\ Loaded(at)
    BY <2>3 DEF OInv, TextInv
  <2>6. TextInv(text', Known', c)
    BY <1>2, <2>2, <2>3, <2>4, <2>5, HeaderText
  <2>7. Loaded(at)'
    BY <2>2, <2>3, <2>5, LoadedAppend
  <2>8. ASSUME NEW d \in Known', NEW f \in classes'[d].methods
        PROVE  d \in Known /\ f \in classes[d].methods
    <3>1. CASE d = c
      <4>1. classes'[d] = NewClass(q, ms)
        BY <2>3, <2>4, <3>1
      <4> QED BY <2>8, <4>1 DEF NewClass
    <3>2. CASE d # c
      BY <2>3, <2>4, <2>8, <3>2
    <3> QED BY <3>1, <3>2
  <2> QED BY <2>2, <2>3, <2>4, <2>6, <2>7, <2>8, AbsorbO
<1> QED BY <1>1, <1>2

(* A declaration that is neither a header nor an end, and no method.        *)
LEMMA MemberO ==
  ASSUME OInv, ~Omitted, NEW x \in Items, Absorb(x), class_info' = class_info,
         x.kind \notin {"class", "end", "typ"},
         x.kind \in {"method", "constructor"} => class_info # NoName,
         Known' = Known, \A d \in Known : classes'[d].methods = classes[d].methods
  PROVE  OInv'
<1>1. /\ pc = "absorb" /\ pc' = "absorb" /\ UNCHANGED <<init1b, init2, at>>
      /\ text' = Append(text, x)
  BY DEF Absorb, Later
<1>2. TextInv(text, Known, class_info) /\ text \in Seq(Items) /\ Loaded(at)
  BY <1>1 DEF OInv, TextInv
<1>3. TextInv(text', Known, class_info)
  BY <1>1, <1>2, MemberText
<1>4. Loaded(at)'
  BY <1>1, <1>2, LoadedAppend
<1>5. TextInv(text', Known', class_info')
  BY <1>3
<1> QED BY <1>1, <1>4, <1>5, AbsorbO

LEMMA ExitO ==
  ASSUME OInv, ~Omitted, absorb_class_exit
  PROVE  OInv'
<1>1. PICK x : x = End
  OBVIOUS
<1>2. x \in Items /\ x.kind = "end"
  BY <1>1, ItemTypes DEF End
<1>3. /\ pc = "absorb" /\ pc' = "absorb" /\ UNCHANGED <<init1b, init2, at, classes>>
      /\ text' = Append(text, x) /\ class_info # NoName /\ class_info' = NoName
  BY <1>1 DEF absorb_class_exit, Later, tables
<1>4. Known' = Known
  BY <1>3 DEF Known
<1>5. TextInv(text, Known, class_info) /\ text \in Seq(Items) /\ Loaded(at)
  BY <1>3 DEF OInv, TextInv
<1>6. TextInv(text', Known', class_info')
  BY <1>2, <1>3, <1>4, <1>5, EndText
<1>7. Loaded(at)'
  BY <1>2, <1>3, <1>5, LoadedAppend
<1> QED BY <1>2, <1>3, <1>4, <1>6, <1>7, AbsorbO

LEMMA MethodO ==
  ASSUME SInv, OInv, ~Omitted, NEW name \in MethodNames, NEW type \in Types,
         absorb_method(name, type)
  PROVE  OInv'
<1>0. PICK c, f : c = class_info /\ f = <<c, MethodName(name, type)>>
  OBVIOUS
<1>1. c # NoName /\ c \in Known /\ Whole(classes[c])
  BY <1>0 DEF absorb_method, SInv, Tables
<1>2. PICK x : x = Method(name, type)
  OBVIOUS
<1>3. x \in Items /\ x.kind = "method" /\ x.name = name /\ x.type = type
  BY <1>2, ItemTypes DEF Method
<1>4. CASE FatalIn(Method(name, type))
  BY <1>4, FatalO DEF FatalIn, Fatal
<1>5. CASE ~FatalIn(Method(name, type))
  <2>1. /\ Absorb(x) /\ class_info' = class_info
        /\ classes' = WithMethod(classes, c, c, f, type)
    BY <1>0, <1>2, <1>5 DEF absorb_method
  <2>2. /\ pc = "absorb" /\ pc' = "absorb" /\ UNCHANGED <<init1b, init2, at>>
        /\ text' = Append(text, x)
    BY <2>1 DEF Absorb, Later
  <2>3. /\ Known' = Known
        /\ \A d \in Known : \A g \in classes'[d].methods :
             g \in classes[d].methods \/ (d = c /\ g = f)
    <3>0. classes = [d \in Known |-> classes[d]] /\ classes[c] \in ClassInfos
      BY <1>1 DEF SInv, Tables, Whole
    <3>1. CASE type = "VIRTUAL_GET"
      BY <1>1, <2>1, <3>0, <3>1 DEF WithMethod, ClassInfos, Known
    <3>2. CASE type = "VIRTUAL_SET"
      BY <1>1, <2>1, <3>0, <3>2 DEF WithMethod, ClassInfos, Known
    <3>3. CASE type \notin {"VIRTUAL_GET", "VIRTUAL_SET"}
      BY <1>1, <2>1, <3>0, <3>3 DEF WithMethod, ClassInfos, Known
    <3> QED BY <3>1, <3>2, <3>3
  <2>4. TextInv(text, Known, c) /\ text \in Seq(Items) /\ Loaded(at)
    BY <1>0, <2>2 DEF OInv, TextInv
  <2>5. TextInv(text', Known', class_info')
    <3>1. TextInv(text', Known, c)
      BY <1>1, <1>3, <2>2, <2>4, MemberText
    <3> QED BY <1>0, <2>1, <2>3, <3>1
  <2>6. Loaded(at)'
    BY <1>3, <2>2, <2>4, LoadedAppend
  <2>7. Declared(text', f) /\ f[1] = c
    <3>1. PICK h \in 1..Len(text) : Inside(text, h, Len(text) + 1) /\ text[h].name = c
      BY <1>1, <2>4 DEF TextInv
    <3>2. /\ Len(text) \in Nat /\ Len(text') = Len(text) + 1 /\ text'[Len(text) + 1] = x
          /\ \A i \in 1..Len(text) : text'[i] = text[i]
      BY <1>3, <2>2, <2>4, AppendItem
    <3>3. Len(text) + 1 \in Nat /\ Len(text) + 1 <= Len(text) + 1
      BY <3>2
    <3>4. Inside(text', h, Len(text) + 1)
      BY <1>3, <2>2, <2>4, <3>1, <3>3, InsideAppend
    <3>5. Len(text) + 1 \in 1..Len(text') /\ h \in 1..Len(text')
      BY <3>2
    <3>6. f[1] = c /\ StaticName(c, x) = f
      BY <1>0, <1>3 DEF StaticName
    <3>7. text'[h].name = c
      BY <3>1, <3>2
    <3> QED BY <1>3, <3>2, <3>4, <3>5, <3>6, <3>7 DEF Declared
  <2> QED BY <1>3, <2>2, <2>3, <2>5, <2>6, <2>7, AbsorbO
<1> QED BY <1>4, <1>5

LEMMA PropertyO ==
  ASSUME SInv, OInv, ~Omitted, NEW y \in Members, absorb_property(y)
  PROVE  OInv'
<1>0. class_info # NoName /\ class_info \in Known /\ Whole(classes[class_info])
  BY DEF absorb_property, SInv, Tables
<1>1. CASE FatalIn(Property(y))
  BY <1>1, FatalO DEF FatalIn, Fatal
<1>2. CASE ~FatalIn(Property(y))
  <2>1. /\ Absorb(Property(y)) /\ class_info' = class_info
        /\ classes' = [classes EXCEPT ![class_info].type = "FIELD",
                                      ![class_info].props = @ \union {y},
                                      ![class_info].num_props = @ + 1]
    BY <1>2 DEF absorb_property
  <2>2. Known' = Known /\ \A d \in Known : classes'[d].methods = classes[d].methods
    <3>0. classes = [d \in Known |-> classes[d]] /\ classes[class_info] \in ClassInfos
      BY <1>0 DEF SInv, Tables, Whole
    <3> QED BY <1>0, <2>1, <3>0 DEF ClassInfos, Known
  <2>3. Property(y) \in Items /\ Property(y).kind = "property"
    BY ItemTypes DEF Property
  <2> QED BY <2>1, <2>2, <2>3, MemberO
<1> QED BY <1>1, <1>2

LEMMA CCodeO ==
  ASSUME SInv, OInv, ~Omitted, absorb_ccode
  PROVE  OInv'
<1>0. class_info # NoName => class_info \in Known /\ Whole(classes[class_info])
  BY DEF SInv, Tables
<1>1. CASE FatalIn(CCode)
  BY <1>1, FatalO DEF FatalIn, Fatal
<1>2. CASE ~FatalIn(CCode)
  <2>1. /\ Absorb(CCode) /\ class_info' = class_info
        /\ class_info = NoName => classes' = classes
        /\ class_info # NoName => classes' = [classes EXCEPT ![class_info].type = "CDATA"]
    BY <1>2 DEF absorb_ccode
  <2>2. Known' = Known /\ \A d \in Known : classes'[d].methods = classes[d].methods
    <3>1. CASE class_info = NoName
      BY <2>1, <3>1 DEF Known
    <3>2. CASE class_info # NoName
      <4>0. classes = [d \in Known |-> classes[d]] /\ classes[class_info] \in ClassInfos
        BY <1>0, <3>2 DEF SInv, Tables, Whole
      <4> QED BY <1>0, <2>1, <3>2, <4>0 DEF ClassInfos, Known
    <3> QED BY <3>1, <3>2
  <2>3. CCode \in Items /\ CCode.kind = "ccode"
    BY ItemTypes DEF CCode
  <2> QED BY <2>1, <2>2, <2>3, MemberO
<1> QED BY <1>1, <1>2

LEMMA OtherO ==
  ASSUME OInv, ~Omitted, NEW x \in Items, Absorb(x) \/ FatalIn(x),
         x.kind \in {"constructor", "function", "var"},
         x.kind = "constructor" => class_info # NoName,
         Absorb(x) => UNCHANGED <<classes, class_info>>
  PROVE  OInv'
<1>1. CASE FatalIn(x)
  BY <1>1, FatalO DEF FatalIn, Fatal
<1>2. CASE Absorb(x)
  <2>1. Known' = Known /\ \A d \in Known : classes'[d].methods = classes[d].methods
    BY <1>2 DEF Known
  <2> QED BY <1>2, <2>1, MemberO
<1> QED BY <1>1, <1>2

LEMMA AbsorbSomeO ==
  ASSUME SInv, OInv, ~Omitted, AbsorbSome
  PROVE  OInv'
<1>1. ASSUME NEW c \in Classes, NEW kin \in Kinships,
             absorb_class_enter(c, kin[1], kin[2])
      PROVE  OInv'
  BY <1>1, KinshipTypes, EnterO
<1>2. ASSUME NEW y \in Members, absorb_var(y)
      PROVE  OInv'
  <2>1. /\ Absorb(Var(y)) \/ FatalIn(Var(y))
        /\ Absorb(Var(y)) => UNCHANGED <<classes, class_info>>
    BY <1>2 DEF absorb_var, FatalIn, Fatal, tables
  <2>2. Var(y) \in Items /\ Var(y).kind = "var"
    BY ItemTypes DEF Var
  <2> QED BY <2>1, <2>2, OtherO
<1>3. ASSUME NEW sp \in Classes, NEW y \in Members, NEW params \in Params,
             AbsorbFunction(sp, <<"", y>>, params)
      PROVE  OInv'
  <2>0. PICK x : x = Function(sp, <<"", y>>)
    OBVIOUS
  <2>1. /\ Absorb(x) \/ FatalIn(x)
        /\ Absorb(x) => UNCHANGED <<classes, class_info>>
    BY <1>3, <2>0 DEF AbsorbFunction, absorb_function, FatalIn, Fatal, tables
  <2>2. x \in Items /\ x.kind = "function"
    <3>1. <<"", y>> \in MethodNames
      BY DEF MethodNames
    <3> QED BY <2>0, <3>1, ItemTypes DEF Function
  <2> QED BY <2>1, <2>2, OtherO
<1>4. ASSUME NEW name \in {"", "get_"} \X Members, NEW annots \in SUBSET Annotations,
             NEW params \in Params, AbsorbMethod(name, params, annots)
      PROVE  OInv'
  <2>1. name \in MethodNames /\ TypeOf(annots) \in Types
    BY DEF MethodNames, TypeOf, Types
  <2>2. CASE FatalIn(Method(name, TypeOf(annots)))
    BY <2>2, FatalO DEF FatalIn, Fatal
  <2>3. CASE absorb_constructor(name)
    <3>0. PICK x : x = Constructor(name)
      OBVIOUS
    <3>1. /\ Absorb(x) \/ (FatalIn(x) /\ class_info # NoName)
          /\ Absorb(x) => UNCHANGED <<classes, class_info>>
      BY <2>3, <3>0 DEF absorb_constructor, FatalIn, Fatal, tables
    <3>2. x \in Items /\ x.kind = "constructor" /\ class_info # NoName
      BY <2>1, <2>3, <3>0, ItemTypes DEF Constructor, absorb_constructor
    <3> QED BY <3>1, <3>2, OtherO
  <2>4. CASE absorb_method(name, TypeOf(annots))
    BY <2>1, <2>4, MethodO
  <2> QED BY <1>4, <2>2, <2>3, <2>4 DEF AbsorbMethod
<1> QED BY <1>1, <1>2, <1>3, <1>4, ExitO, PropertyO, CCodeO DEF AbsorbSome

(* Reading a .typ file.                                                     *)
LEMMA FileO ==
  ASSUME SInv, OInv, NEW omit \in BOOLEAN, stran_absorb_file(omit)
  PROVE  OInv'
<1>1. CASE Unreadable
  BY <1>1, FatalO DEF stran_absorb_file, FatalIn, Fatal
<1>2. CASE ~Unreadable
  <2>0. PICK x : x = Typ(omit)
    OBVIOUS
  <2>1. x \in Items /\ x.kind = "typ"
    BY <2>0, ItemTypes DEF Typ
  <2>2. /\ pc = "absorb" /\ pc' = "absorb" /\ UNCHANGED <<init1b, init2>>
        /\ text' = Append(text, x) /\ class_info = NoName /\ class_info' = NoName
        /\ at' = IF omit THEN 0 ELSE Len(text) + 1
    BY <1>2, <2>0 DEF stran_absorb_file
  <2>3. classes' = classes
    BY <1>2, FileInv
  <2>4. Known' = Known
    BY <2>3 DEF Known
  <2>5. TextInv(text, Known, NoName) /\ text \in Seq(Items)
    BY <2>2 DEF OInv, TextInv
  <2>6. TextInv(text', Known', class_info')
    <3>1. TextInv(text', Known, NoName)
      BY <2>1, <2>2, <2>5, MemberText
    <3> QED BY <2>2, <2>4, <3>1
  <2>7. Loaded(at)'
    <3>1. text' = Append(text, Typ(omit))
      BY <2>0, <2>2
    <3> QED BY <2>2, <2>5, <3>1, LoadedTyp
  <2> QED BY <2>1, <2>2, <2>3, <2>4, <2>6, <2>7, AbsorbO
<1> QED BY <1>1, <1>2

(* Whether parents come first depends on the text and on who they are.      *)
LEMMA OrderKept ==
  ASSUME text' = text, Known' = Known,
         \A c \in Known : /\ classes'[c].parent = classes[c].parent
                          /\ classes'[c].mixins = classes[c].mixins
  PROVE  /\ (Ordered' => Ordered) /\ (Ordered => Ordered')
         /\ FromFile' = FromFile /\ \A c : HeaderOf(c)' = HeaderOf(c)
<1>1. FromFile' = FromFile
  BY DEF FromFile
<1>2. \A c : HeaderOf(c)' = HeaderOf(c)
  BY DEF HeaderOf
<1>3. ASSUME Ordered PROVE Ordered'
  BY <1>1, <1>2, <1>3 DEF Ordered
<1>4. ASSUME Ordered' PROVE Ordered
  BY <1>1, <1>2, <1>4 DEF Ordered
<1> QED BY <1>1, <1>2, <1>3, <1>4

(* Tracing begins.                                                          *)
LEMMA StartO ==
  ASSUME OInv, genist_start
  PROVE  OInv'
<1>1. /\ pc = "absorb" /\ pc' = "trace" /\ class_info = NoName
      /\ UNCHANGED <<text, class_info, classes, at, init1b, init2>>
  BY DEF genist_start, tables
<1>2. /\ TextInv(text, Known, class_info) /\ MethodsDeclared /\ Loaded(at) /\ OwnMethods
      /\ init1b = <<>> /\ CacheInv(init2) /\ init1b \in Seq(Writes)
  BY <1>1 DEF OInv
<1>3. Known' = Known /\ FromFile' = FromFile
  BY <1>1 DEF Known, FromFile
<1>4. /\ TextInv(text, Known, class_info)' /\ MethodsDeclared' /\ Loaded(at)'
  BY <1>1, <1>2, <1>3 DEF MethodsDeclared, Loaded
<1>5. MethodsBefore
  BY <1>2, HeaderFacts DEF MethodsBefore, OwnMethods
<1>6. MethodsBefore'
  <2>1. /\ (Ordered' => Ordered) /\ FromFile' = FromFile /\ \A c : HeaderOf(c)' = HeaderOf(c)
    BY <1>1, <1>3, OrderKept
  <2> QED BY <1>1, <1>3, <1>5, <2>1 DEF MethodsBefore
<1> QED BY <1>1, <1>2, <1>4, <1>6 DEF OInv

-----------------------------------------------------------------------------
(* Tracing gives classes the methods of their parents and mixins, and       *)
(* changes nothing else that matters here.                                  *)
Kindred(c, q) ==
  \/ q # NoName /\ q = classes[c].parent
  \/ \E j \in DOMAIN classes[c].mixins : q = classes[c].mixins[j]

Passes(c, f) ==
  f \in classes[c].methods \/ \E q \in Known : Kindred(c, q) /\ f \in classes[q].methods

PassesOn ==
  /\ Known' = Known
  /\ \A c \in Known : /\ classes'[c].parent = classes[c].parent
                       /\ classes'[c].mixins = classes[c].mixins
  /\ \A c \in Known : \A f \in classes'[c].methods : Passes(c, f)

LEMMA PassedO ==
  ASSUME SInv, OInv, pc = "trace", pc' = "trace", PassesOn,
         UNCHANGED <<text, class_info, at, init1b, init2>>
  PROVE  OInv'
<1>1. /\ TextInv(text, Known, class_info) /\ MethodsDeclared /\ Loaded(at) /\ MethodsBefore
      /\ init1b = <<>> /\ CacheInv(init2) /\ init1b \in Seq(Writes) /\ class_info = NoName
  BY DEF OInv
<1>2. /\ (Ordered' => Ordered) /\ FromFile' = FromFile /\ Known' = Known
      /\ \A c : HeaderOf(c)' = HeaderOf(c)
  BY OrderKept DEF PassesOn
<1>3. ASSUME NEW c \in Known, NEW f \in classes'[c].methods
      PROVE  f[1] \in Known /\ Declared(text, f)
  <2>1. Passes(c, f)
    BY DEF PassesOn
  <2> QED BY <1>1, <2>1 DEF Passes, MethodsDeclared
<1>4. ASSUME Ordered, NEW c \in Known, HeaderOf(c) \notin FromFile,
             NEW f \in classes'[c].methods
      PROVE  HeaderOf(f[1]) <= HeaderOf(c) /\ HeaderOf(f[1]) \notin FromFile
  <2>1. CASE f \in classes[c].methods
    BY <1>1, <1>4, <2>1 DEF MethodsBefore
  <2>2. CASE f \notin classes[c].methods
    <3>1. PICK q \in Known : Kindred(c, q) /\ f \in classes[q].methods
      <4>1. Passes(c, f)
        BY DEF PassesOn
      <4> QED BY <2>2, <4>1 DEF Passes
    <3>2. HeaderOf(q) < HeaderOf(c) /\ HeaderOf(q) \notin FromFile
      <4>1. PICK kin : kin = {classes[c].mixins[j] : j \in DOMAIN classes[c].mixins}
                              \union ({classes[c].parent} \ {NoName})
        OBVIOUS
      <4>2. q \in kin
        BY <3>1, <4>1 DEF Kindred
      <4>3. \A p \in kin : HeaderOf(p) < HeaderOf(c) /\ HeaderOf(p) \notin FromFile
        BY <1>4, <4>1 DEF Ordered
      <4> QED BY <4>2, <4>3
    <3>3. HeaderOf(f[1]) <= HeaderOf(q) /\ HeaderOf(f[1]) \notin FromFile
      BY <1>1, <1>4, <3>1, <3>2 DEF MethodsBefore
    <3>4. f[1] \in Known
      BY <1>3
    <3>5. /\ HeaderOf(c) \in Nat /\ HeaderOf(q) \in Nat /\ HeaderOf(f[1]) \in Nat
      <4>1. \A d \in Known : HeaderOf(d) \in 1..Len(text) /\ Len(text) \in Nat
        BY <1>1, HeaderFacts
      <4> QED BY <3>4, <4>1
    <3> QED BY <3>2, <3>3, <3>5
  <2> QED BY <2>1, <2>2
<1>5. MethodsDeclared' /\ MethodsBefore'
  BY <1>2, <1>3, <1>4 DEF MethodsDeclared, MethodsBefore
<1>6. TextInv(text, Known, class_info)' /\ Loaded(at)'
  BY <1>1, <1>2 DEF Loaded
<1> QED BY <1>1, <1>5, <1>6 DEF OInv

(* A class with another marker, or with what it inherits.                   *)
LEMMA PassesUpdate ==
  ASSUME SInv, NEW c \in Known, NEW x, classes' = [classes EXCEPT ![c] = x],
         x.parent = classes[c].parent, x.mixins = classes[c].mixins,
         \A f \in x.methods : Passes(c, f)
  PROVE  PassesOn
<1>1. classes = [d \in Known |-> classes[d]]
  BY DEF SInv, Tables
<1>2. Known' = Known /\ classes'[c] = x /\ \A d \in Known : d # c => classes'[d] = classes[d]
  BY <1>1 DEF Known
<1>3. \A d \in Known : \A f \in classes[d].methods : Passes(d, f)
  BY DEF Passes
<1> QED BY <1>2, <1>3 DEF PassesOn

LEMMA MarkedPasses ==
  ASSUME SInv, NEW c \in Known, NEW m \in Markers, classes' = Marked(classes, c, m)
  PROVE  PassesOn
<1>1. PICK x : x = [classes[c] EXCEPT !.marker = m]
  OBVIOUS
<1>2. Whole(classes[c]) /\ classes' = [classes EXCEPT ![c] = x]
  BY <1>1 DEF SInv, Tables, Marked
<1>3. x.parent = classes[c].parent /\ x.mixins = classes[c].mixins /\ x.methods = classes[c].methods
  BY <1>1, <1>2, MarkWhole
<1>4. \A f \in x.methods : Passes(c, f)
  BY <1>3 DEF Passes
<1> QED BY <1>2, <1>3, <1>4, PassesUpdate

LEMMA SamePasses ==
  ASSUME SInv, classes' = classes
  PROVE  PassesOn
BY DEF PassesOn, Passes, Known

LEMMA RunPasses ==
  ASSUME SInv, NEW c, NEW q, genist_run_r(c, q)
  PROVE  PassesOn /\ (pc' = pc \/ pc' = "fatal")
<1>1. CASE c \in Known /\ classes' = Marked(classes, c, "VISITING") /\ UNCHANGED pc
  BY <1>1, MarkedPasses DEF Markers
<1>2. CASE classes' = classes /\ (UNCHANGED pc \/ pc' = "fatal")
  BY <1>2, SamePasses
<1> QED BY <1>1, <1>2 DEF genist_run_r

LEMMA AddMixinPasses ==
  ASSUME SInv, NEW j, AddMixin(j)
  PROVE  PassesOn /\ (pc' = pc \/ pc' \in {"fatal", "crash"})
<1>0. PICK c, m, x : c = Top.class /\ m = Top.left[j] /\ x = Inherit(classes[c], classes[m])
  OBVIOUS
<1>1. InTrace /\ j \in DOMAIN Top.left
  BY DEF AddMixin
<1>2. c \in Known /\ Whole(classes[c]) /\ CallInv(Len(path)) /\ Top = path[Len(path)]
  BY <1>0, <1>1, TopCall
<1>3. CASE classes' = classes /\ pc' \in {"fatal", "crash"}
  BY <1>3, SamePasses
<1>4. CASE ~(classes' = classes /\ pc' \in {"fatal", "crash"})
  <2>1. /\ ~AddFails(c, m, TRUE) /\ pc' = pc
        /\ classes' = [classes EXCEPT ![c] = x]
    BY <1>0, <1>4 DEF AddMixin
  <2>2. m \in Known /\ Whole(classes[m]) /\ Accepted(classes[c], classes[m])
    BY <2>1 DEF AddFails, Accepted, SInv, Tables
  <2>3. /\ x.parent = classes[c].parent /\ x.mixins = classes[c].mixins
        /\ x.methods = classes[c].methods \union classes[m].methods
    BY SMTT(60), <1>0, <1>2, <2>2, InheritWhole
  <2>4. Kindred(c, m)
    <3>1. \A l \in DOMAIN path[Len(path)].left : \E k \in DOMAIN classes[path[Len(path)].class].mixins :
            path[Len(path)].left[l] = classes[path[Len(path)].class].mixins[k]
      BY <1>2 DEF CallInv
    <3> QED BY <1>0, <1>1, <1>2, <3>1 DEF Kindred
  <2>5. \A f \in x.methods : Passes(c, f)
    BY <2>2, <2>3, <2>4 DEF Passes
  <2> QED BY <1>2, <2>1, <2>3, <2>5, PassesUpdate
<1> QED BY <1>3, <1>4

LEMMA TracedChildPasses ==
  ASSUME SInv, TracedChild
  PROVE  PassesOn /\ (pc' = pc \/ pc' \in {"fatal", "crash"})
<1>0. PICK c, q, y, x : /\ c = Top.class /\ q = classes[c].parent
                        /\ y = Inherit(classes[c], classes[q])
                        /\ x = [y EXCEPT !.marker = "VISITED"]
  OBVIOUS
<1>1. InTrace /\ Top.called
  BY DEF TracedChild
<1>2. /\ c \in Known /\ Whole(classes[c]) /\ CallInv(Len(path))
      /\ Top = path[Len(path)] /\ Top \in Calls
  BY <1>0, <1>1, TopCall
<1>3. q # NoName
  <2>1. Top.called = TRUE
    BY <1>1, <1>2 DEF Calls
  <2> QED BY <1>0, <1>2, <2>1 DEF CallInv
<1>4. CASE classes' = classes /\ pc' \in {"fatal", "crash"}
  BY <1>4, SamePasses
<1>5. CASE ~(classes' = classes /\ pc' \in {"fatal", "crash"})
  <2>1. /\ ~AddFails(c, q, FALSE) /\ pc' = pc
        /\ classes' = Marked([classes EXCEPT ![c] = y], c, "VISITED")
    BY <1>0, <1>5 DEF TracedChild
  <2>2. classes' = [classes EXCEPT ![c] = x]
    <3>1. classes = [d \in Known |-> classes[d]]
      BY DEF SInv, Tables
    <3> QED BY <1>0, <1>2, <2>1, <3>1 DEF Marked
  <2>3. q \in Known /\ Whole(classes[q]) /\ Accepted(classes[c], classes[q])
    BY <2>1 DEF AddFails, Accepted, SInv, Tables
  <2>4. /\ Whole(y) /\ y.parent = classes[c].parent /\ y.mixins = classes[c].mixins
        /\ y.methods = classes[c].methods \union classes[q].methods
    <3>1. y = Inherit(classes[c], classes[q]) /\ Whole(classes[c])
      BY <1>0, <1>2
    <3> QED BY <2>3, <3>1, InheritWhole
  <2>5. x.parent = y.parent /\ x.mixins = y.mixins /\ x.methods = y.methods
    <3>1. Whole(y) /\ x = [y EXCEPT !.marker = "VISITED"]
      BY <1>0, <2>4
    <3>2. "VISITED" \in Markers
      BY DEF Markers
    <3> QED BY <3>1, <3>2, MarkWhole
  <2>6. Kindred(c, q)
    BY <1>0, <1>3 DEF Kindred
  <2>7. \A f \in x.methods : Passes(c, f)
    BY <2>3, <2>4, <2>5, <2>6 DEF Passes
  <2> QED BY <1>2, <2>1, <2>2, <2>4, <2>5, <2>7, PassesUpdate
<1> QED BY <1>4, <1>5

LEMMA TraceO ==
  ASSUME SInv, OInv, Trace
  PROVE  OInv'
<1>1. ASSUME pc = "trace", PassesOn, pc' = pc \/ pc' \in {"fatal", "crash"},
             UNCHANGED <<text, class_info, at, init1b, init2>>
      PROVE  OInv'
  BY <1>1, PassedO, FatalO
<1>2. ASSUME NEW c \in Classes, TraceNext(c)
      PROVE  OInv'
  <2>1. /\ pc = "trace" /\ genist_run_r(c, path)
        /\ UNCHANGED <<text, class_info, at, init1b, init2>>
    BY <1>2 DEF TraceNext
  <2> QED BY <1>1, <2>1, RunPasses
<1>3. CASE TraceParent
  <2>0. PICK q, r : /\ q = classes[Top.class].parent
                    /\ r = [path EXCEPT ![Len(path)].called = TRUE]
    OBVIOUS
  <2>1. /\ pc = "trace" /\ genist_run_r(q, r)
        /\ UNCHANGED <<text, class_info, at, init1b, init2>>
    BY <1>3, <2>0 DEF TraceParent, TraceOnly, InTrace
  <2> QED BY <1>1, <2>1, RunPasses
<1>4. ASSUME NEW j, AddMixin(j)
      PROVE  OInv'
  <2>1. pc = "trace" /\ UNCHANGED <<text, class_info, at, init1b, init2>>
    BY <1>4 DEF AddMixin, TraceOnly, InTrace
  <2> QED BY <1>1, <1>4, <2>1, AddMixinPasses
<1>5. CASE TracedRoot
  <2>1. /\ pc = "trace" /\ UNCHANGED <<text, class_info, at, init1b, init2>> /\ pc' = pc
        /\ classes' = Marked(classes, Top.class, "VISITED") /\ InTrace
    BY <1>5 DEF TracedRoot, TraceOnly, InTrace
  <2>2. Top.class \in Known /\ "VISITED" \in Markers
    BY <2>1, TopCall DEF Markers
  <2> QED BY <1>1, <2>1, <2>2, MarkedPasses
<1>6. CASE TracedChild
  <2>1. pc = "trace" /\ UNCHANGED <<text, class_info, at, init1b, init2>>
    BY <1>6 DEF TracedChild, TraceOnly, InTrace
  <2> QED BY <1>1, <1>6, <2>1, TracedChildPasses
<1>7. CASE genist_end
  <2>1. /\ pc = "trace" /\ pc' = "process"
        /\ UNCHANGED <<text, class_info, classes, at, init1b, init2>>
    BY <1>7 DEF genist_end, tables
  <2>2. /\ TextInv(text, Known, class_info) /\ MethodsDeclared /\ Loaded(at) /\ MethodsBefore
        /\ init1b = <<>> /\ CacheInv(init2) /\ init1b \in Seq(Writes) /\ class_info = NoName
    BY <2>1 DEF OInv
  <2>3. at \in 0..Len(text) /\ at \in 0..at /\ at \in at..Len(text) /\ Len(text) \in Nat
    BY <2>2 DEF Loaded, TextInv
  <2>4. MethodsWritten(text, at, at, init1b) /\ LinksWritten(text, classes, at, at, init2)
    <3>1. \A i \in at+1..at : FALSE
      BY <2>3
    <3> QED BY <3>1 DEF MethodsWritten, LinksWritten
  <2>5. Started(at) /\ UsesDeclared(init1b)
    BY <2>2, <2>3, <2>4 DEF Started, UsesDeclared
  <2>6. Known' = Known
    BY <2>1 DEF Known
  <2>7. /\ (Ordered' => Ordered) /\ FromFile' = FromFile /\ \A c : HeaderOf(c)' = HeaderOf(c)
    BY <2>1, <2>6, OrderKept
  <2>8. TextInv(text, Known, class_info)' /\ MethodsDeclared' /\ MethodsBefore'
    BY <2>1, <2>2, <2>6, <2>7 DEF MethodsDeclared, MethodsBefore
  <2>9. \E b \in 0..at' : Started(b)'
    <3>1. Started(at)'
      BY <2>1, <2>5, <2>7 DEF Started, Loaded
    <3>2. PICK b : b = at
      OBVIOUS
    <3>3. Started(b)' /\ b \in 0..at'
      BY <2>1, <2>3, <3>1, <3>2 DEF Started, Loaded
    <3> QED BY <3>3
  <2> QED BY <2>1, <2>2, <2>5, <2>8, <2>9 DEF OInv
<1> QED BY <1>2, <1>3, <1>4, <1>5, <1>6, <1>7 DEF Trace

-----------------------------------------------------------------------------
(* Processing the declarations one by one.                                  *)
LEMMA MethodsGrow ==
  ASSUME NEW s, NEW b \in Nat, NEW n \in Nat, NEW out, NEW u,
         MethodsWritten(s, b, n, out), Longer(out, u), Len(out) \in Nat, Len(u) \in Nat,
         s[n + 1].kind = "method" => \A h \in 1..Len(s) : Inside(s, h, n + 1) =>
           \E j \in 1..Len(u) : u[j] = make_func_value(StaticName(s[h].name, s[n + 1]))
  PROVE  MethodsWritten(s, b, n + 1, u)
<1> SUFFICES ASSUME NEW i \in b+1..n+1, s[i].kind = "method", NEW h \in 1..Len(s),
                    Inside(s, h, i)
             PROVE  \E j \in 1..Len(u) : u[j] = make_func_value(StaticName(s[h].name, s[i]))
  BY DEF MethodsWritten
<1>1. CASE i = n + 1
  BY <1>1
<1>2. CASE i # n + 1
  <2>1. i \in b+1..n
    BY <1>2
  <2>2. PICK j \in 1..Len(out) : out[j] = make_func_value(StaticName(s[h].name, s[i]))
    BY <2>1 DEF MethodsWritten
  <2>3. j \in 1..Len(u) /\ u[j] = out[j]
    BY DEF Longer
  <2> QED BY <2>2, <2>3
<1> QED BY <1>1, <1>2

LEMMA LinksGrow ==
  ASSUME NEW s, NEW cs, NEW b \in Nat, NEW n \in Nat, NEW out, NEW u,
         LinksWritten(s, cs, b, n, out), Longer(out, u), Len(out) \in Nat, Len(u) \in Nat,
         s[n + 1].kind = "end" => \A h \in 1..Len(s) :
           Inside(s, h, n + 1) /\ cs[s[h].name].parent # NoName =>
             \E k \in 1..Len(u) : u[k] = <<"link", s[h].name, cs[s[h].name].parent>>
  PROVE  LinksWritten(s, cs, b, n + 1, u)
<1> SUFFICES ASSUME NEW i \in b+1..n+1, s[i].kind = "end", NEW h \in 1..Len(s),
                    Inside(s, h, i), cs[s[h].name].parent # NoName
             PROVE  \E k \in 1..Len(u) : u[k] = <<"link", s[h].name, cs[s[h].name].parent>>
  BY DEF LinksWritten
<1>1. CASE i = n + 1
  BY <1>1
<1>2. CASE i # n + 1
  <2>1. i \in b+1..n
    BY <1>2
  <2>2. PICK j \in 1..Len(out) : out[j] = <<"link", s[h].name, cs[s[h].name].parent>>
    BY <2>1 DEF LinksWritten
  <2>3. j \in 1..Len(u) /\ u[j] = out[j]
    BY DEF Longer
  <2> QED BY <2>2, <2>3
<1> QED BY <1>1, <1>2

LEMMA WriteAppend ==
  ASSUME NEW out \in Seq(Writes), NEW w \in Writes, NEW u, u = Append(out, w)
  PROVE  /\ u \in Seq(Writes) /\ Longer(out, u) /\ Len(u) = Len(out) + 1
         /\ Len(out) \in Nat /\ Len(u) \in Nat
         /\ Len(u) \in 1..Len(u) /\ u[Len(u)] = w
<1>1. /\ u \in Seq(Writes) /\ Len(out) \in Nat /\ Len(u) = Len(out) + 1
      /\ u[Len(out) + 1] = w /\ \A j \in 1..Len(out) : u[j] = out[j]
  OBVIOUS
<1> QED BY <1>1 DEF Longer

LEMMA UsesGrow ==
  ASSUME NEW out \in Seq(Writes), UsesDeclared(out), NEW w \in Writes, NEW u,
         u = Append(out, w),
         w.op = "use" => \A f \in w.funcs : \E j \in 1..Len(out) : out[j] = make_func_value(f)
  PROVE  UsesDeclared(u)
<1>1. /\ Longer(out, u) /\ Len(u) = Len(out) + 1 /\ Len(out) \in Nat /\ u[Len(u)] = w
  BY WriteAppend
<1> SUFFICES ASSUME NEW k \in 1..Len(u), u[k].op = "use", NEW f \in u[k].funcs
             PROVE  \E j \in 1..k-1 : u[j] = make_func_value(f)
  BY DEF UsesDeclared
<1>2. CASE k = Len(u)
  <2>1. PICK j \in 1..Len(out) : out[j] = make_func_value(f)
    BY <1>1, <1>2
  <2>2. j \in 1..k-1 /\ u[j] = out[j]
    BY <1>1, <1>2 DEF Longer
  <2> QED BY <2>1, <2>2
<1>3. CASE k # Len(u)
  <2>1. k \in 1..Len(out)
    BY <1>1, <1>3
  <2>2. u[k] = out[k]
    BY <1>1, <2>1 DEF Longer
  <2>3. PICK j \in 1..k-1 : out[j] = make_func_value(f)
    BY <2>1, <2>2 DEF UsesDeclared
  <2>4. j \in 1..Len(out)
    BY <1>1, <2>1
  <2>5. u[j] = out[j]
    BY <1>1, <2>4 DEF Longer
  <2> QED BY <2>3, <2>5
<1> QED BY <1>2, <1>3

(* The methods of a class are declared before its end is processed.         *)
LEMMA EndUses ==
  ASSUME OInv, pc = "process", NEW b \in 0..at, Started(b), Ordered, at < Len(text),
         text[at + 1].kind = "end", NEW h \in 1..Len(text), Inside(text, h, at + 1),
         NEW f \in classes[text[h].name].methods
  PROVE  \E j \in 1..Len(init1b) : init1b[j] = make_func_value(f)
<1>0. PICK c : c = text[h].name
  OBVIOUS
<1>1. /\ TextInv(text, Known, class_info) /\ MethodsDeclared /\ MethodsBefore
  BY DEF OInv
<1>2. /\ Loaded(b) /\ at \in b..Len(text) /\ MethodsWritten(text, b, at, init1b)
  BY DEF Started
<1>3. /\ Len(text) \in Nat /\ b \in 0..Len(text) /\ FromFile = 1..b
      /\ (b > 0 => text[b].kind = "typ")
  BY <1>1, <1>2 DEF Loaded, TextInv
<1>4. at \in Nat /\ b \in Nat /\ b <= at
  BY <1>2, <1>3
<1>5. /\ h < at + 1 /\ text[h].kind = "class"
      /\ \A j \in h+1..(at+1)-1 : text[j].kind \notin {"class", "end", "typ"}
  BY DEF Inside
<1>6. c \in Known /\ h = HeaderOf(c)
  <2>1. c \in Known
    BY <1>0, <1>1, <1>5 DEF TextInv
  <2> QED BY <1>0, <1>1, <1>5, <2>1, HeaderFacts
<1>7. b < h
  <2> SUFFICES ASSUME h <= b PROVE FALSE
    BY <1>4
  <2>1. b > 0
    BY <1>4
  <2>2. text[b].kind = "typ" /\ b # h
    BY <1>3, <1>5, <2>1
  <2>3. b \in h+1..(at+1)-1
    BY <1>4, <2>2
  <2> QED BY <1>5, <2>2, <2>3
<1>8. HeaderOf(c) \notin FromFile
  BY <1>3, <1>6, <1>7
<1>9. f[1] \in Known /\ Declared(text, f)
  BY <1>0, <1>1, <1>6 DEF MethodsDeclared
<1>10. HeaderOf(f[1]) <= h /\ HeaderOf(f[1]) \notin FromFile
  BY <1>0, <1>1, <1>6, <1>8 DEF MethodsBefore
<1>11. PICK i, g \in 1..Len(text) :
         /\ text[i].kind = "method" /\ Inside(text, g, i)
         /\ text[g].name = f[1] /\ StaticName(f[1], text[i]) = f
  BY <1>9 DEF Declared
<1>12. /\ g < i /\ text[g].kind = "class"
       /\ \A j \in g+1..i-1 : text[j].kind \notin {"class", "end", "typ"}
  BY <1>11 DEF Inside
<1>13. g = HeaderOf(f[1])
  BY <1>1, <1>9, <1>11, <1>12, HeaderFacts
<1>14. g <= h /\ b < g
  <2>1. g <= h /\ g \notin 1..b
    BY <1>3, <1>10, <1>13
  <2> QED BY <1>4, <2>1
<1>15. i <= at
  <2> SUFFICES ASSUME at < i PROVE FALSE
    BY <1>4
  <2>1. i # at + 1
    BY <1>11
  <2>2. at + 1 \in g+1..i-1
    BY <1>4, <1>5, <1>14, <2>1
  <2> QED BY <1>12, <2>2
<1>16. i \in b+1..at
  BY <1>4, <1>12, <1>14, <1>15
<1>17. PICK j \in 1..Len(init1b) : init1b[j] = make_func_value(StaticName(text[g].name, text[i]))
  BY <1>2, <1>11, <1>16 DEF MethodsWritten
<1> QED BY <1>11, <1>17

(* The static name of a declaration of a method or constructor.             *)
LEMMA StaticNames ==
  ASSUME SInv, TextInv(text, Known, class_info), NEW i \in 1..Len(text),
         text[i].kind \in {"method", "constructor"}
  PROVE  /\ StaticName(ClassAt(i), text[i]) \in FuncInfos
         /\ \A h \in 1..Len(text) : Inside(text, h, i) => ClassAt(i) = text[h].name
<1>0. text \in Seq(Items) /\ text[i] \in Items
  <2>1. text \in Seq(Items)
    BY DEF TextInv
  <2> QED BY <2>1
<1>1. PICK g \in 1..Len(text) : Inside(text, g, i)
  BY DEF TextInv
<1>2. \A h \in 1..Len(text) : Inside(text, h, i) => ClassAt(i) = text[h].name
  BY <1>0, ClassAtInside
<1>3. ClassAt(i) \in Classes
  <2>1. text[g].name \in Known
    BY <1>1 DEF Inside, TextInv
  <2> QED BY <1>1, <1>2, <2>1 DEF SInv, Tables
<1>4. CASE text[i].kind = "method"
  <2>1. text[i].name \in MethodNames
    BY <1>0, <1>4 DEF Items
  <2>2. MethodName(text[i].name, text[i].type) \in MethodNames
    BY <2>1 DEF MethodName, MethodNames
  <2>3. StaticName(ClassAt(i), text[i]) = <<ClassAt(i), MethodName(text[i].name, text[i].type)>>
    BY <1>4 DEF StaticName
  <2> QED BY <1>2, <1>3, <2>2, <2>3 DEF FuncInfos
<1>5. CASE text[i].kind = "constructor"
  <2>1. text[i].name \in MethodNames
    BY <1>0, <1>5 DEF Items
  <2>2. StaticName(ClassAt(i), text[i]) = <<ClassAt(i), text[i].name>>
    BY <1>5 DEF StaticName
  <2> QED BY <1>2, <1>3, <2>1, <2>2 DEF FuncInfos
<1> QED BY <1>4, <1>5

LEMMA WrittenO ==
  ASSUME SInv, OInv, pc = "process", at < Len(text), at' = at + 1,
         UNCHANGED <<pc, text, class_info, classes>>, NEW b \in 0..at, Started(b),
         CacheInv(init2'), init1b' \in Seq(Writes),
         MethodsWritten(text, b, at + 1, init1b'),
         LinksWritten(text, classes, b, at + 1, init2'),
         Ordered => UsesDeclared(init1b')
  PROVE  OInv'
<1>1. Known' = Known
  BY DEF Known
<1>2. /\ (Ordered' => Ordered) /\ FromFile' = FromFile /\ \A c : HeaderOf(c)' = HeaderOf(c)
  BY <1>1, OrderKept
<1>3. /\ TextInv(text, Known, class_info) /\ MethodsDeclared /\ MethodsBefore
      /\ class_info = NoName
  BY DEF OInv
<1>4. TextInv(text, Known, class_info)' /\ MethodsDeclared' /\ MethodsBefore'
  BY <1>1, <1>2, <1>3 DEF MethodsDeclared, MethodsBefore
<1>5. Len(text) \in Nat /\ at \in Nat /\ b \in Nat /\ b \in 0..at'
  <2>1. Len(text) \in Nat /\ at \in b..Len(text) /\ b \in 0..Len(text)
    BY <1>3 DEF TextInv, Started, Loaded
  <2> QED BY <2>1
<1>6. Started(b)'
  <2>1. Loaded(b)'
    BY <1>2 DEF Started, Loaded
  <2>2. at' \in b..Len(text')
    BY <1>5
  <2>3. MethodsWritten(text', b, at', init1b') /\ LinksWritten(text', classes', b, at', init2')
    OBVIOUS
  <2> QED BY <2>1, <2>2, <2>3 DEF Started
<1>7. (CacheInv(init2))' /\ (init1b \in Seq(Writes))' /\ (Ordered => UsesDeclared(init1b))'
  BY <1>2
<1> QED BY <1>3, <1>4, <1>5, <1>6, <1>7 DEF OInv

LEMMA ProcessO ==
  ASSUME SInv, OInv, Process
  PROVE  OInv'
<1>1. /\ pc = "process" /\ at < Len(text) /\ at' = at + 1
      /\ UNCHANGED <<pc, text, class_info, classes>>
  BY DEF Process, tables
<1>2. /\ TextInv(text, Known, class_info) /\ CacheInv(init2) /\ init1b \in Seq(Writes)
      /\ (Ordered => UsesDeclared(init1b)) /\ text \in Seq(Items)
  BY <1>1 DEF OInv, TextInv
<1>3. PICK b \in 0..at : Started(b)
  BY <1>1 DEF OInv
<1>4. /\ MethodsWritten(text, b, at, init1b) /\ LinksWritten(text, classes, b, at, init2)
      /\ at \in Nat /\ b \in Nat /\ Len(text) \in Nat
  <2>1. b \in 0..Len(text) /\ at \in b..Len(text) /\ Len(text) \in Nat
    BY <1>2, <1>3 DEF Started, Loaded
  <2> QED BY <1>3, <2>1 DEF Started
<1>5. PICK i : i = at + 1
  OBVIOUS
<1>6. i \in 1..Len(text) /\ text[i] \in Items
  BY <1>1, <1>2, <1>4, <1>5
<1>7. Longer(init2, init2) /\ Longer(init1b, init1b) /\ Len(init1b) \in Nat /\ Len(init2) \in Nat
  BY <1>2 DEF Longer, CacheInv
<1>8. ASSUME text[i].kind # "end", init2' = init2
      PROVE  LinksWritten(text, classes, b, at + 1, init2') /\ CacheInv(init2')
  BY <1>2, <1>4, <1>5, <1>7, <1>8, LinksGrow
<1>9. ASSUME text[i].kind \in {"function", "method", "constructor"}, NEW f \in FuncInfos,
             init2' = init2, init1b' = Append(init1b, make_func_value(f)),
             text[i].kind = "method" => f = StaticName(ClassAt(i), text[i])
      PROVE  OInv'
  <2>1. PICK w : w = make_func_value(f)
    OBVIOUS
  <2>2. w \in Writes /\ w.op = "declare"
    BY <2>1 DEF make_func_value, Writes
  <2>3. PICK u : u = init1b'
    OBVIOUS
  <2>4. /\ u \in Seq(Writes) /\ Longer(init1b, u) /\ Len(u) \in Nat
        /\ Len(u) \in 1..Len(u) /\ u[Len(u)] = w
    BY <1>2, <1>9, <2>1, <2>2, <2>3, WriteAppend
  <2>5. Ordered => UsesDeclared(u)
    BY <1>2, <1>9, <2>1, <2>2, <2>3, UsesGrow
  <2>6. ASSUME text[at + 1].kind = "method", NEW h \in 1..Len(text), Inside(text, h, at + 1)
        PROVE  \E j \in 1..Len(u) : u[j] = make_func_value(StaticName(text[h].name, text[at + 1]))
    <3>1. ClassAt(i) = text[h].name
      BY <1>2, <1>5, <1>6, <2>6, StaticNames
    <3> QED BY <1>5, <1>9, <2>1, <2>4, <2>6, <3>1
  <2>7. MethodsWritten(text, b, at + 1, u)
    BY <1>4, <1>7, <2>4, <2>6, MethodsGrow
  <2>8. LinksWritten(text, classes, b, at + 1, init2') /\ CacheInv(init2')
    BY <1>8, <1>9
  <2> QED BY <1>1, <1>3, <2>3, <2>4, <2>5, <2>7, <2>8, WrittenO
<1>10. CASE /\ text[i].kind = "function" /\ UNCHANGED init2
            /\ init1b' = Append(init1b, make_func_value(text[i].name))
  <2>1. text[i].name \in FuncInfos
    BY <1>6, <1>10 DEF Items
  <2> QED BY <1>9, <1>10, <2>1
<1>11. CASE /\ text[i].kind \in {"method", "constructor"} /\ UNCHANGED init2
            /\ init1b' = Append(init1b, make_func_value(StaticName(ClassAt(i), text[i])))
  <2>1. StaticName(ClassAt(i), text[i]) \in FuncInfos
    BY <1>2, <1>6, <1>11, StaticNames
  <2> QED BY <1>9, <1>11, <2>1
<1>12. CASE /\ text[i].kind \in {"class", "property", "ccode", "var", "typ"}
            /\ UNCHANGED <<init1b, init2>>
  <2>1. LinksWritten(text, classes, b, at + 1, init2') /\ CacheInv(init2')
    BY <1>8, <1>12
  <2>2. MethodsWritten(text, b, at + 1, init1b')
    BY <1>4, <1>5, <1>7, <1>12, MethodsGrow
  <2> QED BY <1>1, <1>2, <1>3, <1>12, <2>1, <2>2, WrittenO
<1>13. CASE /\ text[i].kind = "end"
            /\ init1b' = Append(init1b, new_methods(ClassAt(i)))
            /\ init2' = IF classes[ClassAt(i)].parent = NoName THEN init2
                        ELSE Linked(init2, ClassAt(i), classes[ClassAt(i)].parent)
  <2>0. PICK g \in 1..Len(text) : Inside(text, g, i)
    BY <1>2, <1>6, <1>13 DEF TextInv
  <2>1. PICK c : c = text[g].name
    OBVIOUS
  <2>2. \A h \in 1..Len(text) : Inside(text, h, i) => text[h].name = c
    BY <1>2, <1>6, <1>13, <2>0, <2>1, ClassAtInside
  <2>3. ClassAt(i) = c
    BY <1>2, <1>6, <1>13, <2>0, <2>1, ClassAtInside
  <2>4. c \in Known /\ c \in Classes /\ Whole(classes[c])
    <3>1. c \in Known
      BY <1>2, <2>0, <2>1 DEF TextInv, Inside
    <3> QED BY <3>1 DEF SInv, Tables
  <2>5. classes[c].methods \in SUBSET FuncInfos /\ classes[c].parent \in Classes \union {NoName}
    BY <2>4 DEF Whole, ClassInfos
  <2>6. PICK w : w = new_methods(c)
    OBVIOUS
  <2>7. w \in Writes /\ w.op = "use" /\ w.funcs = classes[c].methods
    BY <2>5, <2>6 DEF new_methods, Writes
  <2>8. PICK u : u = init1b'
    OBVIOUS
  <2>9. u = Append(init1b, w)
    BY <1>13, <2>3, <2>6, <2>8
  <2>10. u \in Seq(Writes) /\ Longer(init1b, u) /\ Len(u) \in Nat
    BY <1>2, <2>7, <2>9, WriteAppend
  <2>11. ASSUME Ordered PROVE UsesDeclared(u)
    <3>1. \A f \in w.funcs : \E j \in 1..Len(init1b) : init1b[j] = make_func_value(f)
      BY <1>1, <1>3, <1>5, <1>13, <2>0, <2>1, <2>7, <2>11, EndUses
    <3> QED BY <1>2, <2>7, <2>9, <2>11, <3>1, UsesGrow
  <2>12. MethodsWritten(text, b, at + 1, u)
    BY <1>4, <1>5, <1>7, <1>13, <2>10, MethodsGrow
  <2>13. PICK v : v = init2'
    OBVIOUS
  <2>14. /\ CacheInv(v) /\ Longer(init2, v)
         /\ classes[c].parent # NoName =>
              \E k \in 1..Len(v) : v[k] = <<"link", c, classes[c].parent>>
    <3>1. CASE classes[c].parent = NoName
      BY <1>2, <1>7, <1>13, <2>3, <2>13, <3>1
    <3>2. CASE classes[c].parent # NoName
      <4>0. PICK q : q = classes[c].parent
        OBVIOUS
      <4>1. v = Linked(init2, c, q) /\ q \in Classes
        BY <1>13, <2>3, <2>5, <2>13, <3>2, <4>0
      <4>2. /\ CacheInv(v) /\ Longer(init2, v)
            /\ \E k \in 1..Len(v) : v[k] = <<"link", c, q>>
        BY ZenonT(60), <1>2, <2>4, <4>1, LinkedKeeps
      <4> QED BY <4>0, <4>2
    <3> QED BY <3>1, <3>2
  <2>15. LinksWritten(text, classes, b, at + 1, v)
    <3>1. Len(v) \in Nat
      BY <2>14 DEF CacheInv
    <3>2. \A h \in 1..Len(text) :
           Inside(text, h, at + 1) /\ classes[text[h].name].parent # NoName =>
             \E k \in 1..Len(v) : v[k] = <<"link", text[h].name, classes[text[h].name].parent>>
      BY <1>5, <2>2, <2>14
    <3> QED BY <1>4, <1>7, <2>14, <3>1, <3>2, LinksGrow
  <2> QED BY <1>1, <1>3, <2>8, <2>10, <2>11, <2>12, <2>13, <2>14, <2>15, WrittenO
<1> QED BY <1>5, <1>10, <1>11, <1>12, <1>13 DEF Process

LEMMA OInvInit == Init => OInv
<1> SUFFICES ASSUME Init PROVE OInv
  OBVIOUS
<1>1. /\ pc = "absorb" /\ text = <<>> /\ class_info = NoName /\ Known = {} /\ at = 0
      /\ init1b = <<>> /\ init2 = <<>>
  BY DEF Init, Known
<1>2. Len(text) = 0 /\ text \in Seq(Items) /\ 1..0 = {}
  BY <1>1
<1>3. TextInv(text, Known, class_info)
  BY <1>1, <1>2 DEF TextInv
<1>4. FromFile = {}
  BY <1>2 DEF FromFile
<1>5. Loaded(at)
  BY <1>1, <1>2, <1>4 DEF Loaded
<1>6. CacheInv(init2) /\ init1b \in Seq(Writes)
  BY <1>1 DEF CacheInv
<1>7. MethodsDeclared /\ OwnMethods
  BY <1>1 DEF MethodsDeclared, OwnMethods
<1> QED BY <1>1, <1>3, <1>5, <1>6, <1>7 DEF OInv

(* What none of these variables changes in.                                 *)
LEMMA SameO ==
  ASSUME OInv, UNCHANGED <<text, class_info, classes, at, init1b, init2>>,
         pc' = pc \/ (pc = "process" /\ pc' = "done" /\ at = Len(text))
  PROVE  OInv'
<1>1. Known' = Known
  BY DEF Known
<1>2. /\ (Ordered' => Ordered) /\ FromFile' = FromFile /\ \A c : HeaderOf(c)' = HeaderOf(c)
  BY <1>1, OrderKept
<1>3. /\ TextInv(text, Known, class_info) => TextInv(text, Known, class_info)'
      /\ MethodsDeclared => MethodsDeclared'
      /\ MethodsBefore => MethodsBefore'
      /\ OwnMethods => OwnMethods'
      /\ Loaded(at) => Loaded(at)'
      /\ \A b : Started(b) => Started(b)'
  BY <1>1, <1>2 DEF MethodsDeclared, MethodsBefore, OwnMethods, Loaded, Started
<1>4. (\E b \in 0..at : Started(b)) => (\E b \in 0..at : Started(b))'
  BY <1>3
<1> QED BY <1>2, <1>3, <1>4 DEF OInv

LEMMA OInvNext == SInv /\ OInv /\ [Next]_vars => OInv'
<1> SUFFICES ASSUME SInv, OInv, [Next]_vars PROVE OInv'
  OBVIOUS
<1>1. CASE Processed \/ UNCHANGED vars
  BY <1>1, SameO DEF Processed, vars, tables
<1> QED BY <1>1, AbsorbSomeO, FileO, StartO, TraceO, ProcessO DEF Next

(* Every value that the start-up code gives a class as a method is declared *)
(* before, if parents and mixins come first; every class is cached once     *)
(* before it is linked, and linked before the globals are assigned.         *)
THEOREM StartupOrderCorrect == Spec => []StartupOrder
<1>1. SInv /\ OInv => StartupOrder
  <2> SUFFICES ASSUME SInv, OInv PROVE StartupOrder
    OBVIOUS
  <2>1. DeclaredFirst
    BY DEF OInv, DeclaredFirst, UsesDeclared
  <2>2. ASSUME NEW k \in 1..Len(init2), NEW c, Cached(init2, c, k)
        PROVE  Cardinality({j \in 1..k-1 : init2[j] = <<"cache", c, NoName>>}) = 1
    <3>0. CacheInv(init2) /\ Len(init2) \in Nat
      BY DEF OInv, CacheInv
    <3>1. PICK j \in 1..k-1 : init2[j] = <<"cache", c, NoName>>
      BY <2>2 DEF Cached
    <3>2. ASSUME NEW i \in 1..k-1, init2[i] = <<"cache", c, NoName>>
          PROVE  i = j
      <4>1. i \in 1..Len(init2) /\ j \in 1..Len(init2)
        BY <3>0
      <4>2. init2[i] = init2[j] /\ init2[i][1] = "cache"
        BY <3>1, <3>2
      <4> QED BY <3>0, <4>1, <4>2 DEF CacheInv
    <3>3. {i \in 1..k-1 : init2[i] = <<"cache", c, NoName>>} = {j}
      BY <3>1, <3>2
    <3> QED BY <3>3, FS_Singleton
  <2>3. ASSUME NEW k \in 1..Len(init2), init2[k][1] = "link", NEW c \in {init2[k][2], init2[k][3]}
        PROVE  Cardinality({j \in 1..k-1 : init2[j] = <<"cache", c, NoName>>}) = 1
    <3>1. Cached(init2, c, k)
      BY <2>3 DEF OInv, CacheInv
    <3> QED BY <2>2, <3>1
  <2>4. ASSUME pc = "done", NEW c \in Known, classes[c].parent # NoName,
               HeaderOf(c) \notin FromFile
        PROVE  \E k \in 1..Len(init2) : init2[k] = <<"link", c, classes[c].parent>>
    <3>1. /\ TextInv(text, Known, class_info) /\ class_info = NoName /\ at = Len(text)
      BY <2>4 DEF OInv
    <3>2. PICK b \in 0..at : Started(b)
      BY <2>4 DEF OInv
    <3>3. PICK h : h = HeaderOf(c)
      OBVIOUS
    <3>4. /\ h \in 1..Len(text) /\ Len(text) \in Nat
          /\ text[h].kind = "class" /\ text[h].name = c
      BY <3>1, <3>3, HeaderFacts
    <3>5. c # NoName
      BY NamesAssumption DEF SInv, Tables
    <3>6. Ended(text, h)
      BY <3>1, <3>4, <3>5 DEF TextInv
    <3>7. PICK e \in 1..Len(text) : text[e].kind = "end" /\ Inside(text, h, e)
      BY <3>6 DEF Ended
    <3>8. FromFile = 1..b /\ b \in 0..Len(text) /\ LinksWritten(text, classes, b, at, init2)
      BY <3>2 DEF Started, Loaded
    <3>9. h < e
      BY <3>7 DEF Inside
    <3>10. e \in b+1..at
      <4>1. h \notin 1..b
        BY <2>4, <3>3, <3>8
      <4> QED BY <3>1, <3>4, <3>8, <3>9, <4>1
    <3> QED BY <2>4, <3>4, <3>7, <3>8, <3>10 DEF LinksWritten
  <2>5. LinkedAfterCached
    BY <2>3, <2>4 DEF LinkedAfterCached
  <2> QED BY <2>1, <2>5 DEF StartupOrder
<1>2. Spec => []OInv
  BY OInvInit, OInvNext, StructureInvariance, PTL DEF Spec
<1> QED BY <1>1, <1>2, StructureInvariance, PTL
=============================================================================
