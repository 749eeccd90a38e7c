----------------------------- MODULE Structure ------------------------------
(***************************************************************************)
(* The compiler's tables of classes, functions and globals: how the        *)
(* declarations of a program fill them (lang/aster.c, lang/stran.c), how   *)
(* classes inherit (lang/genist.c), and what is then written to the        *)
(* start-up code (lang/proc.c, lang/cache.c).  bootstrap() in ripe/ripe.c  *)
(* runs these steps over all files in this order.  With separate           *)
(* compilation (riperipe/main.rip) a first compiler writes the tables of   *)
(* its files to a .typ file, from which a second one reads them.           *)
(*                                                                         *)
(* The program is chosen declaration by declaration.  Names are full names *)
(* (the prefix of the namespaces included), and a static name such as      *)
(* "Class.method" is a pair.  The order in which a Dict is iterated, which *)
(* its hashes determine, is any order.                                     *)
(***************************************************************************)
EXTENDS Naturals, Sequences, FiniteSets

CONSTANTS
  Classes,     \* names of classes, and of namespaces
  Members,     \* names of methods, properties, functions, variables
  NoName,      \* NULL, and the parent "" of a class without one
  MaxItems,    \* bound: declarations in a program
  MaxMembers,  \* bound: those of them that are not class headers or ends
  MaxKin       \* bound: parents and mixins named in the program

ASSUME NamesAssumption == NoName \notin Classes

VARIABLES
  pc,          \* absorb, trace, process, done; fatal: fatal_throw(), exit(1);
               \* crash: a NULL pointer is dereferenced
  text,        \* the program so far: a sequence of declarations
  class_info,  \* the class being absorbed, NULL outside of one
  classes,     \* the table classes: name -> ClassInfo
  functions,   \* the static names in the table functions
  named,       \* those of them whose FuncInfo has its ripe_name
  globals,
  todo,        \* genist_run(): the classes its iterator has not met
  path,        \* the active calls of genist_run_r(), outermost first
  msgs,        \* fatal_stack
  at,          \* proc_process_ast(): how much of text it has processed
  init1b,      \* what is written to the phases of the start-up code
  init2

tables == <<classes, functions, named, globals>>
vars == <<pc, text, class_info, classes, functions, named, globals, todo, path,
          msgs, at, init1b, init2>>

ClassTypes    == {"VIRTUAL", "FIELD", "CDATA"}
Markers       == {"UNVISITED", "VISITING", "VISITED"}

(* A method's name is its prefix and its name: a virtual getter of x is the *)
(* method get_x, which a plain method may be called too.                    *)
MethodNames == {"", "get_", "set_"} \X Members

MethodName(name, type) ==
  IF type = "VIRTUAL_GET" THEN <<"get_", name[2]>>
  ELSE IF type = "VIRTUAL_SET" THEN <<"set_", name[2]>>
  ELSE name

(* A FuncInfo is its static name: the class and the name of the method.     *)
(* named tells which of them have it in their field ripe_name, too.         *)
FuncInfos == Classes \X MethodNames

ClassInfos ==
  [type      : ClassTypes,
   parent    : Classes \union {NoName},
   mixins    : Seq(Classes),
   methods   : SUBSET FuncInfos,
   vg        : SUBSET FuncInfos,      \* vg_methods, vs_methods
   vs        : SUBSET FuncInfos,
   props     : SUBSET Members,
   num_props : Nat,
   marker    : Markers]

(* class_info_new() and the rest of absorb_class_enter().                   *)
NewClass(parent, mixins) ==
  [type |-> "VIRTUAL", parent |-> parent, mixins |-> mixins,
   methods |-> {}, vg |-> {}, vs |-> {}, props |-> {}, num_props |-> 0,
   marker |-> "UNVISITED"]

NamesOf(methods) == {f[2] : f \in methods}

Known == DOMAIN classes

-----------------------------------------------------------------------------
(* fatal_throw(): the messages pushed so far are printed; exit(1).          *)
Fatal ==
  /\ pc' = "fatal"
  /\ UNCHANGED <<text, class_info, tables, todo, path, msgs, at, init1b, init2>>

Later == UNCHANGED <<todo, path, at, init1b, init2>>

KindOf(item) == item.kind
Header(c, p, ms) == [kind |-> "class", name |-> c, parent |-> p, mixins |-> ms]
End              == [kind |-> "end"]
Method(m, t)     == [kind |-> "method", name |-> m, type |-> t]
Constructor(m)   == [kind |-> "constructor", name |-> m]
Property(x)      == [kind |-> "property", name |-> x]
CCode            == [kind |-> "ccode"]
Function(s, m)   == [kind |-> "function", name |-> <<s, m>>]
Var(x)           == [kind |-> "var", name |-> x]
Typ(omit)        == [kind |-> "typ", omit |-> omit]

(* Bounds.                                                                  *)
Count(kinds) == Cardinality({i \in 1..Len(text) : text[i].kind \in kinds})

Kin ==
  LET n(i) == IF text[i].kind # "class" THEN {}
              ELSE {<<i, 0>> : p \in {text[i].parent} \ {NoName}}
                   \union {<<i, j>> : j \in 1..Len(text[i].mixins)}
  IN  Cardinality(UNION {n(i) : i \in 1..Len(text)})

RoomFor(item) ==
  /\ Len(text) + (IF class_info # NoName THEN 1 ELSE 0) < MaxItems
  /\ KindOf(item) \notin {"class", "typ"} => Count({"method", "constructor", "property",
                                      "ccode", "function", "var"}) < MaxMembers

(* Annotations of a method, and whether they are all allowed.               *)
Annotations == {"constructor", "virtual_get", "virtual_set", "other"}

annot_check(annots, allowed) == annots \subseteq allowed

(* What the annotations make of a method.                                   *)
TypeOf(annots) ==
  IF "virtual_set" \in annots THEN "VIRTUAL_SET"
  ELSE IF "virtual_get" \in annots THEN "VIRTUAL_GET"
  ELSE IF "constructor" \in annots THEN "CONSTRUCTOR"
  ELSE "METHOD"

(* Only the last parameter may be an array; params tells which ones are.    *)
bad_params(params) == \E i \in 1..Len(params) - 1 : params[i]

Absorb(item) ==
  /\ pc = "absorb"
  /\ RoomFor(item)
  /\ text' = Append(text, item)
  /\ UNCHANGED <<pc, msgs>> /\ Later

FatalIn(item) == pc = "absorb" /\ RoomFor(item) /\ Fatal

-----------------------------------------------------------------------------
(***************************************************************************)
(* stran_absorb_ast().  Classes are not nested (lang/parser.y).            *)
(***************************************************************************)
absorb_class_enter(c, p, ms) ==
  /\ class_info = NoName
  /\ IF c \in Known
     THEN FatalIn(Header(c, p, ms))
     ELSE /\ Absorb(Header(c, p, ms))
          /\ class_info' = c
          /\ classes' = [d \in Known \union {c} |->
                           IF d = c THEN NewClass(p, ms) ELSE classes[d]]
          /\ UNCHANGED <<functions, named, globals>>

absorb_class_exit ==
  /\ pc = "absorb" /\ class_info # NoName
  /\ text' = Append(text, End)
  /\ class_info' = NoName
  /\ UNCHANGED <<pc, tables, msgs>> /\ Later

(* stran_add_class_method() to the table of class c, with class_info as it  *)
(* is: virtual methods are entered there, not in c.  Answers the new table. *)
WithMethod(cs, c, ci, f, type) ==
  LET added == [cs EXCEPT ![c].methods = @ \union {f}]
  IN  IF type = "VIRTUAL_GET" THEN [added EXCEPT ![ci].vg = @ \union {f}]
      ELSE IF type = "VIRTUAL_SET" THEN [added EXCEPT ![ci].vs = @ \union {f}]
      ELSE added

absorb_method(name, type) ==
  LET c == class_info
      m == MethodName(name, type)
  IN  /\ c # NoName
      /\ IF m \in NamesOf(classes[c].methods) \/ <<c, m>> \in functions
         THEN FatalIn(Method(name, type))
         ELSE /\ Absorb(Method(name, type))
              /\ classes' = WithMethod(classes, c, class_info, <<c, m>>, type)
              /\ functions' = functions \union {<<c, m>>}
              /\ named' = named \union {<<c, m>>}
              /\ UNCHANGED <<class_info, globals>>

absorb_constructor(name) ==
  LET c == class_info
  IN  /\ c # NoName
      /\ IF <<c, name>> \in functions
         THEN FatalIn(Constructor(name))
         ELSE /\ Absorb(Constructor(name))
              /\ functions' = functions \union {<<c, name>>}
              /\ named' = named \union {<<c, name>>}
              /\ UNCHANGED <<class_info, classes, globals>>

absorb_property(x) ==
  LET c == class_info
  IN  /\ c # NoName
      /\ IF classes[c].type = "CDATA" \/ x \in classes[c].props
         THEN FatalIn(Property(x))
         ELSE /\ Absorb(Property(x))
              /\ classes' = [classes EXCEPT ![c].type = "FIELD",
                                            ![c].props = @ \union {x},
                                            ![c].num_props = @ + 1]
              /\ UNCHANGED <<class_info, functions, named, globals>>

(* C code outside of a class only goes to the header.                       *)
absorb_ccode ==
  LET c == class_info
  IN  IF c # NoName /\ classes[c].type = "FIELD"
      THEN FatalIn(CCode)
      ELSE /\ Absorb(CCode)
           /\ classes' = IF c = NoName THEN classes
                         ELSE [classes EXCEPT ![c].type = "CDATA"]
           /\ UNCHANGED <<class_info, functions, named, globals>>

(* A function in namespace s, which may be called as a class is.            *)
absorb_function(s, name) ==
  /\ class_info = NoName
  /\ IF <<s, name>> \in functions
     THEN FatalIn(Function(s, name))
     ELSE /\ Absorb(Function(s, name))
          /\ functions' = functions \union {<<s, name>>}
          /\ named' = named \union {<<s, name>>}
          /\ UNCHANGED <<class_info, classes, globals>>

absorb_var(x) ==
  /\ class_info = NoName
  /\ IF x \in globals
     THEN FatalIn(Var(x))
     ELSE /\ Absorb(Var(x))
          /\ globals' = globals \union {x}
          /\ UNCHANGED <<class_info, classes, functions, named>>

-----------------------------------------------------------------------------
(***************************************************************************)
(* The .typ file.  What was absorbed so far is what "ripe -t" was given;   *)
(* the compiler that goes on from here has read its .typ file.  It either  *)
(* compiles the same files, with --omit-typing and nothing more to absorb, *)
(* or others that use them.                                                *)
(***************************************************************************)
Omitted == text # <<>> /\ text[Len(text)] = Typ(TRUE)

(* The buckets of the Dict mixins: setting a key again adds two (Dict).     *)
Buckets(ms) == Len(ms) + Cardinality({j \in 2..Len(ms) : ms[j] = ms[1]})

(* stran_dump_to_file() writes the size of each Dict before its elements,   *)
(* and stran_absorb_file() reads as many; dump_methods() writes the         *)
(* ripe_name of a method, "" for NULL, and absorb_methods() looks it up     *)
(* among the functions.  What does not fit ends in fatal_throw().  Names    *)
(* are shorter than BUFSIZE (clib/util.c).                                  *)
Unreadable ==
  \E c \in Known : \/ Buckets(classes[c].mixins) # Len(classes[c].mixins)
                  \/ ~(classes[c].methods \subseteq functions \intersect named)

(* Mutant: the writer of a property is not read back.                       *)
ReadNoSetters(ci) ==
  [NewClass(ci.parent, ci.mixins) EXCEPT
     !.type = ci.type, !.methods = ci.methods, !.vg = ci.vg,
     !.props = ci.props, !.num_props = Cardinality(ci.props)]

(* The ClassInfo that is made of what was written of one.  The positions in *)
(* the Dict mixins are counted anew, which nothing looks at.                *)
Read(ci) ==
  [NewClass(ci.parent, ci.mixins) EXCEPT
     !.type = ci.type, !.methods = ci.methods, !.vg = ci.vg, !.vs = ci.vs,
     !.props = ci.props, !.num_props = Cardinality(ci.props)]

(* The functions that are read have everything but their ripe_name, which   *)
(* is neither written nor set, and so NULL.  "ripe -t" only reads .rip      *)
(* files (riperipe/main.rip), so that no tables are written after this.     *)
stran_absorb_file(omit) ==
  /\ pc = "absorb" /\ class_info = NoName
  /\ Count({"typ"}) = 0 /\ text # <<>>
  /\ IF Unreadable THEN FatalIn(Typ(omit))
     ELSE /\ RoomFor(Typ(omit))
          /\ text' = Append(text, Typ(omit))
          /\ classes' = [c \in Known |-> Read(classes[c])]
          /\ at' = IF omit THEN 0 ELSE Len(text) + 1
          /\ named' = {}
          /\ UNCHANGED <<pc, class_info, functions, globals, todo, path, msgs,
                         init1b, init2>>

-----------------------------------------------------------------------------
(***************************************************************************)
(* genist_run().  A call of genist_run_r() is the class it traces, the     *)
(* mixins it has yet to add, and whether its parent has been traced.       *)
(***************************************************************************)
Call(c) == [class |-> c, left |-> classes[c].mixins, called |-> FALSE]

Top == path[Len(path)]

Pop(s) == SubSeq(s, 1, Len(s) - 1)

(* A sequence without its j-th element.                                     *)
Without(s, j) == SubSeq(s, 1, j - 1) \o SubSeq(s, j + 1, Len(s))

Marked(cs, c, marker) == [cs EXCEPT ![c].marker = marker]

genist_start ==
  /\ pc = "absorb" /\ class_info = NoName
  /\ pc' = "trace"
  /\ todo' = Known
  /\ msgs' = <<"genealogy">>
  /\ UNCHANGED <<text, class_info, tables, path, at, init1b, init2>>

(* Mutant: a class that is being traced counts as traced.                   *)
genist_run_rLoops(c, calls) ==
  \/ /\ c \in Known /\ classes[c].marker = "UNVISITED"
     /\ classes' = Marked(classes, c, "VISITING")
     /\ path' = Append(calls, Call(c))
     /\ msgs' = Append(msgs, c)
     /\ UNCHANGED pc
  \/ /\ c \in Known /\ classes[c].marker # "UNVISITED"
     /\ path' = calls
     /\ UNCHANGED <<pc, classes, msgs>>
  \/ /\ c \notin Known
     /\ pc' = "fatal"
     /\ UNCHANGED <<classes, path, msgs>>

(* Mutant: a class that is traced is traced again.                          *)
genist_run_rAgain(c, calls) ==
  \/ /\ c \in Known /\ classes[c].marker # "VISITING"
     /\ classes' = Marked(classes, c, "VISITING")
     /\ path' = Append(calls, Call(c))
     /\ msgs' = Append(msgs, c)
     /\ UNCHANGED pc
  \/ /\ c \in Known => classes[c].marker = "VISITING"
     /\ pc' = "fatal"
     /\ UNCHANGED <<classes, path, msgs>>

(* The beginning of genist_run_r(), called when the active calls are these. *)
(* A class that is traced returns at once.                                  *)
genist_run_r(c, calls) ==
  \/ /\ c \in Known /\ classes[c].marker = "UNVISITED"
     /\ classes' = Marked(classes, c, "VISITING")
     /\ path' = Append(calls, Call(c))
     /\ msgs' = Append(msgs, c)
     /\ UNCHANGED pc
  \/ /\ c \in Known /\ classes[c].marker = "VISITED"
     /\ path' = calls
     /\ UNCHANGED <<pc, classes, msgs>>
  \/ /\ c \in Known => classes[c].marker = "VISITING"
     /\ pc' = "fatal"
     /\ UNCHANGED <<classes, path, msgs>>

(* The loop of genist_run() meets class c.                                  *)
TraceNext(c) ==
  /\ pc = "trace" /\ path = <<>> /\ c \in todo
  /\ todo' = todo \ {c}
  /\ genist_run_r(c, path)
  /\ UNCHANGED <<text, class_info, functions, named, globals, at, init1b, init2>>

(* Mutant: only properties are checked.                                     *)
RefusedProps(ci, cp, is_mixin) ==
  \/ is_mixin /\ cp.type # "VIRTUAL"
  \/ cp.type = "CDATA"
  \/ ci.type = "CDATA" /\ cp.type # "VIRTUAL"
  \/ cp.type = "FIELD" /\ ci.props \intersect cp.props # {}

(* What add_parent() refuses: a kind of class that cannot be inherited, a   *)
(* property or a method that is there already ...                           *)
Refused(ci, cp, is_mixin) ==
  \/ is_mixin /\ cp.type # "VIRTUAL"
  \/ cp.type = "CDATA"
  \/ ci.type = "CDATA" /\ cp.type # "VIRTUAL"
  \/ cp.type = "FIELD" /\ ci.props \intersect cp.props # {}
  \/ NamesOf(ci.methods) \intersect NamesOf(cp.methods) # {}

(* Mutant: virtual methods are looked for among the virtual ones.           *)
RefusedVirtualOnly(ci, cp) ==
  \E f \in cp.vg \union cp.vs : f[2] \in NamesOf(ci.vg \union ci.vs)

(* ... or a virtual method, whose name is among the methods just copied.    *)
RefusedVirtual(ci, cp) ==
  \E f \in cp.vg \union cp.vs : f[2] \in NamesOf(ci.methods \union cp.methods)

(* What the child becomes.                                                  *)
Inherit(ci, cp) ==
  [ci EXCEPT
     !.type      = IF @ = "VIRTUAL" /\ cp.type = "FIELD" THEN "FIELD" ELSE @,
     !.props     = IF cp.type = "FIELD" THEN @ \union cp.props ELSE @,
     !.num_props = IF cp.type = "FIELD" THEN @ + Cardinality(cp.props) ELSE @,
     !.methods   = @ \union cp.methods]

(* add_parent(c, p, is_mixin).  Whether virtual methods are left to add     *)
(* after that matters: class_info is NULL now.                              *)
AddFails(c, p, is_mixin) ==
  p \notin Known \/ Refused(classes[c], classes[p], is_mixin)
                 \/ RefusedVirtual(classes[c], classes[p])

AddCrashes(p) == classes[p].vg \union classes[p].vs # {} /\ class_info = NoName

InTrace == pc = "trace" /\ path # <<>>

TraceOnly ==
  UNCHANGED <<text, class_info, functions, named, globals, todo, at, init1b, init2>>

(* The loop over the mixins, in any order: the j-th of those that are left. *)
AddMixin(j) ==
  LET c == Top.class
      m == Top.left[j]
  IN  /\ InTrace /\ j \in DOMAIN Top.left
      /\ path' = [path EXCEPT ![Len(path)].left = Without(@, j)]
      /\ IF AddFails(c, m, TRUE) THEN pc' = "fatal" /\ UNCHANGED classes
         ELSE IF AddCrashes(m) THEN pc' = "crash" /\ UNCHANGED classes
         ELSE /\ classes' = [classes EXCEPT ![c] = Inherit(@, classes[m])]
              /\ UNCHANGED pc
      /\ UNCHANGED msgs /\ TraceOnly

(* Mutant: the parent is not traced before it is added.                     *)
TraceParentNot ==
  /\ InTrace /\ Top.left = <<>> /\ ~Top.called /\ classes[Top.class].parent # NoName
  /\ path' = [path EXCEPT ![Len(path)].called = TRUE]
  /\ UNCHANGED <<pc, classes, msgs>> /\ TraceOnly

TraceParent ==
  LET p == classes[Top.class].parent
  IN  /\ InTrace /\ Top.left = <<>> /\ ~Top.called /\ p # NoName
      /\ genist_run_r(p, [path EXCEPT ![Len(path)].called = TRUE])
      /\ TraceOnly

(* The end of genist_run_r(), without a parent ...                          *)
TracedRoot ==
  /\ InTrace /\ Top.left = <<>> /\ classes[Top.class].parent = NoName
  /\ classes' = Marked(classes, Top.class, "VISITED")
  /\ path' = Pop(path) /\ msgs' = Pop(msgs)
  /\ UNCHANGED pc /\ TraceOnly

(* ... and with one.                                                        *)
TracedChild ==
  LET c == Top.class
      p == classes[c].parent
  IN  /\ InTrace /\ Top.called
      /\ IF AddFails(c, p, FALSE) \/ AddCrashes(p)
         THEN /\ pc' = IF AddFails(c, p, FALSE) THEN "fatal" ELSE "crash"
              /\ UNCHANGED <<classes, path, msgs>>
         ELSE /\ classes' = Marked([classes EXCEPT ![c] = Inherit(@, classes[p])],
                                   c, "VISITED")
              /\ path' = Pop(path) /\ msgs' = Pop(msgs)
              /\ UNCHANGED pc
      /\ TraceOnly

-----------------------------------------------------------------------------
(***************************************************************************)
(* proc_process_ast(): the declarations again, now for the start-up code.  *)
(***************************************************************************)
genist_end ==
  /\ pc = "trace" /\ path = <<>> /\ todo = {}
  /\ pc' = "process"
  /\ msgs' = <<"processing">>
  /\ UNCHANGED <<text, class_info, tables, todo, path, at, init1b, init2>>

(* aster's class_name at the i-th declaration.                              *)
ClassAt(i) ==
  LET headers == {j \in 1..i : text[j].kind = "class"}
  IN  text[CHOOSE j \in headers : \A k \in headers : k <= j].name

(* The entries of init2 that cache_type() adds for a class.                 *)
Cache(out, c) ==
  IF <<"cache", c, NoName>> \in {out[j] : j \in 1..Len(out)} THEN out
  ELSE Append(out, <<"cache", c, NoName>>)

(* Mutant: the line that links the classes is written before the lines that *)
(* cache them.                                                              *)
LinkedEarly(out, c, p) == Cache(Cache(Append(out, <<"link", c, p>>), c), p)

(* The last lines of proc_class_exit(): the arguments of wr_print() write.  *)
Linked(out, c, p) == Append(Cache(Cache(out, c), p), <<"link", c, p>>)

(* Written to init1b: a function value is declared, or a class gets methods.*)
make_func_value(f)  == [op |-> "declare", funcs |-> {f}]
new_methods(c)      == [op |-> "use", funcs |-> classes[c].methods]

(* The static name of a method or constructor.                              *)
StaticName(c, item) ==
  IF item.kind = "method" THEN <<c, MethodName(item.name, item.type)>>
  ELSE <<c, item.name>>

Process ==
  LET item == text[at + 1]
      c    == ClassAt(at + 1)
  IN  /\ pc = "process" /\ at < Len(text)
      /\ at' = at + 1
      /\ UNCHANGED <<pc, text, class_info, tables, todo, path, msgs>>
      /\ \/ /\ item.kind = "function"
            /\ init1b' = Append(init1b, make_func_value(item.name))
            /\ UNCHANGED init2
         \/ /\ item.kind \in {"method", "constructor"}
            /\ init1b' = Append(init1b, make_func_value(StaticName(c, item)))
            /\ UNCHANGED init2
         \/ /\ item.kind = "end"
            /\ init1b' = Append(init1b, new_methods(c))
            /\ init2' = IF classes[c].parent = NoName THEN init2
                        ELSE Linked(init2, c, classes[c].parent)
         \/ /\ item.kind \in {"class", "property", "ccode", "var", "typ"}
            /\ UNCHANGED <<init1b, init2>>

Processed ==
  /\ pc = "process" /\ at = Len(text)
  /\ pc' = "done"
  /\ msgs' = <<>>
  /\ UNCHANGED <<text, class_info, tables, todo, path, at, init1b, init2>>

-----------------------------------------------------------------------------
Init ==
  /\ pc = "absorb"
  /\ text = <<>> /\ class_info = NoName
  /\ classes = [c \in {} |-> NewClass(NoName, <<>>)]
  /\ functions = {} /\ named = {} /\ globals = {}
  /\ todo = {} /\ path = <<>> /\ msgs = <<"structure">>
  /\ at = 0 /\ init1b = <<>> /\ init2 = <<>>

Kinships ==
  LET mixins == UNION {[1..n -> Classes] : n \in 0..2}
      room   == MaxKin - Kin
  IN  {k \in (Classes \union {NoName}) \X mixins :
         Len(k[2]) + (IF k[1] = NoName THEN 0 ELSE 1) <= room}

Params == {<<>>, <<TRUE, FALSE>>, <<FALSE, TRUE>>}

(* A FUNCTION outside of a class ...                                        *)
AbsorbFunction(s, name, params) ==
  IF bad_params(params) THEN FatalIn(Function(s, name)) ELSE absorb_function(s, name)

(* ... and in one, in aster_process_r().                                    *)
AbsorbMethod(name, params, annots) ==
  /\ name[1] = "get_" => annots = {}    \* bound: only methods are named so
  /\ IF \/ bad_params(params)
        \/ ~annot_check(annots, Annotations \ {"other"})
        \/ Cardinality(annots) > 1
     THEN FatalIn(Method(name, TypeOf(annots)))
     ELSE IF TypeOf(annots) = "CONSTRUCTOR" THEN absorb_constructor(name)
     ELSE absorb_method(name, TypeOf(annots))

(* aster_process_r().                                                       *)
AbsorbSome ==
  /\ pc = "absorb"
  /\ \/ /\ class_info = NoName
        /\ \/ \E c \in Classes, kin \in Kinships : absorb_class_enter(c, kin[1], kin[2])
           \/ \E x \in Members : absorb_var(x)
           \/ \E s \in Classes, x \in Members, params \in Params :
                AbsorbFunction(s, <<"", x>>, params)
     \/ /\ class_info # NoName
        /\ \/ absorb_class_exit
           \/ \E x \in Members : absorb_property(x)
           \/ \E name \in {"", "get_"} \X Members, annots \in SUBSET Annotations,
                 params \in Params : AbsorbMethod(name, params, annots)
     \/ absorb_ccode

Trace ==
  \/ \E c \in Classes : TraceNext(c)
  \/ \E j \in 1..MaxKin : AddMixin(j)
  \/ TraceParent \/ TracedRoot \/ TracedChild \/ genist_end

Next ==
  \/ AbsorbSome /\ ~Omitted
  \/ \E omit \in BOOLEAN : stran_absorb_file(omit)
  \/ genist_start \/ Trace \/ Process \/ Processed

Spec == Init /\ [][Next]_vars

-----------------------------------------------------------------------------
(***************************************************************************)
(* Properties.                                                             *)
(***************************************************************************)
(* A class that is traced has every method and property of its parent, and  *)
(* so of all its ancestors.                                                 *)
InheritsFromParent ==
  \A c \in Known :
    LET ci == classes[c]
    IN  ci.marker = "VISITED" /\ ci.parent # NoName =>
          /\ ci.parent \in Known
          /\ classes[ci.parent].marker = "VISITED"
          /\ classes[ci.parent].methods \subseteq ci.methods
          /\ classes[ci.parent].props \subseteq ci.props

(* A class gets the methods of its mixins too, as long as the mixins do not *)
(* inherit themselves: their genealogy is not traced before they are copied,*)
(* and whether what they inherit is copied depends on the order.            *)
MixesIn ==
  \A c \in Known : classes[c].marker = "VISITED" =>
    \A j \in DOMAIN classes[c].mixins :
      LET n == classes[c].mixins[j]
          m == classes[n]
      IN  /\ n \in Known
          /\ m.parent = NoName /\ m.mixins = <<>> =>
               /\ m.type = "VIRTUAL"
               /\ m.methods \subseteq classes[c].methods

(* What genist_run_r() leaves in a class: all of its parent and its mixins. *)
Inherits == InheritsFromParent /\ MixesIn

(* No method gets into a class in two ways, whatever inherits from what:    *)
(* there is no overriding.  num_props counts the properties, of which only  *)
(* a class of fields has any.                                               *)
OneWay ==
  \A c \in Known :
    LET ci == classes[c]
    IN  /\ ci \in ClassInfos
        /\ \A f, g \in ci.methods : f[2] = g[2] => f = g
        /\ ci.num_props = Cardinality(ci.props)
        /\ ci.type = "FIELD" <=> ci.props # {}

(* The active calls of genist_run_r(), the markers and the messages agree:  *)
(* "This would be a bug" (lang/genist.c), that between two classes of the   *)
(* loop one is left VISITING.  No class is traced while it is being traced, *)
(* so the recursion is no deeper than there are classes, and an error names *)
(* the classes whose tracing led there, each after its child.               *)
PathSimple ==
  pc = "trace" =>
    /\ \A c \in Known : classes[c].marker = "VISITING" <=>
                        \E i \in 1..Len(path) : path[i].class = c
    /\ \A i, j \in 1..Len(path) : path[i].class = path[j].class => i = j
    /\ msgs = <<"genealogy">> \o [i \in 1..Len(path) |-> path[i].class]

(* A program is only processed when every class is traced, and none is its  *)
(* own ancestor: every set of classes has one whose parent is not in it.    *)
NoCycle ==
  pc \in {"process", "done"} =>
    /\ \A c \in Known : classes[c].marker = "VISITED"
    /\ \A S \in SUBSET Known : S # {} => \E c \in S : classes[c].parent \notin S

(* genist_run() meets no class twice on one path and accepts no cycle.      *)
Acyclic == PathSimple /\ NoCycle

(* stran_add_class_method() enters virtual methods into class_info, which   *)
(* is NULL after the programs are absorbed.  It never gets there then.      *)
NoCrash == pc # "crash"

(* The declarations that come from a .typ file and are not compiled here.   *)
FromFile == {j \in 1..Len(text) : text[Len(text)] # Typ(TRUE)
                                   /\ \E i \in j..Len(text) : text[i].kind = "typ"}

HeaderOf(c) == CHOOSE i \in 1..Len(text) : text[i].kind = "class" /\ text[i].name = c

(* Parents and mixins come before their children.                           *)
Ordered ==
  \A c \in Known :
    LET kin == {classes[c].mixins[j] : j \in DOMAIN classes[c].mixins}
                 \union ({classes[c].parent} \ {NoName})
    IN  HeaderOf(c) \in FromFile
          \/ \A p \in kin : HeaderOf(p) < HeaderOf(c) /\ HeaderOf(p) \notin FromFile

(* Every value that the start-up code hands to klass_new_method() has been  *)
(* declared before, if parents and mixins come before their children in the *)
(* program, and not from a .typ file.                                       *)
DeclaredFirst ==
  pc = "done" /\ Ordered =>
    \A k \in 1..Len(init1b) : init1b[k].op = "use" =>
      \A f \in init1b[k].funcs :
        \E j \in 1..k-1 : init1b[j] = make_func_value(f)

(* "This MUST be in INIT2 ... the earliest where Klass* gets cached": both  *)
(* classes are cached, once, when they are linked, and all are linked       *)
(* before the globals are assigned.                                         *)
LinkedAfterCached ==
  /\ \A k \in 1..Len(init2) : init2[k][1] = "link" =>
       \A c \in {init2[k][2], init2[k][3]} :
         Cardinality({j \in 1..k-1 : init2[j] = <<"cache", c, NoName>>}) = 1
  /\ pc = "done" =>
       \A c \in Known : classes[c].parent # NoName /\ HeaderOf(c) \notin FromFile =>
         \E k \in 1..Len(init2) : init2[k] = <<"link", c, classes[c].parent>>

(* The start-up code uses nothing before it is there.                       *)
StartupOrder == DeclaredFirst /\ LinkedAfterCached

(* A compiler that reads the .typ file of some files has the classes, the   *)
(* functions and the globals of one that has absorbed the files themselves. *)
(* Only the field ripe_name of every FuncInfo is lost.  The file itself is  *)
(* the one thing that is made of it, and there is no function without it in *)
(* the tables that are written.                                             *)
TypesSurvive ==
  [][text' # text /\ text'[Len(text')].kind = "typ" =>
       /\ UNCHANGED <<classes, functions, globals>>
       /\ functions \subseteq named]_vars

(* What is left to do of genist_run_r() for class c.                        *)
Work(c) ==
  LET i == CHOOSE i \in 1..Len(path) : path[i].class = c
  IN  IF classes[c].marker = "UNVISITED" THEN Len(classes[c].mixins) + 3
      ELSE IF classes[c].marker = "VISITED" THEN 0
      ELSE Len(path[i].left) + (IF path[i].called THEN 1 ELSE 2)

(* Tracing ends, whatever inherits from what: every step of it takes        *)
(* something off what is left to do, for a class or of the loop over all of *)
(* them, and adds nothing.                                                  *)
TraceAdvances ==
  [][pc = "trace" /\ pc' = "trace" =>
       /\ Known' = Known /\ todo' \subseteq todo
       /\ \A c \in Known : Work(c)' <= Work(c)
       /\ todo' # todo \/ \E c \in Known : Work(c)' < Work(c)]_vars
=============================================================================
