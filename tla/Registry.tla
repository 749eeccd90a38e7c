------------------------------ MODULE Registry ------------------------------
(***************************************************************************)
(* Classes and objects at run time (vm/klass.c, vm/sym-table.c,            *)
(* vm/builtin/Function.c), and the phases in which main() of vm/vm.c       *)
(* brings the classes into being:                                          *)
(*   1    Function and Object, by hand;                                    *)
(*   1a   every module makes its classes;                                  *)
(*   1b   every module gives them fields and methods;                      *)
(*   1.5  the classes that the library needs are looked up, and the size   *)
(*        of every class's objects is known;                               *)
(*   run  phases 2 and 3 and the program's main: objects are used.         *)
(* The modules are met in any order: it is that of a Map (riperipe/        *)
(* module.rip).                                                            *)
(***************************************************************************)
EXTENDS Naturals, Sequences

CONSTANTS
  Objects,      \* bound: the objects that the program can make
  Fields,       \* names of fields, as a sequence; the first is Error's
  FieldValues,  \* values of fields
  Nil,
  FieldLimit,   \* 1024: from it on the number of a field is a function
  MaxDepth      \* bound: destructors that run at one time

ASSUME RegistryAssumption ==
  /\ FieldLimit \in Nat /\ MaxDepth \in Nat
  /\ Fields \in Seq({Fields[i] : i \in DOMAIN Fields}) /\ Fields # <<>>

VARIABLES
  phase,        \* 1a, 1b, run; or the program is over: exit, crash
  todo,         \* the modules that the phase has not met
  decl,         \* the declaration of the program's own class
  symbols,      \* dynamic_sym_table, as the sequence of the names it has met
  klasses,      \* the classes in the order of their making
  klass_Error,  \* cached by common_init_phase15()
  made,         \* the pairs of class and size of all that has been allocated
  objects,      \* the program's objects
  last,         \* of each object and field, what was last written to it
  destroying,   \* the active calls of obj_destroy(), outermost first
  gone,         \* the objects for which obj_destroy() has returned
  said          \* what the last call has come to

regVars == <<phase, todo, decl, symbols, klasses, klass_Error, made, objects, last,
             destroying, gone, said>>

FieldNames == {Fields[i] : i \in DOMAIN Fields}
Modules    == {"program", "Error", "Destroyed"}

(* What a module may declare: C data or fields, virtual accessors of one of *)
(* them, the parameters of its destructor (0: none) and of a method, self   *)
(* included.  Methods and fields do not meet, and are not all combined.     *)
Decls ==
  {d \in [name: {"Own", "Object"}, cdata: 0..1, fields: 0..Len(Fields),
          getter: FieldNames \union {Nil}, setter: FieldNames \union {Nil},
          accessor_params: 1..2, destructor: 0..2, num_params: 1..3, var_params: BOOLEAN] :
     /\ d.getter = Nil \/ d.setter \in {Nil, d.getter}
     /\ d.getter = Nil /\ d.setter = Nil => d.accessor_params = 1
     /\ d.fields > 0 => d.num_params = 1 /\ ~d.var_params /\ d.name = "Own"}

DeclOf(m) ==
  IF m = "program" THEN decl
  ELSE [name |-> m, cdata |-> 0, fields |-> IF m = "Error" THEN 1 ELSE 0,
        getter |-> Nil, setter |-> Nil, accessor_params |-> 1, destructor |-> 0,
        num_params |-> 1, var_params |-> FALSE]

-----------------------------------------------------------------------------
(* Symbols.  dsym_get() counts on from 100 for a name that is new.          *)
dsym_get(ss, n) ==
  IF \E i \in DOMAIN ss : ss[i] = n THEN ss ELSE Append(ss, n)

(* The class that is found by its name, and whether there is one.           *)
Known(name)     == \E i \in DOMAIN klasses : klasses[i].name = name
klass_get(name) == CHOOSE i \in DOMAIN klasses : klasses[i].name = name

(* Mutant: the size is only known from phase 1.5 on.                        *)
klass_newUnsized(name, cdata_size) ==
  [name |-> name, cdata_size |-> cdata_size, obj_size |-> 0, num_fields |-> 0,
   readable |-> [f \in {} |-> 0], writable |-> [f \in {} |-> 0], destructor |-> FALSE]

(* Sizes are in words: the Klass*, the fields and the C data.               *)
klass_new(name, cdata_size) ==
  [name |-> name, cdata_size |-> cdata_size, obj_size |-> 1 + cdata_size, num_fields |-> 0,
   readable |-> [f \in {} |-> 0], writable |-> [f \in {} |-> 0], destructor |-> FALSE]

(* dict_set() of a table of fields.                                         *)
With(table, f, number) ==
  [g \in DOMAIN table \union {f} |-> IF g = f THEN number ELSE table[g]]

(* Mutant: all fields get the number of the first.                          *)
klass_new_fieldSame(k, f) ==
  [k EXCEPT !.num_fields = @ + 1,
            !.readable = With(@, f, 0), !.writable = With(@, f, 0)]

klass_new_field(k, f) ==
  [k EXCEPT !.num_fields = @ + 1,
            !.readable = With(@, f, k.num_fields), !.writable = With(@, f, k.num_fields)]

(* The number of a virtual accessor is its function value.                  *)
Function == FieldLimit + Len(Fields) + 1

klass_new_virtual_reader(k, f) == IF f = Nil THEN k ELSE [k EXCEPT !.readable = With(@, f, Function)]
klass_new_virtual_writer(k, f) == IF f = Nil THEN k ELSE [k EXCEPT !.writable = With(@, f, Function)]

-----------------------------------------------------------------------------
(* sym_init(), klass_init(), init1_Function() and init1_Object().           *)
RegInit ==
  /\ phase = "1a" /\ todo = Modules
  /\ decl \in Decls
  /\ symbols = <<"destructor", "Function", "Object">>
  /\ klasses = <<klass_new("Function", 1), klass_new("Object", 0)>>
  /\ klass_Error = 0
  /\ made = {<<"Function", klass_new("Function", 1).obj_size>>}
  /\ objects = [o \in {} |-> 0] /\ last = [o \in {} |-> 0]
  /\ destroying = <<>> /\ gone = {} /\ said = "fine"

NoObjects == UNCHANGED <<objects, last, destroying, gone>>

(* A phase has met its last module.                                         *)
Onward(m, next) ==
  IF todo = {m} THEN phase' = next /\ todo' = Modules
  ELSE todo' = todo \ {m} /\ UNCHANGED phase

init1a(m) ==
  LET d == DeclOf(m)
  IN  /\ phase = "1a" /\ m \in todo
      /\ symbols' = dsym_get(symbols, d.name)
      /\ IF Known(d.name)
         THEN phase' = "exit" /\ said' = "initialized twice" /\ UNCHANGED <<todo, klasses>>
         ELSE /\ klasses' = Append(klasses, klass_new(d.name, d.cdata))
              /\ Onward(m, "1b")
              /\ UNCHANGED said
      /\ UNCHANGED <<decl, klass_Error, made>> /\ NoObjects

(* A class gets its fields one after the other, then its accessors; its     *)
(* functions become objects.  A destructor with parameters is refused by an *)
(* exception, whose class is not known yet.                                 *)
Populated(k, d) ==
  LET with[n \in 0..d.fields] ==
        IF n = 0 THEN k ELSE klass_new_field(with[n - 1], Fields[n])
  IN  [klass_new_virtual_writer(klass_new_virtual_reader(with[d.fields], d.getter), d.setter)
         EXCEPT !.destructor = d.destructor = 1]

DeclSymbols(d) ==
  LET from[n \in 0..d.fields] ==
        IF n = 0 THEN symbols ELSE dsym_get(from[n - 1], Fields[n])
  IN  from[d.fields]

init1b(m) ==
  LET d == DeclOf(m)
      i == klass_get(d.name)
  IN  /\ phase = "1b" /\ m \in todo
      /\ IF d.destructor > 1
         THEN phase' = "crash" /\ said' = "destructor"
              /\ UNCHANGED <<todo, symbols, klasses, made>>
         ELSE /\ symbols' = DeclSymbols(d)
              /\ klasses' = [klasses EXCEPT ![i] = Populated(@, d)]
              /\ made' = made \union {<<"Function", klasses[klass_get("Function")].obj_size>>}
              /\ Onward(m, "1.5")
              /\ UNCHANGED said
      /\ UNCHANGED <<decl, klass_Error>> /\ NoObjects


Sized(k) == 1 + k.num_fields + k.cdata_size

(* common_init_phase15(), then klass_init_phase15(): the first class with   *)
(* both C data and fields raises an exception, an Error; classes after it   *)
(* have their preliminary size.                                             *)
phase15 ==
  LET both  == {i \in DOMAIN klasses : klasses[i].cdata_size > 0 /\ klasses[i].num_fields > 0}
      sized == [i \in DOMAIN klasses |->
                  IF \E j \in both : j <= i THEN klasses[i]
                  ELSE [klasses[i] EXCEPT !.obj_size = Sized(klasses[i])]]
      error == klass_get("Error")
  IN  /\ phase = "1.5"
      /\ klass_Error' = error
      /\ klasses' = sized
      /\ IF both = {} THEN phase' = "run" /\ UNCHANGED <<said, made>>
         ELSE phase' = "exit" /\ said' = "both"
              /\ made' = made \union {<<"Error", sized[error].obj_size>>}
      /\ UNCHANGED <<todo, decl, symbols>> /\ NoObjects

-----------------------------------------------------------------------------
(* Objects.                                                                 *)
Running == phase = "run" /\ UNCHANGED <<phase, todo, decl, symbols, klasses, klass_Error>>
Say(what) == said' = what /\ UNCHANGED <<made, objects, last, destroying, gone>>

(* Memory comes zeroed, and 0 is nil.                                       *)
obj_new(o) ==
  LET k == klasses[klass_get(decl.name)]
  IN  /\ Running /\ o \notin DOMAIN objects
      /\ made' = made \union {<<k.name, k.obj_size>>}
      /\ objects' = With(objects, o, [klass |-> klass_get(decl.name),
                                      data |-> [i \in 0..k.obj_size - 2 |-> Nil]])
      /\ last' = With(last, o, [f \in FieldNames |-> Nil])
      /\ said' = "fine"
      /\ UNCHANGED <<destroying, gone>>

(* What calling an accessor with n arguments comes to.                      *)
Accessed(n) == IF decl.accessor_params = n THEN "accessor" ELSE "accessor mismatch"

field_get(o, f) ==
  LET k == klasses[objects[o].klass]
  IN  /\ Running /\ o \in DOMAIN objects
      /\ Say(IF f \notin DOMAIN k.readable THEN "raised"
             ELSE IF k.readable[f] < FieldLimit
             THEN IF objects[o].data[k.readable[f]] = last[o][f] THEN "fine" ELSE "another"
             ELSE IF k.readable[f] = Function THEN Accessed(1) ELSE "limit")

field_set(o, f, v) ==
  LET k == klasses[objects[o].klass]
  IN  /\ Running /\ o \in DOMAIN objects
      /\ IF f \in DOMAIN k.writable /\ k.writable[f] < FieldLimit
         THEN /\ objects' = [objects EXCEPT ![o].data[k.writable[f]] = v]
              /\ last' = [last EXCEPT ![o][f] = v]
              /\ said' = "fine"
              /\ UNCHANGED <<made, destroying, gone>>
         ELSE Say(IF f \notin DOMAIN k.writable THEN "raised"
                  ELSE IF k.writable[f] = Function THEN Accessed(2) ELSE "limit")

(* Mutant: the object keeps its class.                                      *)
MorphedKept(o) == [objects EXCEPT ![o].data = [i \in DOMAIN @ |-> Nil]]

(* The end of obj_destroy(): memory is cleared, the class is Destroyed.     *)
Morphed(o) == [objects EXCEPT ![o] = [klass |-> klass_get("Destroyed"),
                                      data |-> [i \in DOMAIN objects[o].data |-> Nil]]]

obj_destroy(o) ==
  LET k == klasses[objects[o].klass]
  IN  /\ Running /\ o \in DOMAIN objects
      /\ said' = "fine"
      /\ IF k.destructor
         THEN /\ Len(destroying) < MaxDepth
              /\ destroying' = Append(destroying, o)
              /\ UNCHANGED <<made, objects, last, gone>>
         ELSE /\ objects' = Morphed(o)
              /\ gone' = gone \union {o}
              /\ UNCHANGED <<made, last, destroying>>

(* A destructor returns ...                                                 *)
Destructed ==
  LET o == destroying[Len(destroying)]
  IN  /\ Running /\ destroying # <<>>
      /\ objects' = Morphed(o)
      /\ gone' = gone \union {o}
      /\ destroying' = SubSeq(destroying, 1, Len(destroying) - 1)
      /\ UNCHANGED <<made, last, said>>

(* ... or raises an exception, which is caught in one of the destructors    *)
(* around it or outside: the calls up to there end as they are.             *)
DestructorRaises ==
  /\ Running /\ destroying # <<>>
  /\ \E n \in 0..Len(destroying) - 1 : destroying' = SubSeq(destroying, 1, n)
  /\ said' = "raised"
  /\ UNCHANGED <<made, objects, last, gone>>

(* The arguments that func_call_opt_helper() passes, the others in a tuple, *)
(* or 0: an exception.                                                      *)
func_call_opt_helper(num_params, num_args) ==
  IF num_params - 1 > num_args THEN 0 ELSE num_params

(* method_calln(), of the class's method.                                   *)
method_call(o, n) ==
  LET passed == IF decl.var_params THEN func_call_opt_helper(decl.num_params, n + 1)
                ELSE IF decl.num_params = n + 1 THEN n + 1 ELSE 0
  IN  /\ Running /\ o \in DOMAIN objects /\ klasses[objects[o].klass].name = decl.name
      /\ Say(IF passed = 0 THEN "raised"
             ELSE IF passed = decl.num_params THEN "fine" ELSE "method mismatch")

(* func_calln(), of a function of the program with these parameters: the    *)
(* arguments are neither counted nor put into a tuple.                      *)
func_call(n) ==
  /\ Running
  /\ Say(IF n = decl.num_params /\ ~decl.var_params THEN "fine" ELSE "function mismatch")

Arguments == 0..3

RegNext ==
  \/ \E m \in Modules : init1a(m) \/ init1b(m)
  \/ phase15
  \/ \E o \in Objects : obj_new(o) \/ obj_destroy(o)
  \/ \E o \in Objects, f \in FieldNames : field_get(o, f)
  \/ \E o \in Objects, f \in FieldNames, v \in FieldValues : field_set(o, f, v)
  \/ Destructed \/ DestructorRaises
  \/ \E n \in Arguments, o \in Objects : method_call(o, n)
  \/ \E n \in Arguments : func_call(n)

RegSpec == RegInit /\ [][RegNext]_regVars

-----------------------------------------------------------------------------
(***************************************************************************)
(* Properties.                                                             *)
(***************************************************************************)
(* Whatever is allocated, in whatever phase, has room for the fields and    *)
(* the C data of its class as they are in the end: the functions made       *)
(* before phase 1.5 too.  The one exception is the Error by which           *)
(* klass_init_phase15() (vm/klass.c:114) refuses a class.                   *)
ObjectsFit ==
  said # "both" =>
    \A p \in made : \A i \in DOMAIN klasses :
      klasses[i].name = p[1] => p[2] >= 1 + klasses[i].num_fields + klasses[i].cdata_size

(* A field is read as it was last written, and no two fields of an object   *)
(* share memory (field_get(), field_set()), whatever order the modules come *)
(* in.                                                                      *)
FieldsKeep ==
  /\ said # "another"
  /\ \A o \in DOMAIN objects \ gone : \A f \in FieldNames :
       LET k == klasses[objects[o].klass]
       IN  f \in DOMAIN k.writable /\ k.writable[f] < FieldLimit
             => objects[o].data[k.writable[f]] = last[o][f]

(* An object for which obj_destroy() has returned, be it inside of another  *)
(* call for the same object, has no class but Destroyed, no content and no  *)
(* destructor that could run again.                                         *)
GoneForGood ==
  \A o \in gone : /\ klasses[objects[o].klass].name = "Destroyed"
                  /\ \A i \in DOMAIN objects[o].data : objects[o].data[i] = Nil
=============================================================================
