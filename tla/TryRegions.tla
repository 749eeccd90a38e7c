----------------------------- MODULE TryRegions -----------------------------
(***************************************************************************)
(* The control context of compiled ripe code, as far as exceptions are     *)
(* concerned: the sequence of regions of generated C code (lang/generator.c*)
(* gen_code, gen_try_stuff) that execution is inside of, outermost first.  *)
(*                                                                         *)
(*   func     the body of a function or of an anonymous function           *)
(*   try      the first branch of  if (setjmp(exc_jb) == 0) { ... }        *)
(*   catch    its else branch                                              *)
(*   finally  the code generated after a try/finally                       *)
(*   report   the report of an uncaught exception (vm/stack.c), from which *)
(*            a method to_s() of the program is called                     *)
(*                                                                         *)
(* An exception object is abstracted to its class: obj_eq_klass() looks at *)
(* nothing else.                                                           *)
(***************************************************************************)
EXTENDS Integers, Sequences

CONSTANTS
  Klasses,   \* the classes of the objects that are raised or caught
  Parent,    \* Klass.parent, NoKlass for a class without one
  NoKlass

ASSUME KlassAssumption ==
  /\ NoKlass \notin Klasses
  /\ Parent \in [Klasses -> Klasses \union {NoKlass}]

ANNOT     == "annot"
CATCH_ALL == "catch_all"
CATCH     == "catch"
FINALLY   == "finally"
Types     == {ANNOT, CATCH_ALL, CATCH, FINALLY}

(* obj_eq_klass() follows Klass.parent up from the class of the object: k   *)
(* is in every set of classes that has that class and the parents of its    *)
(* members.                                                                 *)
obj_eq_klass(obj, k) ==
  \A S \in SUBSET Klasses :
    /\ obj \in S
    /\ \A c \in S : Parent[c] # NoKlass => Parent[c] \in S
    => k \in S

-----------------------------------------------------------------------------
(***************************************************************************)
(* A region: what it is (kind), the handler it was opened with (h, klass), *)
(* the position of the function it runs in (frame, the C frame), whether   *)
(* that function is an anonymous one (anon), and, for a finally region     *)
(* entered by unwinding, the exception that entered it (pending).          *)
(***************************************************************************)
Kinds == {"func", "try", "catch", "finally", "report"}

(* Where a C frame begins.                                                  *)
Frames == {"func", "report"}

Region == [kind    : Kinds,
           h       : Types,
           klass   : Klasses \union {NoKlass},
           frame   : Nat,
           anon    : BOOLEAN,
           pending : Klasses \union {NoKlass}]

FuncRegion(at, anon) ==
  [kind |-> "func", h |-> ANNOT, klass |-> NoKlass, frame |-> at,
   anon |-> anon, pending |-> NoKlass]

ReportRegion(at) == [FuncRegion(at, FALSE) EXCEPT !.kind = "report"]

TryRegion(in, h, k) ==
  [kind |-> "try", h |-> h, klass |-> k, frame |-> in.frame,
   anon |-> in.anon, pending |-> NoKlass]

(* Where control goes when a try region is left for its handler.            *)
HandlerRegion(r, pending) ==
  [r EXCEPT !.kind    = IF r.h = FINALLY THEN "finally" ELSE "catch",
            !.pending = pending]

(* The handler of a try region wants an exception of class obj.             *)
Accepts(r, obj) ==
  /\ r.kind = "try"
  /\ r.h = CATCH => obj_eq_klass(obj, r.klass)

Upto(c, p) == SubSeq(c, 1, p)
Top(c)     == c[Len(c)]
PopTop(c)  == SubSeq(c, 1, Len(c) - 1)
=============================================================================
