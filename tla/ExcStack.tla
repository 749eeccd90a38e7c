------------------------------ MODULE ExcStack ------------------------------
(***************************************************************************)
(* The exception stack of one thread of a ripe program: vm/stack.c driven  *)
(* by the code that lang/generator.c emits for functions, try, catch,      *)
(* finally, return and raise.  Every variable below but ctl is a           *)
(* THREAD_LOCAL of vm/stack.c, so threads do not interfere here.           *)
(*                                                                         *)
(* ctl is the C control state.  setjmp() stores in a jump buffer the       *)
(* position in ctl of the region it is called for; longjmp() cuts ctl back *)
(* to that position.  The field `at' of a stack element is the jump buffer *)
(* of a handler and the function named by an annotation.  slots is not in  *)
(* the code: it says for each region of ctl which element of stack[] it    *)
(* was given, so that the model can tell a jump buffer of a region that is *)
(* still there from one whose function has returned or whose block is over.*)
(*                                                                         *)
(* Which programs are run is up to the environment: it calls, enters and   *)
(* leaves regions, raises and returns at will, to a nesting of MaxDepth    *)
(* regions.  With PlainFinally it keeps to programs that open no try block *)
(* while a finally block is interrupting an exception, do not return from  *)
(* such a block, and use no finally in anonymous functions.  With ToS the  *)
(* objects it raises may have no field text or a virtual one: the report   *)
(* of one that nobody catches then runs its method to_s(), or the reader   *)
(* of text, which are the program's code again.                            *)
(***************************************************************************)
EXTENDS TryRegions

CONSTANTS
  STACK_SIZE,    \* the length of the array stack[]
  MaxDepth,      \* bound: the deepest nesting of regions the program reaches
  PlainFinally,  \* only programs whose finally blocks are plain, as above
  ToS            \* also programs that raise objects without a text field

ASSUME SizeAssumption ==
  /\ MaxDepth \in Nat /\ STACK_SIZE \in Nat
  /\ PlainFinally \in BOOLEAN /\ ToS \in BOOLEAN

VARIABLES
  pc,               \* run, unwind (in stack_continue_unwinding), exit;
                    \* astray: longjmp() to a region that is over
  ctl,
  slots,            \* a sequence as long as ctl: the element of the region,
                    \* and the innermost report it is in (0: in none)
  stack,            \* stack[], with what was popped still in place
  stack_idx,
  stack_unwinding,
  exc_obj,
  stack_backup

vars == <<pc, ctl, slots, stack, stack_idx, stack_unwinding, exc_obj, stack_backup>>

Element == [type : Types, exc_type : Klasses \union {NoKlass}, at : Nat]

(* An element of the zeroed array: no region is at position 0.              *)
Unused == [type |-> ANNOT, exc_type |-> NoKlass, at |-> 0]

Init ==
  /\ pc = "run"
  /\ ctl = << >> /\ slots = << >>
  /\ stack = [i \in 1..STACK_SIZE |-> Unused]
  /\ stack_idx = 0
  /\ stack_unwinding = FALSE
  /\ exc_obj = NoKlass
  /\ stack_backup = 0

-----------------------------------------------------------------------------
Push(type, k, at) ==
  /\ stack' = [stack EXCEPT ![stack_idx + 1] =
                 [type |-> type, exc_type |-> k, at |-> at]]
  /\ stack_idx' = stack_idx + 1

(* Bound: nothing in vm/stack.c checks that stack[] has an element left.    *)
Room == Len(ctl) < MaxDepth /\ stack_idx < STACK_SIZE

(* The report that code is run for, and how many elements it has restored.  *)
Report == IF ctl = << >> THEN 0 ELSE slots[Len(ctl)].report
Base   == IF Report = 0 THEN 0 ELSE slots[Report].index

(* Control enters region r, which is to push its element, or goes back to   *)
(* the first n regions.                                                     *)
Enters(r) ==
  /\ ctl' = Append(ctl, r)
  /\ slots' = Append(slots, [index |-> stack_idx + 1, report |-> Report])

BackTo(n) == ctl' = Upto(ctl, n) /\ slots' = Upto(slots, n)

(* A finally block has interrupted an exception in one of these regions.    *)
Interrupted(regions) == \E p \in regions : ctl[p].pending # NoKlass

(* Code generated from the program is running, not that of the report.      *)
InCode == ctl # << >> /\ Top(ctl).kind # "report"

(* gen_code(), EXPR_BLOCK: a function starts with stack_annot_push().       *)
Call(anon) ==
  /\ pc = "run" /\ Room
  /\ Enters(FuncRegion(Len(ctl) + 1, anon))
  /\ Push(ANNOT, NoKlass, Len(ctl) + 1)
  /\ UNCHANGED <<pc, stack_unwinding, exc_obj, stack_backup>>

(* gen_try_stuff(): setjmp(), then stack_push_catch_all(), stack_push_catch *)
(* or stack_push_finally().                                                 *)
Try(h, k) ==
  /\ pc = "run" /\ InCode /\ Room
  /\ PlainFinally => /\ ~Interrupted(1..Len(ctl))
                     /\ h = FINALLY => ~Top(ctl).anon
  /\ Enters(TryRegion(Top(ctl), h, k))
  /\ Push(h, k, Len(ctl) + 1)
  /\ UNCHANGED <<pc, stack_unwinding, exc_obj, stack_backup>>

(***************************************************************************)
(* gen_block() ends EVERY block generated inside an anonymous function in  *)
(* an RRETURN, or in a try statement whose blocks do, so control never     *)
(* falls off the end of a region there: End* are for named functions.      *)
(***************************************************************************)
InRegion(kind) ==
  /\ pc = "run" /\ ctl # << >>
  /\ Top(ctl).kind = kind
  /\ ~Top(ctl).anon

(* The try block is done: stack_pop(), and on to the finally block, if any. *)
EndTry ==
  /\ InRegion("try")
  /\ stack_idx' = stack_idx - 1
  /\ IF Top(ctl).h = FINALLY
     THEN /\ ctl' = Append(PopTop(ctl), HandlerRegion(Top(ctl), NoKlass))
          /\ UNCHANGED slots
     ELSE BackTo(Len(ctl) - 1)
  /\ UNCHANGED <<pc, stack, stack_unwinding, exc_obj, stack_backup>>

EndCatch ==
  /\ InRegion("catch")
  /\ BackTo(Len(ctl) - 1)
  /\ UNCHANGED <<pc, stack, stack_idx, stack_unwinding, exc_obj, stack_backup>>

(* if (stack_unwinding == true) stack_continue_unwinding();                 *)
EndFinally ==
  /\ InRegion("finally")
  /\ IF stack_unwinding
     THEN pc' = "unwind" /\ UNCHANGED <<ctl, slots>>
     ELSE BackTo(Len(ctl) - 1) /\ UNCHANGED pc
  /\ UNCHANGED <<stack, stack_idx, stack_unwinding, exc_obj, stack_backup>>

(* Mutant: return pops one element, as if no try block were open.           *)
ReturnPopsOne ==
  /\ pc = "run" /\ InCode
  /\ stack_idx' = stack_idx - 1
  /\ BackTo(Top(ctl).frame - 1)
  /\ UNCHANGED <<pc, stack, stack_unwinding, exc_obj, stack_backup>>

(* Mutant: stack_annot_pop() stops at the annotation without dropping it.   *)
ReturnKeepsAnnot ==
  /\ pc = "run" /\ InCode
  /\ \E i \in 1..stack_idx :
       /\ stack[i].type = ANNOT
       /\ \A j \in (i+1)..stack_idx : stack[j].type # ANNOT
       /\ stack_idx' = i
  /\ BackTo(Top(ctl).frame - 1)
  /\ UNCHANGED <<pc, stack, stack_unwinding, exc_obj, stack_backup>>

(* Mutant: it drops one element below the annotation as well.               *)
ReturnPopsMore ==
  /\ pc = "run" /\ InCode
  /\ \E i \in 1..stack_idx :
       /\ stack[i].type = ANNOT
       /\ \A j \in (i+1)..stack_idx : stack[j].type # ANNOT
       /\ stack_idx' = i - 2
  /\ BackTo(Top(ctl).frame - 1)
  /\ UNCHANGED <<pc, stack, stack_unwinding, exc_obj, stack_backup>>

(* RRETURN: stack_annot_pop() drops everything down to and including the    *)
(* topmost annotation.                                                      *)
Return ==
  /\ pc = "run" /\ InCode
  /\ PlainFinally => ~Interrupted(Top(ctl).frame..Len(ctl))
  /\ \E i \in 1..stack_idx :
       /\ stack[i].type = ANNOT
       /\ \A j \in (i+1)..stack_idx : stack[j].type # ANNOT
       /\ stack_idx' = i - 1
  /\ BackTo(Top(ctl).frame - 1)
  /\ UNCHANGED <<pc, stack, stack_unwinding, exc_obj, stack_backup>>

(* Mutant: the depth of the stack at the raise is not saved.                *)
RaiseNoBackup(obj) ==
  /\ pc = "run" /\ ctl # << >>
  /\ stack_unwinding' = TRUE
  /\ exc_obj' = obj
  /\ pc' = "unwind"
  /\ UNCHANGED <<ctl, slots, stack, stack_idx, stack_backup>>

(* exc_raise_object(), from a raise statement or from C via exc_raise();    *)
(* to_s() of a report may be written in C as well.                          *)
exc_raise_object(obj) ==
  /\ pc = "run" /\ ctl # << >>
  /\ stack_backup' = stack_idx
  /\ stack_unwinding' = TRUE
  /\ exc_obj' = obj
  /\ pc' = "unwind"
  /\ UNCHANGED <<ctl, slots, stack, stack_idx>>

-----------------------------------------------------------------------------
(* One turn of the loop of stack_continue_unwinding(), by the type of the   *)
(* element that it pops.                                                    *)
Popping ==
  /\ pc = "unwind" /\ stack_idx > 0
  /\ stack_idx' = stack_idx - 1
  /\ UNCHANGED <<stack, exc_obj, stack_backup>>

(* Mutant: finally elements are popped like annotations.                    *)
WantsNoFinally(e) ==
  \/ e.type = CATCH_ALL
  \/ e.type = CATCH /\ obj_eq_klass(exc_obj, e.exc_type)

(* Mutant: a catch takes the exceptions of its own class only.              *)
WantsExact(e) ==
  \/ e.type \in {CATCH_ALL, FINALLY}
  \/ e.type = CATCH /\ exc_obj = e.exc_type

Wants(e) ==
  \/ e.type \in {CATCH_ALL, FINALLY}
  \/ e.type = CATCH /\ obj_eq_klass(exc_obj, e.exc_type)

(* Mutant: the loop leaves an annotation where it is.                       *)
PopIgnoredStuck ==
  /\ pc = "unwind" /\ stack_idx > 0
  /\ ~Wants(stack[stack_idx])
  /\ stack_idx' = IF stack[stack_idx].type = ANNOT THEN stack_idx ELSE stack_idx - 1
  /\ UNCHANGED <<pc, ctl, slots, stack, stack_unwinding, exc_obj, stack_backup>>

PopIgnored ==
  /\ Popping
  /\ ~Wants(stack[stack_idx])
  /\ UNCHANGED <<pc, ctl, slots, stack_unwinding>>

(* The region whose jump buffer is in element i has not been left.          *)
Live(i) ==
  /\ stack[i].at \in 1..Len(ctl)
  /\ ctl[stack[i].at].kind # "report"
  /\ slots[stack[i].at].index = i

(* What happens after a jump to a region that is over is not modelled.      *)
longjmp(pending) ==
  LET at == stack[stack_idx].at
  IN  IF Live(stack_idx)
      THEN /\ ctl' = Append(Upto(ctl, at - 1), HandlerRegion(ctl[at], pending))
           /\ slots' = Upto(slots, at)
           /\ pc' = "run"
      ELSE pc' = "astray" /\ UNCHANGED <<ctl, slots>>

(* Mutant: a caught exception leaves stack_unwinding set.                   *)
PopCatchKeepsFlag ==
  /\ Popping
  /\ Wants(stack[stack_idx]) /\ stack[stack_idx].type # FINALLY
  /\ longjmp(NoKlass)
  /\ UNCHANGED stack_unwinding

PopCatch ==
  /\ Popping
  /\ Wants(stack[stack_idx]) /\ stack[stack_idx].type # FINALLY
  /\ stack_unwinding' = FALSE
  /\ longjmp(NoKlass)

PopFinally ==
  /\ Popping
  /\ stack[stack_idx].type = FINALLY
  /\ longjmp(exc_obj)
  /\ UNCHANGED stack_unwinding

(* Nothing left: the stack of the raise is restored and printed.  An object *)
(* with a text of its own is printed and the process ends; ...              *)
NothingLeft ==
  /\ pc = "unwind" /\ stack_idx = 0
  /\ stack_idx' = stack_backup
  /\ UNCHANGED <<stack, stack_unwinding, exc_obj, stack_backup>>

Uncaught ==
  /\ NothingLeft
  /\ pc' = "exit"
  /\ UNCHANGED <<ctl, slots>>

(* ... for another to_s() or the reader is called, with stack_unwinding     *)
(* still set and the elements restored under those that it pushes.          *)
UncaughtToS ==
  /\ ToS /\ Len(ctl) < MaxDepth
  /\ NothingLeft
  /\ pc' = "run"
  /\ ctl' = Append(ctl, ReportRegion(Len(ctl) + 1))
  /\ slots' = Append(slots, [index |-> stack_backup, report |-> Len(ctl) + 1])

(* They have answered.                                                      *)
EndReport ==
  /\ pc = "run" /\ ctl # << >> /\ Top(ctl).kind = "report"
  /\ pc' = "exit"
  /\ UNCHANGED <<ctl, slots, stack, stack_idx, stack_unwinding, exc_obj, stack_backup>>

Unwind == PopIgnored \/ PopCatch \/ PopFinally \/ Uncaught \/ UncaughtToS

Next ==
  \/ \E anon \in BOOLEAN : Call(anon)
  \/ Try(CATCH_ALL, NoKlass)
  \/ Try(FINALLY, NoKlass)
  \/ \E k \in Klasses : Try(CATCH, k)
  \/ EndTry
  \/ EndCatch
  \/ EndFinally
  \/ Return
  \/ \E k \in Klasses : exc_raise_object(k)
  \/ Unwind
  \/ EndReport

Spec == Init /\ [][Next]_vars

(* The loop of stack_continue_unwinding() is sequential code: it goes on.   *)
FairSpec == Spec /\ WF_vars(Unwind)

-----------------------------------------------------------------------------
(***************************************************************************)
(* Properties.                                                             *)
(***************************************************************************)

Slot == [index : 0..STACK_SIZE, report : Nat]

(* The variables of vm/stack.c keep their types; the indexes stay within    *)
(* stack[STACK_SIZE] as long as the pushes do (Room).                       *)
TypeOK ==
  /\ pc \in {"run", "unwind", "exit", "astray"}
  /\ ctl \in Seq(Region) /\ Len(ctl) <= MaxDepth
  /\ slots \in Seq(Slot) /\ Len(slots) = Len(ctl)
  /\ stack \in [1..STACK_SIZE -> Element]
  /\ stack_idx \in 0..STACK_SIZE
  /\ stack_unwinding \in BOOLEAN
  /\ exc_obj \in Klasses \union {NoKlass}
  /\ stack_backup \in 0..STACK_SIZE

(* Element e of the stack was pushed by the region r.                       *)
Registers(e, r) ==
  /\ r.kind \in {"func", "try"}
  /\ e.type = r.h
  /\ e.exc_type = r.klass

ElementsLive ==
  \A i \in (Base + 1)..stack_idx :
    /\ stack[i].at \in (Report + 1)..Len(ctl)
    /\ Registers(stack[i], ctl[stack[i].at])
    /\ slots[stack[i].at].index = i

ElementsOrdered ==
  \A i, j \in (Base + 1)..stack_idx : i < j => stack[i].at < stack[j].at

(* The region at p is on the stack, or it has just been unwound.            *)
RegionsCovered ==
  \A p \in (Report + 1)..Len(ctl) :
    ctl[p].kind \in {"func", "try"} =>
      \/ \E i \in (Base + 1)..stack_idx : stack[i].at = p
      \/ pc = "unwind" /\ \A i \in (Base + 1)..stack_idx : stack[i].at < p

(* The stack is the list of the functions and try blocks that are active,   *)
(* in order, and no active handler is missing; during a report, so are the  *)
(* elements above those restored, for what to_s() is in.  Hence             *)
(* stack_continue_unwinding() jumps to no function that has returned and no *)
(* block that is over, with one exception: when the finally block of an     *)
(* exception that nobody catches has run, and then to_s() of the report     *)
(* raises one itself and does not catch it.                                 *)
HandlersMirror ==
  /\ pc \in {"run", "unwind"} => ElementsLive /\ ElementsOrdered /\ RegionsCovered
  /\ pc = "astray" => \E p, q \in 1..Len(ctl) :
       p < q /\ ctl[p].kind = "finally" /\ ctl[q].kind = "report"

(* What stack_pop() drops at the end of a try block is that block's own     *)
(* handler, and what stack_annot_pop() stops at on return is the annotation *)
(* of the returning function: the assertions stack_idx > 0 of both hold.    *)
PopsOwn ==
  pc = "run" /\ InCode =>
    /\ Top(ctl).kind = "try" =>
         stack_idx > 0 /\ stack[stack_idx].at = Len(ctl)
    /\ \E i \in 1..stack_idx :
         /\ stack[i].type = ANNOT /\ stack[i].at = Top(ctl).frame
         /\ \A j \in (i+1)..stack_idx : stack[j].type # ANNOT

(* No exception skips a finally block: a try/finally that is left becomes   *)
(* its finally block, unless its function returns.                          *)
FinallyRuns ==
  [][\A p \in 1..Len(ctl) :
       ctl[p].kind = "try" /\ ctl[p].h = FINALLY =>
         \/ p <= Len(ctl') /\ ctl'[p].kind \in {"try", "finally"}
         \/ pc = "run" /\ Len(ctl') < ctl[p].frame]_vars

(* stack_continue_unwinding() always ends: in a handler or in exit(1).      *)
UnwindingEnds == pc = "unwind" ~> pc # "unwind"

(* The trace printed for an uncaught exception names every function that is *)
(* still active (stack_backup has not been overtaken by a later raise).     *)
TraceNamesCallers ==
  pc = "exit" =>
    \A p \in 1..Len(ctl) :
      ctl[p].kind = "func" =>
        \E i \in 1..stack_idx : stack[i].type = ANNOT /\ stack[i].at = p

(* A finally block passes on the exception that it has interrupted, so that *)
(* code after the block does not run (test/suite/language.rip,              *)
(* manual_finally: fail() follows the block), and falls through when it has *)
(* interrupted none (exceptions: a test follows the block).                 *)
FinallyResumes ==
  [][EndFinally =>
       (pc' = "unwind" <=> Top(ctl).pending # NoKlass)]_vars

(* With plain finally blocks the stack, the flag and the jump buffers       *)
(* implement the structured semantics: the innermost active handler that    *)
(* wants an exception gets it, and finally blocks pass it on.               *)
Semantics ==
  INSTANCE TryCatch WITH
    inflight <- IF pc = "unwind" THEN exc_obj ELSE NoKlass,
    exited   <- pc = "exit"

ImplementsTryCatch == Semantics!Spec
=============================================================================
