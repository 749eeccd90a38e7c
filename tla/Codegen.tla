------------------------------ MODULE Codegen -------------------------------
(***************************************************************************)
(* The code generator: how ripe's variables, loops, try statements and     *)
(* anonymous functions (blocks) become C names, scopes, labels and         *)
(* functions.  lang/generator.c and lang/eval.c walk the tree; lang/var.c  *)
(* keeps the scopes of ripe variables, lang/stacker.c the statements that  *)
(* break and continue may leave.                                           *)
(*                                                                         *)
(* The tree is any tree: statement by statement, the model opens, closes   *)
(* and chooses freely.  What is written is modelled by what a C compiler   *)
(* looks at: which braces are open, in which C function, and which names   *)
(* are declared in them.                                                   *)
(***************************************************************************)
EXTENDS Naturals, Sequences, FiniteSets

CONSTANTS
  Vars,       \* names of variables
  Globals,    \* names of global variables
  Self,       \* the variable self
  MaxDepth,   \* bound: nesting of statements
  MaxArgs     \* bound: parameters and arguments

(* The names of temporaries, of which only the iterators of loops and those *)
(* of assignments to several targets matter, are not names of the program.  *)
ASSUME NamesAssumption ==
  /\ MaxDepth \in Nat /\ MaxArgs \in Nat
  /\ \A n \in 0..MaxDepth : {<<"iterator", n>>, <<"assign", n>>}
                               \intersect (Vars \union Globals \union {Self}) = {}

VARIABLES
  pc,         \* idle: between functions; gen; fatal: fatal_throw();
              \* crash: context_fi is NULL and dereferenced
  entry,      \* context_fi->type, or VAR: the initialiser of a global
  frames,     \* the statements being generated, outermost first, and how
              \* many scopes (base) and C scopes (cbase) are around each
  locals,     \* locals_arr: a set of variables and their kinds per scope
  cscopes,    \* the C scopes open where code is written, outermost first
  stacker,
  stmts,      \* for every block being generated: prev_stmt_type in
              \* gen_block(), and what the code written in it ends with
  context_block,
  bad,        \* what a C compiler will not accept in what was written last
  odd         \* what in it is known to lead to that

vars == <<pc, entry, frames, locals, cscopes, stacker, stmts, context_block,
          bad, odd>>

Entries == {"FUNCTION", "METHOD", "CONSTRUCTOR", "VAR"}
Tries   == {"try", "catch", "finally"}

(* The scopes that each kind of statement pushes with var_push(), gen_block *)
(* included, and pops.  "if" stands for elif, else and the cases of switch. *)
(* A body of a finally block gets a scope, but no braces of its own.        *)
VarPushes(k) ==
  IF k \in {"if", "loop", "try", "finally"} THEN 1
  ELSE IF k \in {"func", "for", "catch", "block"} THEN 2
  ELSE 0

(* Mutant: the scope of the exception is not popped.                        *)
VarPopsCatch(k) ==
  IF k \in {"if", "loop", "try", "finally", "catch"} THEN 1
  ELSE IF k \in {"func", "for", "block"} THEN 2
  ELSE 0

VarPops(k) ==
  IF k \in {"if", "loop", "try", "finally"} THEN 1
  ELSE IF k \in {"func", "for", "catch", "block"} THEN 2
  ELSE 0

Braces(k) ==
  IF k \in {"func", "expr", "if", "loop", "try", "catch", "block"} THEN 1
  ELSE IF k = "for" THEN 2
  ELSE 0

OnStacker(k) == k \in {"loop", "for", "try", "catch", "finally"}

(* 1 in the C function of a block, 0 in the function around it.             *)
Fn == IF context_block THEN 1 ELSE 0

Frame == frames[Len(frames)]
Cut(s, n) == SubSeq(s, 1, Len(s) - n)

(* n empty scopes on top of the C scopes, or of the scopes of variables.    *)
CScope(fn, names)     == [fn |-> fn, names |-> names, left |-> {}]
OpenBraces(cs, fn, n) == cs \o [i \in 1..n |-> CScope(fn, {})]
PushScopes(ls, n)     == ls \o [i \in 1..n |-> {}]

NewFrame(kind, ls, cs) == [kind |-> kind, base |-> Len(ls), cbase |-> Len(cs)]

(* The last statement in gen_block(), try statements apart, is an if or     *)
(* elif or another one; in C, an if is followed by an else or by others.    *)
(* What these others are only matters after an if.                          *)
Said(prev, code) == [prev |-> prev, code |-> code]
NoStmt           == Said("other", "other")
Wrote(said)      == [stmts EXCEPT ![Len(stmts)] = said]
WroteIf          == Wrote(Said("if", "if"))
WroteOther       == Wrote(NoStmt)
Within(blocks)   == Append(blocks, NoStmt)

(* A try statement leaves prev_stmt_type as it is.                          *)
WroteTry ==
  IF stmts[Len(stmts)].prev = "if" THEN Wrote(Said("if", "try")) ELSE stmts

-----------------------------------------------------------------------------
(* query(): in any scope, or a global.                                      *)
LocalIn(ls, x) == \E i \in 1..Len(ls) : \E v \in ls[i] : v.name = x

Visible(x) == LocalIn(locals, x) \/ x \in Globals

KindsOf(x) == {v.kind : v \in {w \in UNION {locals[i] : i \in 1..Len(locals)} :
                                 w.name = x}}

(* What the C compiler does with a name used in C function fn.              *)
Resolves(cs, fn, x) ==
  \/ x \in Globals
  \/ \E i \in 1..Len(cs) : cs[i].fn = fn /\ x \in cs[i].names

Flag(error, cond) == IF cond THEN {error} ELSE {}
Fine == bad' = {} /\ odd' = {}

(* fatal_throw(): the compiler ends.                                        *)
Fatal ==
  /\ pc' = "fatal" /\ entry' = "FUNCTION"
  /\ frames' = <<>> /\ locals' = <<>> /\ cscopes' = <<>> /\ stacker' = <<>>
  /\ stmts' = <<>> /\ context_block' = FALSE
  /\ Fine

Variable(x, kind) == [name |-> x, kind |-> kind]

(* The variable is declared in the topmost scope, here and in C.            *)
WithLocal(ls, x) == [ls EXCEPT ![Len(ls)] = @ \union {Variable(x, "REGULAR")}]
WithName(cs, x)  == [cs EXCEPT ![Len(cs)].names = @ \union {x}]

(* ... and so are those of X.                                               *)
WithLocals(ls, X) ==
  [ls EXCEPT ![Len(ls)] = @ \union {Variable(x, "REGULAR") : x \in X}]
WithNames(cs, X) == [cs EXCEPT ![Len(cs)].names = @ \union X]

(* Where the anonymous function begins in frames; it is not nested.         *)
BlockAt == CHOOSE i \in 1..Len(frames) : frames[i].kind = "block"

(* Variables that belong to the anonymous function, its parameters apart.   *)
OwnLocal(x) ==
  context_block /\ \E i \in frames[BlockAt].base + 1..Len(locals) :
                     Variable(x, "REGULAR") \in locals[i]
OuterLocal(x) ==
  context_block /\ \E i \in 1..frames[BlockAt].base :
                     \E v \in locals[i] : v.name = x

-----------------------------------------------------------------------------
(* gen_code(), with the parameters P in register_locals(), or gen_var().    *)
gen_code(e, P) ==
  /\ pc = "idle"
  /\ pc' = "gen" /\ entry' = e
  /\ stacker' = <<>> /\ stmts' = Within(stmts)
  /\ Fine
  /\ UNCHANGED <<context_block>>
  /\ LET names == P \union (IF e \in {"METHOD", "CONSTRUCTOR"} THEN {Self} ELSE {})
     IN  IF e = "VAR"
         THEN /\ frames' = Append(frames, NewFrame("expr", locals, cscopes))
              /\ cscopes' = OpenBraces(cscopes, 0, 1)
              /\ UNCHANGED locals
         ELSE /\ frames' = Append(frames, NewFrame("func", locals, cscopes))
              /\ cscopes' = Append(cscopes, CScope(0, names))
              /\ locals' = locals \o <<{Variable(x, "REGULAR") : x \in names}, {}>>

Generating == pc = "gen"
AtStmt     == Generating /\ Frame.kind # "expr"
OneMore    == Len(frames) < MaxDepth

(* ID in eval_expr().  In a block, what is no parameter of it is captured   *)
(* by closure_add() and becomes an argument of block_to_val(), evaluated in *)
(* the function around the block: its C scopes are as they are now when the *)
(* block has ended.  The kind of a global is not set.                       *)
Captures(x) == context_block /\ "BLOCK_PARAM" \notin KindsOf(x)

Read(x) ==
  /\ Generating
  /\ IF ~Visible(x) THEN Fatal
     ELSE /\ \/ Captures(x) /\ bad' = Flag("name", ~Resolves(cscopes, 0, x))
             \/ /\ ~Captures(x) \/ x \in Globals
                /\ bad' = Flag("name", ~Resolves(cscopes, Fn, x))
          /\ odd' = Flag("name", OwnLocal(x))
          /\ UNCHANGED <<pc, entry, frames, locals, cscopes, stacker, stmts, context_block>>

(* gen_stmt_assign(): several targets get the elements of a temporary, that *)
(* is declared for them in the C function of the statement and read by each *)
(* of them like an ID.  In a block it is captured: then it is evaluated in  *)
(* the function around, and either way has to be declared there.            *)
Temp == <<"assign", Len(frames)>>

TempErrors(cs, many) ==
  Flag("name", many /\ ~Resolves(WithName(cs, Temp), 0, Temp))

(* gen_stmt_assign2() to an ID, in the given scopes: assign or declare.     *)
AssignIn(ls, cs, x) ==
  /\ locals' = IF Visible(x) THEN ls ELSE WithLocal(ls, x)
  /\ cscopes' = IF Visible(x) THEN cs ELSE WithName(cs, x)

AssignErrors(cs, x) ==
  IF Visible(x) THEN Flag("name", ~Resolves(cs, Fn, x))
  ELSE Flag("redeclared", x \in cs[Len(cs)].names)

(* The name was left in C by a finally block of this scope.                 *)
LeftOver(cs, x) == Flag("redeclared", x \in cs[Len(cs)].left)

(* STMT_ASSIGN to an ID, or one of several targets of it.                   *)
Assign(x, many) ==
  /\ AtStmt
  /\ AssignIn(locals, cscopes, x)
  /\ stmts' = WroteOther
  /\ bad' = AssignErrors(cscopes, x) \union TempErrors(cscopes, many)
  /\ odd' = Flag("name", OuterLocal(x) \/ (many /\ context_block))
               \union LeftOver(cscopes, x)
  /\ UNCHANGED <<pc, entry, frames, stacker, context_block>>

(* ... to an EXPR_TYPED_ID: var_add_local2() refuses a name that is there.  *)
AssignTyped(x, many) ==
  /\ AtStmt
  /\ IF Visible(x) THEN Fatal
     ELSE /\ AssignIn(locals, cscopes, x)
          /\ stmts' = WroteOther
          /\ bad' = AssignErrors(cscopes, x) \union TempErrors(cscopes, many)
          /\ odd' = Flag("name", many /\ context_block) \union LeftOver(cscopes, x)
          /\ UNCHANGED <<pc, entry, frames, stacker, context_block>>

(* ... to an EXPR_INDEX or EXPR_FIELD, and the statements that are done     *)
(* with their expressions: STMT_EXPR, STMT_PASS, STMT_RAISE, STMT_DESTROY.  *)
Simple(many) ==
  /\ AtStmt
  /\ stmts' = WroteOther
  /\ bad' = TempErrors(cscopes, many)
  /\ odd' = Flag("name", many /\ context_block)
  /\ UNCHANGED <<pc, entry, frames, locals, cscopes, stacker, context_block>>

(* EXPR_AT_VAR, read: only in a class of fields.  Assigned: no check.       *)
AtVar(assigned, fields) ==
  /\ IF assigned THEN AtStmt ELSE Generating
  /\ IF ~assigned /\ (entry \in {"FUNCTION", "VAR"} \/ ~fields) THEN Fatal
     ELSE /\ stmts' = IF assigned THEN WroteOther ELSE stmts
          /\ bad' = Flag("name", ~Resolves(cscopes, Fn, Self))
          /\ odd' = Flag("name", context_block \/ entry \in {"FUNCTION", "VAR"})
          /\ UNCHANGED <<pc, entry, frames, locals, cscopes, stacker, context_block>>

(* eval_static_call() of a function with these parameters: which numbers of *)
(* arguments it refuses, and how many C arguments it writes.                *)
CallRefused(args, params, vararg) ==
  IF vararg THEN args < params - 1 ELSE args # params

(* An argument that is not there is read past the end of arg_list.          *)
CallWrites(args, params, vararg) ==
  IF vararg THEN (IF args < params - 1 THEN args ELSE params - 1) + 1 ELSE args

StaticCall(args, params, vararg) ==
  /\ Generating
  /\ vararg => params > 0
  /\ IF CallRefused(args, params, vararg) THEN Fatal
     ELSE /\ bad' = Flag("arity", CallWrites(args, params, vararg) # params)
          /\ odd' = {}
          /\ UNCHANGED <<pc, entry, frames, locals, cscopes, stacker, stmts, context_block>>

(* STMT_RETURN.  context_fi is NULL in the initialiser of a global.         *)
Return ==
  /\ AtStmt
  /\ pc' = IF entry = "VAR" THEN "crash"
           ELSE IF entry = "CONSTRUCTOR" THEN "fatal"
           ELSE pc
  /\ stmts' = WroteOther
  /\ Fine
  /\ UNCHANGED <<entry, frames, locals, cscopes, stacker, context_block>>

-----------------------------------------------------------------------------
(* The beginning of a statement with a body.                                *)
Opened(kind) ==
  /\ frames' = Append(frames, NewFrame(kind, locals, cscopes))
  /\ stacker' = IF OnStacker(kind)
                THEN Append(stacker, [kind |-> kind, depth |-> Len(frames) + 1])
                ELSE stacker

Body(kind) ==
  /\ Opened(kind)
  /\ locals' = PushScopes(locals, VarPushes(kind))
  /\ cscopes' = OpenBraces(cscopes, Fn, Braces(kind))
  /\ UNCHANGED <<pc, entry, context_block>>

(* STMT_IF, a case of STMT_SWITCH, STMT_LOOP, and STMT_TRY in gen_block().  *)
Open(stmt) ==
  /\ AtStmt /\ OneMore
  /\ Body(IF stmt = "case" THEN "if" ELSE stmt)
  /\ stmts' = Within(IF stmt = "if" THEN WroteIf
                      ELSE IF stmt = "try" THEN WroteTry
                      ELSE WroteOther)
  /\ Fine

(* STMT_ELIF, STMT_ELSE.  In C, it belongs to what was written before it.   *)
OpenElse(stmt) ==
  /\ AtStmt /\ OneMore
  /\ IF stmts[Len(stmts)].prev # "if" THEN Fatal
     ELSE /\ Body("if")
          /\ stmts' = Within(IF stmt = "elif" THEN WroteIf ELSE WroteOther)
          /\ bad' = Flag("else", stmts[Len(stmts)].code # "if")
          /\ odd' = Flag("else", stmts[Len(stmts)].code = "try")

(* A try block without catch or finally, or one of these without it.        *)
Stray == AtStmt /\ Fatal

(* STMT_FOR over the variables X, and other targets if there are many: the  *)
(* iterator is declared in the outer braces, what it answers and X in the   *)
(* inner ones, all in the first of two scopes.  The names of the            *)
(* temporaries are unique; the iterator is used in the loop.  Bound: all of *)
(* X are typed or none.                                                     *)
Iterator == <<"iterator", Len(frames)>>

OpenFor(X, typed, many) ==
  LET new   == {x \in X : ~Visible(x)}
      scope == WithLocal(PushScopes(locals, 1), Iterator)
      outer == WithName(OpenBraces(cscopes, Fn, 1), Iterator)
      inner == OpenBraces(outer, Fn, Braces("for") - 1)
  IN  /\ AtStmt /\ OneMore
      /\ Cardinality(X) > 1 => many
      /\ IF typed /\ new # X THEN Fatal
         ELSE /\ Opened("for")
              /\ locals' = PushScopes(WithLocals(scope, new), VarPushes("for") - 1)
              /\ cscopes' = WithNames(inner, new)
              /\ stmts' = Within(WroteOther)
              /\ bad' = (UNION {AssignErrors(inner, x) : x \in X})
                           \union Flag("name", ~Resolves(inner, 0, Iterator))
                           \union TempErrors(inner, many)
              /\ odd' = Flag("name", context_block)
              /\ UNCHANGED <<pc, entry, context_block>>

(* EXPR_BLOCK with parameters P.  The stacker stays as it is.               *)
OpenBlock(P) ==
  /\ Generating /\ OneMore
  /\ IF context_block \/ \E x \in P : Visible(x) THEN Fatal
     ELSE /\ frames' = Append(frames, NewFrame("block", locals, cscopes))
          /\ locals' = locals \o <<{Variable(x, "BLOCK_PARAM") : x \in P}, {}>>
          /\ cscopes' = Append(cscopes, CScope(1, P))
          /\ stmts' = Within(stmts)
          /\ context_block' = TRUE
          /\ Fine
          /\ UNCHANGED <<pc, entry, stacker>>

(* The variables of a finally block stay declared in C.                     *)
Leave(cs) ==
  [cs EXCEPT ![Len(cs)].left = @ \union {v.name : v \in locals[Len(locals)]}]

Closed ==
  /\ frames' = Cut(frames, 1) /\ stmts' = Cut(stmts, 1)
  /\ stacker' = IF OnStacker(Frame.kind) THEN Cut(stacker, 1) ELSE stacker
  /\ locals' = Cut(locals, VarPops(Frame.kind))
  /\ cscopes' = IF Frame.kind = "finally" THEN Leave(cscopes)
                ELSE Cut(cscopes, Braces(Frame.kind))

(* The end of a statement.                                                  *)
Close ==
  /\ Generating /\ Frame.kind \in {"if", "loop", "for", "catch", "finally"}
  /\ Closed
  /\ Fine
  /\ UNCHANGED <<pc, entry, context_block>>

(* gen_try_stuff(): the end of a try block, and the beginning of its catch  *)
(* or finally block.                                                        *)
TryClosed(kind) ==
  /\ Generating /\ Frame.kind = "try"
  /\ frames' = Append(Cut(frames, 1), NewFrame(kind, Cut(locals, VarPops("try")),
                                               Cut(cscopes, Braces("try"))))
  /\ stacker' = IF OnStacker(kind)
                THEN Append(Cut(stacker, 1), [kind |-> kind, depth |-> Len(frames)])
                ELSE Cut(stacker, 1)
  /\ stmts' = Within(Cut(stmts, 1))

CloseTry(kind) ==
  /\ TryClosed(kind)
  /\ locals' = PushScopes(Cut(locals, VarPops("try")), VarPushes(kind))
  /\ cscopes' = OpenBraces(Cut(cscopes, Braces("try")), Fn, Braces(kind))
  /\ Fine
  /\ UNCHANGED <<pc, entry, context_block>>

(* A catch with the exception in variable x, in a scope around its body:    *)
(* var_add_local() refuses a name that is there.                            *)
CloseTryAs(x) ==
  LET ls == Cut(locals, VarPops("try"))
      cs == Cut(cscopes, Braces("try"))
  IN  /\ Generating /\ Frame.kind = "try"
      /\ IF LocalIn(ls, x) \/ x \in Globals THEN Fatal
         ELSE /\ TryClosed("catch")
              /\ locals' = PushScopes(WithLocal(PushScopes(ls, 1), x),
                                      VarPushes("catch") - 1)
              /\ cscopes' = WithName(OpenBraces(cs, Fn, Braces("catch")), x)
              /\ Fine
              /\ UNCHANGED <<pc, entry, context_block>>

(* The anonymous function is complete.                                      *)
CloseBlock ==
  /\ Generating /\ Frame.kind = "block"
  /\ Closed
  /\ context_block' = FALSE
  /\ Fine
  /\ UNCHANGED <<pc, entry>>

(* The end of gen_code() or gen_var().                                      *)
CloseCode ==
  /\ Generating /\ Frame.kind \in {"func", "expr"}
  /\ Closed
  /\ pc' = "idle"
  /\ Fine
  /\ UNCHANGED <<entry, context_block>>

-----------------------------------------------------------------------------
(* Mutant: only the innermost statement is looked at.                       *)
UnwindFailsTop(n) ==
  \/ n < 1
  \/ n > Len(stacker)
  \/ stacker[Len(stacker)].kind \in Tries

(* stacker_unwind(n) of a break or continue: what it refuses, and the loop  *)
(* it answers.                                                              *)
UnwindFails(n) ==
  \/ n < 1
  \/ n > Len(stacker)
  \/ \E i \in Len(stacker) - n + 1..Len(stacker) : stacker[i].kind \in Tries

Unwind(n) == stacker[Len(stacker) - n + 1]

(* The frames that a jump to the loop of frame d leaves.                    *)
Left(d) == {frames[i].kind : i \in d..Len(frames)}

(* What it should leave: n loops, and no try statement, whose element of    *)
(* the exception stack would stay; nor can it leave a C function.           *)
JumpsWrong(n, d) ==
  \/ Left(d) \intersect (Tries \union {"block"}) # {}
  \/ n # Cardinality({i \in d..Len(frames) : frames[i].kind \in {"loop", "for"}})

(* STMT_BREAK, STMT_CONTINUE.                                               *)
Goto(n) ==
  /\ AtStmt
  /\ IF UnwindFails(n) THEN Fatal
     ELSE LET d == Unwind(n).depth
          IN  /\ bad' = Flag("goto", JumpsWrong(n, d))
              /\ odd' = Flag("goto", "block" \in Left(d))
              /\ stmts' = WroteOther
              /\ UNCHANGED <<pc, entry, frames, locals, cscopes, stacker,
                             context_block>>

-----------------------------------------------------------------------------
Init ==
  /\ pc = "idle" /\ entry = "FUNCTION"
  /\ frames = <<>> /\ locals = <<>> /\ cscopes = <<>> /\ stacker = <<>>
  /\ stmts = <<>> /\ context_block = FALSE
  /\ bad = {} /\ odd = {}

Next ==
  \/ \E e \in Entries : \E P \in SUBSET Vars : gen_code(e, P)
  \/ \E x \in Vars \union Globals \union {Self} : Read(x)
  \/ \E many \in BOOLEAN :
       \/ \E x \in Vars \union Globals \union {Self} : Assign(x, many)
       \/ \E x \in Vars \union Globals : AssignTyped(x, many)
       \/ \E X \in SUBSET (Vars \union Globals), typed \in BOOLEAN : OpenFor(X, typed, many)
       \/ Simple(many)
  \/ \E x \in Vars \union Globals : CloseTryAs(x)
  \/ \E a, f \in BOOLEAN : AtVar(a, f)
  \/ \E n, m \in 0..MaxArgs, v \in BOOLEAN : StaticCall(n, m, v)
  \/ Return
  \/ \E k \in {"if", "case", "loop", "try"} : Open(k)
  \/ \E k \in {"elif", "else"} : OpenElse(k)
  \/ Stray
  \/ \E P \in SUBSET Vars : OpenBlock(P)
  \/ Close \/ CloseBlock \/ CloseCode
  \/ \E k \in {"catch", "finally"} : CloseTry(k)
  \/ \E n \in 0..MaxDepth : Goto(n)

Spec == Init /\ [][Next]_vars

-----------------------------------------------------------------------------
(***************************************************************************)
(* Properties.                                                             *)
(***************************************************************************)
(* assert(stacker_size() == 0) at the end of gen_code(), and between        *)
(* functions no scope of the last one is left.                              *)
AllClosed ==
  pc = "idle" => locals = <<>> /\ cscopes = <<>> /\ stacker = <<>> /\ ~context_block

(* A ripe variable is bound in one scope only: query() finds the same one   *)
(* whichever way it looks.                                                  *)
OneBinding ==
  \A i, j \in 1..Len(locals) : \A v \in locals[i], w \in locals[j] :
    v.name = w.name => i = j /\ v = w

(* The scopes of ripe variables nest as the statements do, between          *)
(* functions and inside of them.                                            *)
ScopesMatch == AllClosed /\ OneBinding

(* The C compiler accepts what is written, and takes it for what was meant: *)
(*  - a name is declared in the C function it is written to, unless an      *)
(*    anonymous function assigns to a variable of the function around it,   *)
(*    reads a variable of its own, uses for or @ or assigns to several      *)
(*    targets, or unless @ is assigned to outside of a class;               *)
(*  - no name is declared twice in a C scope, unless the function has a     *)
(*    finally block, whose variables end in ripe but not in C;              *)
(*  - a break or continue goes to the loop it names and leaves no try,      *)
(*    catch or finally block, unless it leaves an anonymous function;       *)
(*  - an else or elif follows its if in C, unless a try statement is between *)
(*    them, which gen_block() does not take for a statement: then there is  *)
(*    no if before it, or the one at the end of a finally block;            *)
(*  - a static call passes as many arguments as the C function has.         *)
CAccepts == bad \subseteq odd
=============================================================================
