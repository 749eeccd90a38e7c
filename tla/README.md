# A TLA+ verification of ripe

ripe is a small object-oriented language. The compiler (`lang/`) translates
ripe source to C; the C is linked with a runtime (`vm/`, `clib/`) and with a
library that is itself written in ripe with embedded C (`modules/`). This
directory holds TLA+ models of the parts of the compiler and of the runtime
that keep state over long sequences of operations, the TLC runs that check
them, and TLAPS proofs. Paths below are relative to the root of the repository.
`PROJECT.json` says for every definition which lines it models.

## Inventory

| Part | State | Operations | Interacts with | What makes it correct |
|---|---|---|---|---|
| Exceptions: `vm/stack.c`, the code that `lang/generator.c` and `lang/eval.c` emit | a thread-local array of handlers and annotations, `stack_idx`, `stack_unwinding`, `exc_obj`, `stack_backup` | function entry and `RRETURN`, opening and ending try, catch and finally, `exc_raise_object`, the unwinding loop, the report of an uncaught exception | C control flow through `setjmp`/`longjmp`; `obj_eq_klass` of `vm/klass.c` | no jump into a region that is over; the innermost handler that wants the exception gets it; finally blocks run and pass it on |
| Hash tables of Map and Set: `vm/builtin/HashTable.c`, `modules/Map`, `modules/Set` | buckets (empty, was full, full), keys, values, size | query, set, remove, clear, rehash, iteration | `op_hash`, `op_equal2` (`vm/ops.c`), `map_prime` (`clib/dict.c`) | a finite map; probing ends; size counts keys; loops are complete |
| Dict: `clib/dict.c` | buckets, size | set, query, expand, iterate | used by every table of the compiler and by the symbol and class tables of the runtime | a finite map; never aborts |
| Lexer: `lang/build-tree.c` over `lang/scanner.l` | current logical line, stack of indentations | `rc_lex`, called by the parser | flex below, bison above | START and END balance; blocks follow the off-side rule; reads stay inside the arrays |
| Parser and tree: `lang/parser.y`, `aster.c`, `tree-morph.c` | the tree | one pass each; `aster.c` walks over declarations | lexer, structure analysis | the grammar; what is declared is what is absorbed |
| Structure analysis, genealogy, start-up code: `lang/stran.c`, `genist.c`, `proc.c`, `cache.c` | tables of classes, functions, globals; a marker per class; the messages of `clib/util.c` | absorb declarations or a `.typ` file; depth-first search; write INIT1B and INIT2 | Dict, `riperipe/main.rip` for separate compilation | tracing ends, cycles and clashes are refused, nothing is lost on the way down; C values are declared before they are used |
| Code generator: `generator.c`, `eval.c`, `var.c`, `stacker.c` | scopes, nesting of loops and try blocks, `context_block` | one per statement | all of the above; a C compiler | names, labels and numbers of arguments agree with what the C compiler sees |
| Classes, objects, symbols, start-up: `vm/klass.c`, `Function.c`, `func-gen.c`, `sym-table.c`, `vm.c` | classes, fields, symbols, objects | registration in phases, lookup, fields, destruction, calls | Dict; modules in the order of a Map | objects have room for their fields; a destroyed object stays so; methods get the arguments they take |
| Buffers: `vm/builtin/Arrays.c`, `Tuple.c`, `modules/Array1`, `clib/array.c`, `structs.c`, `stringbuf.c` | size, capacity, memory | push, pop, insert, remove, index, slice, append, clear | `util_index` of `vm/util.c` | size <= capacity <= allocated; the memory holds what the calls amount to |
| UTF-8: `clib/utf8.c` | a pointer and a limit | read, write | strings | reading undoes writing, wherever the text is cut |
| Formatting, numbers: `format.c`, `ops.c`, `Double.c` ... | none | pure functions | | |
| Threads: `modules/Pthread` | mutexes, threads | | exception stack (thread-local), all tables (shared) | |
| Command line, bindings | none of their own | input and output | | |

The program is sequential except for `modules/Pthread`. What is hard to test
in it are long sequences: exceptions raised in handlers and finally blocks of
functions that are being unwound; removals, rehashes and iterations that
overlap; tables and arrays at the limit of their load; texts that dedent over
several levels or not to any; classes, modules and files that come in an order
nobody has tried, since the order is that of a hash table; statements nested in
each other so that what ripe and what C take for a scope differ.
`PROJECT.json` lists these under `hazards`, each at its line.

## Modules

| Module | What it is |
|---|---|
| `TryRegions` | the regions of generated C code, exception classes, `obj_eq_klass` |
| `TryCatch` | abstract: what try, catch, finally, raise and return mean |
| `ExcStack` | `vm/stack.c` and the generated code |
| `ExcStackProofs` | invariants; `ExcStack` implements `TryCatch` |
| `Probing` | `map_prime()` and quadratic probing in uint64 arithmetic |
| `MapSpec` | abstract: a finite map |
| `HashTable` | `vm/builtin/HashTable.c` |
| `HashIter` | a loop over a table that goes on changing |
| `ProbingProofs`, `HashTableProofs` | probing ends; invariants, and `HashTable` implements `MapSpec`; loops are complete |
| `Dict`, `DictProofs` | `clib/dict.c`; it implements `MapSpec`, does not abort while no key is set twice, and expands with copies too |
| `Lexer`, `LexerProofs` | `lang/build-tree.c`; blocks balance and follow the off-side rule |
| `Structure`, `StructureProofs` | declarations, `.typ` files, genealogy, start-up code; all of its properties |
| `Codegen`, `CodegenProofs` | scopes, C braces, labels and calls of generated code; all of its properties |
| `Buffers` | arrays, tuples and string buffers with their memory |
| `Registry` | classes and objects at run time, in the phases of `main()` |
| `Text` | UTF-8 |
| `LibraryProofs` | the properties of `Buffers`, `Registry` and `Text` |
| `MCExcStack`, `MCHashTable`, `MCHashIter`, `MCDict`, `MCStructure` | values of the constants for TLC |
| `MCLibrary` | `Buffers`, `Registry` and `Text` in one run; they do not interact, so a behaviour is one of one of them |

An operator whose comment begins with "Mutant" is a faulty version of the
definition below it; no specification uses it. It shows which property notices
that fault. Properties that have exceptions name them in their comment: each
exception is something the code really does, and is listed under `hazards`.

### Exceptions

`ctl` is the C control state: the sequence of regions (function, try, catch,
finally, report) that execution is inside of. `setjmp()` stores a position in
`ctl`, `longjmp()` cuts `ctl` back to it. `slots` is not in the code: it
remembers which element of `stack[]` each region was given, so that a jump buffer
whose region is over is told from one that another region happens to lie at. The
other variables are those of `vm/stack.c`, and popped elements stay in the array
as they do in C. An
exception object is its class, the only thing `obj_eq_klass()` looks at. The
environment runs any program: it calls, opens and ends regions, returns and
raises at will. One turn of the loop in `stack_continue_unwinding()` is one
step. In anonymous functions the code generator turns the last statement of
every block into a return, so control never falls off the end of a region
there; `InRegion` says so.

When no handler wants an exception, `stack_continue_unwinding()` sets `stack_idx`
back to `stack_backup` and prints a report. For an exception without a field
`text`, or with a virtual one, it calls `to_s()` or the reader, which are code of
the program: they push on top of the elements put back, and may raise, catch and
return (`UncaughtToS`, region `report`). An exception raised there and not caught
pops the elements put back as well. Those of functions and try blocks that are
still there are used again: an outer handler that has been passed by once, or the
finally block that has run, gets control. Those of regions that are over are
dangling jump buffers; what a jump to one does is undefined, and the model ends in
`astray`. `HandlersMirror` says when that can be: a finally block of the uncaught
exception has run, which left everything inside of its try block, and then `to_s()`
raises an exception that it does not catch.

Runs, with two classes, a child and its parent, nested four regions deep
(function, try, a handler or finally region, and one try, call or report in it:
enough for a finally block that is interrupted in every way, and to reach `astray`):

* `exceptions_any`: any program, with exceptions that have a text and that have none.
  `TypeOK`, `HandlersMirror`, `PopsOwn`, `FinallyRuns` and `UnwindingEnds` hold.
  `TypeOK` says nothing of the depth of recursion: no push looks at `STACK_SIZE`, and
  the model stops pushing there (`Room`). `UnwindingEnds` assumes weak fairness of the
  steps of the unwinding loop only: it is sequential code that waits for nothing. What
  the program does is not assumed to be fair.
* `exceptions_plain`: programs whose exceptions have a text, and with `PlainFinally`,
  which open no try block while a finally block is interrupting an exception, do not
  return from such a block, and use no finally in anonymous functions. `ExcStack`
  implements `TryCatch`, a finally block resumes what it has interrupted and nothing else
  (`FinallyResumes`: the refinement alone would let the program raise there),
  and a stack trace names every active function.
* `exceptions_finally` finds that without that restriction a finally block does
  not always resume the exception it has interrupted: `stack_unwinding` is one
  flag for all of them.

Deadlock is not checked: the model ends at its depth bound, at `exit(1)` and
`astray`.

### Hash tables

Keys are equality classes with a hash. `Place` computes with `WORD` in place of
2^64, so that sums wrap around as uint64 sums do. A probing loop is not
unrolled: `Stops` is the set of turns at which it would return, and the first
counts. `rehash()` and the loop of `dict_set()` are one step per turn, with the
old table in place. `rv` names the key that was asked for with the answer, so
that an answer about one key cannot pass for one about another. The sizes of
`map_prime()` are a constant; TLC uses 3, 5, 11 in place of 13, 31, 61, so that
few keys fill, collide and resize a table.

`HashIter` adds a `for` loop: the place `@cur`, and as history how often each
key was answered, which keys have been there all along, and whether the table
has got another size.

* `hashtable_set`: three keys that lie on one probing sequence in the largest of the
  three sizes and collide in the others, added, removed and cleared in any order,
  inside and outside of a loop over the Set.
* `hashtable_map`: assigning and overwriting four keys with two values, inside and
  outside of a loop over the Map; a Map has neither remove nor clear.
* `hashtable_negative` uses the table of 13 places as it is and 2^16 in place of
  2^64 (both are 3 modulo 13, so the places probed are the same). The key -1 is
  65535.
* `dict`: four keys set and queried in any order, with two values. The
  history variable `again` separates what holds as long as no key is set twice,
  which is how `vm/sym-table.c`, `vm/klass.c` and `lang/var.c` use a Dict, from
  what always holds. Deadlock is not checked: an abort ends the program.
* `dict_aborts`: 13 places, one key.

The bound on growth, `LargestSize`, stands for the last size that
`map_prime()` returns.

### Lexer

The text is any sequence of tokens, chosen one by one, that flex can deliver (no
white space directly after white space); it may end anywhere. Brackets are
counted by kind. Reading a token, completing a line and returning a token are
steps. The history variables `level` and `lines` record what the parser has
been given. Two places of the code read an array element that is not there; the
model stops in the states `past_end` and `underflow`.

The run `lexer` has texts of up to ten tokens with two widths of white space, of
which at most two are brackets, semicolons, ellipses or unknown: enough for three
indented lines, for dedents over two levels or to none, and for every way of
joining lines. `ReadsInBounds` says that the two reads out of bounds happen in
three named cases only. Deadlock is not checked: a text ends.

### Structure

The program is chosen declaration by declaration: class headers with parent and
mixins, ends of classes, properties, methods with their annotations, functions,
globals, embedded C. `stran_absorb_file()` is a second compiler that reads
the tables from a `.typ` file; with `--omit-typing` it then compiles the
same files without absorbing them again, else it goes on with other files.
`named` is the set of functions whose `FuncInfo` has its `ripe_name`: absorbing
sets that field, writing a `.typ` file uses it, and reading one leaves it unset.
Genealogy is traced one step of `genist_run_r()` at a time, `path` being its
active calls, and the classes come in any order, since their order is that of a
Dict. Then `proc_process_ast()` goes over the text again and writes what
`init1b` and `init2` record: values declared, methods registered, types cached,
classes linked. Names are full names and C names stand for them.

The run `structure` has three interchangeable classes (symmetry), one member
name, six declarations of which two are members, and three parents and mixins in
all: cycles of every length up to three, diamonds through a parent and a mixin,
and clashes. It checks that tracing ends (`TraceAdvances`, a measure that every
step of it decreases, so no fairness is needed), that recursion never meets a
class twice, with messages that name the classes on its way, and no accepted class
is its own ancestor (`Acyclic`), that what is accepted inherits all of its parents
and of its plain mixins (`Inherits`), each member in one way (`OneWay`), that no
NULL class is used (`NoCrash`), that a `.typ` file says what the files said, but for
the `ripe_name` of functions, which is lost, and which every function had when the
file was written (`TypesSurvive`), and that the start-up code declares before it uses, if parents
come first, and links classes after their pointers are cached (`StartupOrder`).
Deadlock is not checked: compiling ends.

### Code generator

The tree is any tree: statements are opened and closed freely, as `frames`.
`locals` is `locals_arr` of `lang/var.c`, `stacker` that of `lang/stacker.c`.
`cscopes` is what a C compiler will make of the text: the open braces, the C
function each belongs to, and the names declared in it. Every step compares the
two: `bad` is what the C compiler will not accept, or will take for something
else, in what was written last, and `odd` says whether one of the known reasons
for that is present. `stmts` keeps for every block what `gen_block()` takes for its
last statement and what the C code of it ends with; they differ after a try
statement. `CAccepts` says that there are no other reasons: names are declared where
they are used and once in a C scope, jumps stay inside and leave no try block, an
else follows the if it was written after, static calls pass the arguments that the C
function takes. An assignment to several targets declares a temporary of its own, as
a loop does for its iterator.
`ScopesMatch` says that every scope is closed by the end of its function and that
a variable is bound in one scope only.

The run `codegen` has one variable, one global, four statements inside
each other, and calls with up to two parameters and arguments: two nested
statements inside an anonymous function inside a function. The one variable is also
`self`: in a function it is a name like any other, in a method the parameter that
`@` is written with. The proofs hold with `self` apart from the variables, too.
Deadlock is not checked: an error ends the compiler.

### Library

The run `library` covers three modules, one of which moves while the others rest.

* `Buffers`: one buffer of one of five kinds is used in any order, with `ideal`,
  the sequence the calls amount to, kept next to it. `data` is the memory really
  allocated; `memory` is `exact` if the recorded capacity is that, `fresh` in an
  array of `array1_new()`, which records twice as much, and `broken` once
  something was written outside, or a binary text was appended. Two calls are
  taken for more than they are documented to be, and `Contents` says so: an
  `insert()` that raises an exception has appended the value, and a slice of all of
  an empty array has two elements that nobody has written. Buffers have up to five
  elements of two values: all kinds grow twice and shrink.
* `Registry`: three modules, one of them the program's, are initialised in any
  order in phases 1a and 1b; the declaration of the program's class is any one.
  Then two objects are made, written, read and destroyed; destructors call each
  other three deep and raise exceptions. `FieldLimit` is 2 in place of 1024, so
  that a class can reach it.
* `Text`: characters at both ends of the ranges of one to four octets are written
  to six octets of memory, up to three of them, then read from any place up to
  any limit; and up to three octets of any class, written by others, are read.

Deadlock is not checked: a program may stop, and ends after an error.

## Proofs

All theorems hold for every value of the constants under the named assumptions
of the modules. They are about safety.

Induction over numbers is done through the least element: if a claim failed for
some number it would fail for a least one (`WFMin` with
`NatLessThanWellFounded`). So what recursive functions compute is within reach.

**Exceptions** (`ExcStackProofs`). `Invariance` proves an inductive invariant, `IInv`.
`Framed`: every region knows the function it runs in. `Numbered`: within one report, or
outside of all, the numbers of the elements that functions and try blocks were given
(`slots`) increase with the position and leave no gap. `Filled` and `AllPushed`: the
elements up to `stack_idx` are those. `Owned`, `Intact` and `Overwritten`: a region whose
number no report has gone below still has its element, with its own handler and jump
buffer. `Exact`, in `Phase`: unless a finally block has run, what a report puts back is
the elements of regions that are still there. `HandlersMirror` alone is not inductive: a
return cuts `ctl` at the frame of the top region and the stack at the topmost annotation,
and that these agree needs `Framed` and the order of the elements; that what was popped
and put back can be jumped to again needs to know what has been overwritten meanwhile.
`TypeCorrect`, `MirrorCorrect`, `PopsOwnCorrect` and `FinallyRunsCorrect`
follow. For plain programs with `~ToS` a second invariant adds that `stack_unwinding` is
set exactly while an exception is in flight or interrupted, and that at most one
is; then every step of `ExcStack` is a step of `TryCatch` or leaves its state
unchanged (`Refinement`), and the flag is right at the end of every finally
block (`FinallyResumesCorrect`). `TraceCorrect` needs `BackupInv` in addition:
`stack_backup` is the depth at the last raise, not at the one that is printed, but
while a finally block interrupts an exception it covers all that is below the block,
whatever the block has raised and caught. That no push
goes past the array is a guard of the model (`Room`) because no push of the code
checks it.

**Probing** (`ProbingProofs`). The first (n+1)/2 turns look at different places,
because n is prime and divides no product (i-j)(i+j) of smaller numbers. So in
a table less than half full one of them meets a place that is not full
(`ProbingEnds`). Both need `NoWrap`: no sum hash + idx*idx reaches 2^64. That
holds of strings, objects and symbols, whose hash is a uint32, and not of
negative integers.

**Hash tables** (`HashTableProofs`). The invariant joins the types,
`SizeCounts`, `AllReachable` and, during a rehash, that the new table holds
exactly the keys before place `i` with their values. `SizeCounts` gives
`ProbingEnds` its premise, so `query()` answers a place, and `AllReachable`
makes that place the key's own if it has one. `Refinement` concludes that the
table implements `MapSpec`. For loops (`LoopCompleteCorrect`), which the property
describes at their end, the invariant adds `Progress`: the loop has met exactly
the places before `cur`. A step of the table keeps that because the keys that stay
in it stay where they are (`StaysInPlace`), unless the table is rehashed, and every
rehash changes its size: `Crowded` says that one is only begun by a table too small
for its keys.

**Dict** (`DictProofs`). Two invariants. The first says nothing once some key was
set twice. Until then each key has one bucket that probing reaches, `size` counts
them and is below half of the buckets, and an expanding table holds exactly the keys
before place `i`. So `ProbingEnds` applies before every search
(`OnceNeverAbortsCorrect`, `OnceExpandEndsCorrect`), and `size` is right
(`SizeCorrect`). The second holds with copies, and needs no `NoWrap`: all buckets of
a key have one value, and probing for it meets every one of them before an empty
place. `dict_set()` overwrites the copies it meets until the first empty place, which
by this is all of them; an expansion sets in the new table what is in the old one
before place `i`. `CopiesAgreeCorrect` and `MapRefinement` follow: as long as it has
not aborted, a Dict answers what a finite map would.

Room for the copies is counted. A `dict_set()` of a new key adds one key and one
bucket, of a key that is there two buckets, so full buckets and distinct keys are
together `2 * size` (`RoomInvariance`, an equality that TLC confirmed first). A table
of n buckets expands when 2 * size = n - 1, so with d keys at most n - d buckets are
moved, and a set fails only when a whole probing sequence, half of the new table, is
full. So an expansion to m > 2 * (n - d) buckets succeeds; and with one key it
always does, because all of its copies are on one probing sequence of the old table,
which has (n+1)/2 places (`HalfAtMost`). That is `WideExpandEndsCorrect`.
`ExpandEndsCorrect` is the case that needs no count of the keys: m >= 2 * n - 3
(`Doubling`). This hypothesis holds of the sizes of `map_prime()` up to 16381, that is
of a Dict with fewer than 8190 `dict_set()`s, and of the sizes TLC uses; TLC evaluates
both in `MCDict`. It does not hold from 16381 to 32749, nor at three later sizes: there
`WideExpandEndsCorrect` needs at least 7 keys (or one), and at most 17 at any size.
That fewer keys fill up the larger table is not excluded by counting alone, as their
probing sequences could overlap; it is left open. The same count says how long it
takes before `dict_set()` aborts (`AbortsLateCorrect`): not before 2 * size less the
keys has come within one of half of the table. The bound is sharp: four `dict_set()`s
of one key fill its probing sequence in the first table, and the fifth aborts, as the
run `dict_aborts` finds.

**Lexer** (`LexerProofs`). The indentations grow inwards (`IndentsGrowCorrect`):
the innermost is that of the last line except after the end of the text, when
blocks are closed while `prev_indentation` stays as it is; no line is read then.
For `BalancedCorrect` the invariant says that the END tokens that wait are the first
ones of their line and, with the indentations on the stack, account for `level`. For
`OffsideCorrect` it says that the indentation of a line to whose left no later line
begins is on the stack, at the height that is the level of the line. `ReadsInBoundsCorrect`
adds what a line that is read to its end may consist of.

**Structure** (`StructureProofs`). One invariant `SInv` for the tables, the markers
and the active calls of `genist_run_r()`: a ClassInfo is whole (its methods have
different names, `num_props` counts, virtual methods are among its methods); each
active call is for the parent of the one before it, and these are the classes marked
VISITING; a mixin of theirs is added or still to be; a VISITED class has inherited
everything and is never written to again. For `AcyclicCorrect` it says that every set
of VISITED classes has one whose parent is not in it, which a class that becomes
VISITED after its parent keeps true. `NoCrashCorrect` is the argument that a virtual
method is among the methods of its class, so that `add_parent()` has copied its name
and refuses it before it would use the NULL `class_info`. `TraceAdvancesCorrect`
compares what is left to do before and after each step. `TypesSurviveCorrect` uses
that `num_props` is the number of properties, that before tracing all markers
are UNVISITED, which is what `Read` makes of them, and (`NamedInv`) that as long as no
file was read every function has its `ripe_name`; a file is only written then (`NoLoad`). `StartupOrderCorrect` has an
invariant of its own, `OInv`: every class has one header, every method and end stands
inside of a class with no other header between, and every method that a class has,
inherited ones too, is declared in the body of the class it is named after, whose
header does not come later if parents come first. So at the end of a class all of its
methods lie behind, and what lies behind and is not from a `.typ` file is written.

**Code generator** (`CodegenProofs`). `CodeInv` says that the scopes of `lang/var.c`
nest like the statements, that the stacker follows the loops and try blocks, and
which C scope each scope of ripe was opened in (`Placed`), with its names declared
there or left there by a finally block (`Declared`), and which C function each C
scope belongs to (`OneBlock`); `StmtsInv` says of every block how what `gen_block()`
remembers and what the C code ends with may differ. `CAccepts` is a part of it, since `bad` and `odd`
are what the last step has found. `ScopesMatchCorrect` and `CAcceptsCorrect` follow.

**Library** (`LibraryProofs`). *Buffers*: unless the memory is broken, the first
`size` places hold the ideal sequence and, in a string buffer, a NUL after it, and no
NUL before it. The last part is needed because `strcat()` looks for the first NUL,
not for place `size`. Growing and shrinking never cut those places, for any length
and any texts. `CapacityCorrect`, `ContentsCorrect` and `OverrunCorrect` follow: a
write leaves the memory only where the recorded capacity is more than the real one.
*Classes and objects*: classes have different names, and the numbers of the fields of one
are apart from each other and inside of what is allocated, by induction over the
fields that the recursion has numbered. What may be
allocated in which phase gives `ObjectsFitCorrect`. An object is one of the
program's class, with what was last written to it (`FieldsKeepCorrect`), or it is
gone and of the class Destroyed, which has no destructor and no fields that could be
reached, so nothing brings it back (`GoneForGoodCorrect`). *UTF-8*: the written characters stand one after the other
without gaps, and every octet belongs to one of them, so a reader that starts where
one begins sees exactly its octets. Decoding what was encoded is arithmetic, in the
four cases of one to four octets.

Only model-checked:

* liveness (`UnwindingEnds`), which is outside of what the prover does. That a turn
  of the loop always leaves fewer elements or the loop itself is proved
  (`UnwindingAdvancesCorrect`), that the loop goes on is the fairness assumed;
* `ExpandEnds` of a `Dict` whose sizes do not satisfy `Doubling` and that has few keys,
  as said above: no run reaches such a table either;
* what the runs that find violations show, which are counterexamples.

## What disagrees

Three runs find that the code does not do what a test or an assertion of the
repository says; `PROJECT.json` quotes them under `findings`.

1. A try statement inside a finally block that interrupts an exception resumes
   it too early or loses it.
2. Negative integers as keys of a Map or Set can leave `query()` without a place.
3. `dict_set()` of a key that is there adds copies of it until the table aborts.

Other deviations are exceptions that the properties name: reads out of bounds in
the lexer, pushes onto full arrays of `array1_new()`, what a class inherits
through a mixin that inherits itself, variables of finally blocks and of anonymous
functions, jumps out of anonymous functions, an else after a try statement, a slice of
all of an empty array, an exception that the report of another one raises, fields from
number 1024 on.

## Not modelled

* What follows undefined behaviour: a jump to a dangling jump buffer (`astray`), a push
  past `stack[STACK_SIZE]`, a write outside of a buffer.
* Values of C locals (indeterminate after `longjmp()` when changed in a try
  block), the text of generated code (`%` in it, names that escape alike), and
  the C compiler's part.
* The bison grammar and the rewriting of trees: a reference for them would be the
  grammar again. Operators, literals and type checks of `lang/eval.c`.
* Formatting, floating point, reading of files, and the bindings of libraries:
  pure functions of the C library, or one foreign call per method.
* Threads: the exception stack is thread-local, but Maps, Sets, arrays and symbol
  tables are shared without locks and modelled for one thread. Two threads in one
  of them race, which in C may do anything.
* Values of globals while the modules are initialised; sorting and reversing of
  arrays, views, arrays of two and three dimensions.

The parts that have no module are listed in `PROJECT.json` with the reason.

## Plan

Done, in this order: exceptions, hash tables, Dict, the lexer's indentation;
declarations, genealogy and start-up code; scopes of the code generator; buffers;
classes and objects; UTF-8; the proofs about loops, buffers and Dict; the proofs
about stack traces, the lexer, structure analysis, the code generator, classes and
objects, UTF-8, and the refinement of Dict with copies; the count of the copies in a
Dict, and that expanding has room for them.

Left, by what it would add:

1. `ExpandEnds` for two to sixteen keys in the four tables that `Doubling` leaves out:
   it needs a bound on how many places the probing sequences of few keys share.
2. Two threads in `dsym_get()`, over a Dict whose steps are single reads and
   writes.
3. The order of initialisers over modules whose globals depend on each other.
