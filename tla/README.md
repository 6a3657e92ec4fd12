# Verification of atoz

atoz compiles SysY, a subset of C with integers and integer arrays, to RISC-V
assembly (or to the teaching languages Eeyore and Tigger). It is a sequential
batch program. What is hard about it is not concurrency between threads but
state that is computed in one phase and trusted in another, algorithms whose
outcome depends on the iteration order of unordered containers, assertions that
hold only because of an argument nobody wrote down, and the concurrency the
*generated* program has with itself: all calls in progress share one register
file. This directory models those parts in TLA+, checks them with TLC and proves
the main results with TLAPS.

Paths below are relative to `src/src/`.

## 1. The system

```
sysy.l / sysy.y      text -> syntax tree
tree_completing      names -> definitions, types, which definitions never change,
                     array shapes and initialisers (index_scanner)
gen_ir               syntax tree -> per function: a list of IrStmt with labels
peekhole             two local rewrites of that list, up to three rounds
for every function, in the order of the program (main.cpp):
  connect_all_cfg        next / prev of every statement
  regalloc               liveness, interference, colouring, argument fix
  report_destroyed_set   registers a call overwrites, room to save them in
gen_inst             IrStmt + places + destroy sets -> InstStmt per function
output_asm / output_tigger / output_eeyore
```

| Component | State | Operations | Correct when |
|---|---|---|---|
| statements and control flow, `back/ir.hpp`, `back/ir_misc.cpp` | statement list, labels, `next`/`prev` | `push_stmt`, `connect_all_cfg`, `defs`, `uses` | every path of the function is a path of the graph; everything read or written is reported |
| liveness, `back/regalloc.cpp` `propagate_alive_vars` | FIFO, in-queue flags, `meet_pooled_vars`, `alive_pooled_vars` | process a statement, requeue predecessors | it ends, and the sets are exactly the scalars some path reads before writing |
| register allocation, `IrFuncDef::regalloc` | graph with edges, removed edges and degrees; stack; `vreg_map`; `spillsize`; recommender | simplify, spill, select, argument fix | no assertion fails; one place per scalar; scalars alive together apart; arguments where the caller puts them |
| destroy sets, `report_destroyed_set` | `destroy_sets` by name, `callersavesize` | begin, look at a statement, end | the set covers everything a call may overwrite; the save area is large enough for what is saved later |
| instruction generation, `back/gen_inst.cpp`, `back/reg.cpp` | instructions of the function | one per statement class | the instructions do what the statement means, whatever else is alive |
| translation, `front/gen_ir.cpp` | `label_top`, `tempvar_top`, statement list | one per syntax node | the statements mean what the tree means; labels exist; temporaries are fresh |
| peephole, `back/peekhole.cpp` | statement list, previous statement | merge move, merge comparison | the list means the same before and after |
| tree completion, `front/tree_completing.hpp` | stacked symbol tables, `effectively_const` | one visit per node | uses find the innermost definition above; what is marked constant never changes |
| constants, `front/ast_calc_const.cpp` | cache per expression | `get_const` | a cached constant is the value the program would compute |
| initialisers and offsets, `front/index_scanner.cpp` | position, dimension, step | `calc`, `get_offset_bytes`, `get_value` | every initialiser lands where the language puts it; offsets are row-major |
| recognised library functions, `front/ast_hash.cpp`, `front/builtin_detection.hpp` | none | hash, hand-written code | the instructions compute what the function is named for, return, and overwrite what is reported |
| output, `back/codegen_*.cpp`, `front/codegen_eeyore.cpp` | text | one per instruction | immediates fit; frames are aligned and restore `ra` |
| scanner, parser, `main.cpp`, `main/gc.hpp` | text, files | | |

How they interact. Everything is called directly, phase by phase; the coupling
is through data left behind on shared objects. `regalloc` leaves
`alive_pooled_vars` and `meet_pooled_vars` on the statements, and both
`report_destroyed_set` (which counts the alive ones) and `gen_inst` (which saves
the meeting ones) use them. `report_destroyed_set` of a function reads the sets
of the functions above it and, if it calls itself, its own incomplete one; code
generation runs later and reads the complete ones. `callersavesize` is computed
with one formula and used with another.

## 2. Which behaviours are hard

The list of hazards in `PROJECT.json` gives them by line. In short:

* a worklist with flags (lost, duplicated or endless work);
* a graph whose degrees are kept by hand, taken apart in any order and coloured
  in the reverse order, with two assertions that depend on the whole history;
* a loop that repairs one argument at a time by renaming registers globally;
* sets that are stale while a function is being reported;
* moving parameters into registers that other parameters are still read from,
  saving registers in the order of an unordered set, storing the result before
  restoring the rest;
* peephole rules that rely on what the translator happens to emit;
* an analysis of constants that misses a way to modify an array;
* an initialiser walked by a recursion whose calls share three counters;
* arithmetic at its limits: offsets, words and frames that immediates do not
  reach, literals that are negated or shifted by, a shift for a division that
  rounds a negative dividend down;
* the stack of the generated program: `ra` saved outside of the frame, a frame or
  none by what the function turns out to contain, scratch registers inside of
  single instructions;
* three functions that are recognised and replaced by hand-written instructions,
  which list the registers they overwrite by hand.

## 3. Modules

| Module | What it models |
|---|---|
| `Ir` | one function: statements, what they read and write (`Uses`, `Defs`), where they lead (`CfgNext`), `CfgPrev` |
| `LiveSets` | the equation of a statement, `AliveOf`; what being alive means in terms of paths, `LiveIn` |
| `Liveness` | `propagate_alive_vars`: `Process` is one round of the loop, `Requeue` one round of the inner loop over predecessors |
| `ChaoticIteration` | the abstract specification: equations are re-established in any order, the result is announced when all hold |
| `Places` | registers and stack slots (`Preg`, `Vreg`), reachable statements, and what allocation promises (`Placed`) |
| `RegAlloc` | `IrFuncDef::regalloc` after liveness: `Simplify`, `Spill`, `Select`, `FixArg`, and the recommender |
| `Compiled` | programs of allocated functions, and the register sets of a call as the report and the generator compute them |
| `DestroySet` | `report_destroyed_set` function by function: `Begin`, `Look` (one statement), `End` |
| `Values` | what a program moves about: small integers, pointers into arrays, and what is neither |
| `GenInst` | the instructions of a statement, and what an instruction does to registers, frame words, the global scalar and arrays |
| `IrExec` | the abstract specification of a running program: every call has its own scalars and its own array, nothing is shared but globals |
| `Execution` | `DestroySet` followed by running what `GenInst` generates: one register file, a stack of frames |
| `Word` | words of `WordBits` bits, what the operators of the machine do to them |
| `RiscV` | the assembly instructions the compiler prints, on registers and memory; an immediate that cannot be encoded stops the machine |
| `CodegenAsm` | `output_asm` of every instruction that computes, moves or concerns the stack, and of the entry and return of a function |
| `FrameMachine` | the abstract specification of the stack: each call has a frame of words and a place to return to |
| `Frames` | calls, returns, stack accesses and pointers into frames, in any order, as the assembly does them |
| `OpSelect` | one operator: evaluated by the compiler (`Fold`), or given instructions (`Emit`) that are run (`Run`) |
| `BuiltinFuncs` | the hand-written memmove, multiply and set, run instruction by instruction |
| `Syntax` | syntax trees as tree completion leaves them |
| `GenIr` | `gen_ir` as operators from syntax trees to statements; it makes the functions the checks run on |
| `Operators` | what operators and relations compute, literals, `rel_invert` |
| `SourceExec` | what a tree means: a machine that runs it without translating it |
| `Peephole` | `peekhole_optimize` and its rounds: `MergeMov`, `MergeCond`, `Keep`, `EndRound`; then the body as it was written and the statements as they have become, run side by side |
| `Constness` | tree completion line by line: `Visit`, `Refuse`, `Complete`; then the finished program, run |
| `Initializer` | the abstract specification of an initialiser: elements named by indices, sub-arrays filled one after the other |
| `InitLayout` | `InitVal`: `Single`, `OpenList`, `CloseList` of `calc`, and positions of elements |
| `Fixpoints` | lemmas about recursive functions and sets that are iterated to a fixpoint |
| `GenInst_proof` | lemmas about the instructions of each statement |
| `RegAlloc_proof` | theorems about `Liveness` and `RegAlloc`, the two halves of `regalloc` |
| `Execution_proof` | theorems about `DestroySet` and `Execution`, which extends it |
| other `*_proof` | theorems about the module of that name |
| `MC*` | instances for TLC |

Correspondence. A scalar is its `reguid`; what is not register pooled is `Glob`
(a global scalar) or `NoVar` (a literal or a local array). Statements are
identified by their position, so that pointers to statements are numbers, and
`stmts.erase` of unreachable statements is represented by looking at `Reached`
statements only. Where the code iterates an `unordered_set` or takes its first
element, the model takes any: the order is unspecified and does change between
library versions. `find_colorable_node` returns the first node of low degree in
that order, and any node if there is none: `Simplify` of any node of low degree,
`Spill` when there is none. In `Liveness` predecessors are seen in textual
order, which is the order `connect_all_cfg` pushed them in. The union-find of
the recommender is represented by the root of each scalar.

In `Execution` the instructions of one statement are one step, because the
machine has one thread and nothing observes it between them. Values are the
integers below `Modulus`; one asymmetric binary operator, one unary operator and
the comparison stand for all operators, so that swapped, lost or stale operands
give another value (which instruction an operator becomes is `OpSelect`'s
question). A library function leaves junk in every register it may overwrite and
returns any value; what it receives is the observation `out`. A frame starts as
junk, and so do the caller's registers when `main` starts. A pointer names an
array - that of a call in progress, or the global one - and a word of it, so that
an access outside of every array, or through something that is no pointer, shows.
Instructions that may need a scratch register leave junk in it, as `FrameMachine`
allows; the loop of `IrLocalArrayFillZero` is written out as often as it is
taken. `GenGlobalInit` is what `IrRoot::gen_inst` puts in front of `main`, run
when the program starts.

`Frames` closes the gap below: the words of frames in `Execution` are what
`FrameMachine` promises, and the assembly keeps that promise with one stack
pointer, `ra` in the word above the frame, and immediates that do not reach
everything. Words are bytes of eight bits there, so that every limit is met by
small frames. Any instruction that concerns the stack may come next, as long as
pointers stay within the array they point into, do not outlive it, and a word
that is read as data was stored as data. What is below `sp` may be overwritten
at any return and by any library function.

`OpSelect` and `BuiltinFuncs` use the same machine. In `OpSelect` an expression
of one operator, with operands that are literals or in registers, is folded or
compiled; the compiler's own integers are as wide as the machine's, overflows in
it wrap, as they do in the builds there are, and a quotient that overflows traps.
`&&` and `||` occur as operators only when they are folded. The result is compared
with quotients and remainders as multiplication defines them, not with the division
that `do_binary_op` does. In
`BuiltinFuncs` constants of the code are made smaller with the words: the modulus
of multiply stays below half the range, the bits of a word that set uses below
the sign bit. The functions that are recognised are known by a hash of their text
only, so `ComputesWhatItIsNamed` is about what the instructions do, and not a
comparison with what they replace: memmove copies any number of words from one on,
multiply multiplies by any factor that is not negative. Outside of that nothing
is claimed to be right. memmove of no words stores one, because its loop tests at
the end, and multiply by a negative number does not return, as the second half of
`Terminates` says.

`IrExec` is mapped onto by reading each scalar that is alive in a call from where
its value is at that moment (`Holds`): its slot, its register, or the save area
of the call that is in progress. That every step of the machine is then a step of
`IrExec` says that saving, restoring, passing and placing are invisible.

In `GenIr`, operators and relations are the `fn` of a statement, `Zero` and
`One` are the literals the translation itself introduces (tests, short circuits),
and `Far` is the first offset that is no immediate. `Peephole` needs them; for
allocation a literal is nothing that needs a place, and `Liveness` and `RegAlloc`
take all of them to be `NoVar`. Offsets of elements are counted in words.

In `Peephole` the list iterators are positions, `last = 0` is `stmts.end()`, and
erasing an element shifts those behind it. The two runs that follow are of the
tree, as `SourceExec` understands it, and of the statements that translation and
rewriting made of it. They advance from event to event, an event being a call or
the return with its arguments, the global and the array: a call returns any
value, leaves any value in the global and writes to an array it is given, the
same for both runs, since the callee is the same. C leaves the order of operands
open. `SourceExec` fixes the order that the statements have: operands that
compute are evaluated left to right, those that are scalars are read last.

In `Constness` a program is the sequence of its lines in the order they are
visited, with blocks opened and closed by lines of their own: declarations of
globals, then one function. `Visit` looks up the names of a line, marks what it
modifies and opens, fills or closes tables. The program is then run, with any
input, and `Fold` says what was put in place of what it reads. Left out are
calls of other functions of the program, which would bring nothing but array
arguments (`GetArray` stands for those), two parameters that are the same
array, the checks of return statements, and array dimensions that are not
literals. Indices are always in range (`LinesAssumption`), and reading a variable
that was never set ends the run: its value is undefined.

In `InitLayout` the recursion of `calc` is a stack of its local variables, and
items (values and lists) are numbered as they come. `Initializer` knows no
positions: it counts indices like an odometer. Reading the flat table by indices
(`ScalarIndex`) is the mapping between the two, so that layout and access are
checked together.

## 4. Runs

| Run | Instance | States | Shows |
|---|---|---|---|
| `liveness` | 448 functions of two arguments and two locals: two of four statements inside each of seven shapes (branches, `&&`, loops with break, continue and return, nested loops, code after a return) between a first statement and a result | 41,826 | the worklist is consistent at every step, the result is exact, the loop ends, and it implements `ChaoticIteration` |
| `regalloc` | functions of two arguments and up to six scalars, three registers of which two pass arguments, two words of arrays | 10,698 | no assertion of the allocator fails in any order, scalars alive together are apart at every step, the loops end |
| `arg_reuse` | `int p(int a, int b) { putint(a); int x = getint(); b = x; return b; }` | | a violation, see section 7 |
| `execution` | programs of a leaf, a recursive function, a function with a loop of calls and `main`, and programs with an array passed to a function, a global array and a local one in `main`; one function of each placed in every way allocation allows with four registers and one slot; values below 3 | 350,669 | reported sets are exact through recursion, save areas suffice, what these programs do is defined (`Defined`), and the machine implements `IrExec` |
| `peephole` | 131 functions: a branch between statements, or a loop, with every relation, comparisons of comparisons, short circuits, calls, and operands that a call changes; loops left and restarted; a local array with an initialiser; a silent loop for every condition; values below 3 | 330,337 | after translation and up to three rounds a function makes the same calls with the same arguments and returns the same as its tree, and loops only where it did |
| `constness` | all programs of up to five lines (besides `func` and closings) out of 16, with two scalars and two arrays of two elements, values 0 and 1 | 1,751,939 | names mean the innermost definition, `break` the innermost loop, and what is folded is what would be read |
| `array_passed` | one array, filled by `getarray` and read | | a violation, see section 7 |
| `init_layout` | arrays of shapes `[]`, `[3]`, `[2][2]`, `[1][3]`, `[3][2]`, `[2][1][2]` and `[2][2][2]`, initialisers of up to nine values and lists | 19,807 | `InitLayout` implements `Initializer`; sub-arrays passed as pointers are in place |
| `list_aligned` | the same | | a violation, see section 7 |
| `frames` | five functions: frames of 0, 1, 3 and 6 words, leaves and not; up to three calls; a memory of 28 words; immediates up to 17 | 19,630 | the assembly implements `FrameMachine`; nothing is out of reach or out of memory |
| `op_select` | every operator, all operands of five bits as literals and in registers, the result in a register of its own, an operand's or a scratch register; immediates up to 7; `&&` and `\|\|` of literals | 385,632 | operators compute what C says, but for the documented rounding of a shift |
| `builtin_funcs` | memmove of -1 to 4 words between any two places, overlapping or not; products of five residues with every word; every bit, and the first ones behind the set, set to 0, 1 and 2 | 434,173 | the functions copy, multiply and set a bit, return but for a negative factor, and overwrite no more than they report |

The bounds. Three registers and six scalars are enough for every kind of step of
the allocator: scalars are spilled, recommendations are taken and refused,
arguments collide. With four registers, one is preserved by callees that do not
use it (`s0`), one is not preserved by the library (`t2`), and two pass arguments,
so that both kinds of saving, both directions of collision between parameters and
result registers that are also saved occur. Recursion is unbounded in the source,
but `f` returns once its second argument is the literal, and with values below 3
negation brings it there within three calls; the loop of `h` ends when its
condition does and is followed for every value `getint` may return. Values below
3 let every relation differ from every other one. Five lines are a hidden
definition, an inner block that assigns and a use behind it, or a loop with an
assignment below the use. Nine items fill the largest array and still leave one
list, or nest lists as deep as there are dimensions. An array of four words has
words below and above `OffsetLimit`, one that is written through a passed pointer,
and one that is only initialised; `FarOffset` is 2, so that an array of three words
has one that needs a pointer. In `frames` a frame of six words
(32 bytes) is out of the reach of immediates, and so are its words from the fifth
on, while one of three words is not; only the first and the last word of a frame
are accessed (`Ends`), because those are the neighbours of others. `Forget` writes
the one value 0 below `sp`; since the word of `ra` never is 0, that is enough to
lose it. With `MaxDepth` 3 there are two callers above a running function. Five
bits have all cases of sign, overflow, immediates and exponents. Deadlock is
checked in every run but `op_select` and `builtin_funcs`, which end with a result;
the others have an explicit final step or none.

Fairness. `Liveness` and `RegAlloc` are loops of a sequential program, so weak
fairness of the whole next-state relation is what running the program means; it is
used for `LiveTerminates` and `Terminates` only. The same fairness in `Peephole` serves `Follows`, which
says that the statements reach an event whenever the body has; `Next` is
deterministic there but for the outcome of calls. In `BuiltinFuncs` it is the next
instruction being executed.

Each property has a mutant, a definition named `<Definition>_<Defect>` next to
the one it replaces, in which a plausible slip makes the property fail.

## 5. Proofs

All theorems hold for every value of the constants that satisfies the named
assumptions. Those say what the phases before guarantee, with one exception that
follows the list:
`FuncsWellFormed` (labels that are jumped to exist, the last statement does not fall
through), `FuncsAssumption` (the same of what the peephole pass is given),
`RegsAssumption` (argument registers are distinct allocatable registers),
`InputsAssumption` (no more parameters than argument registers),
`ProgramsAssumption` (calls go to the library or upwards with the right number of
parameters, alive sets solve the equations, the library may overwrite all argument
registers), `PlacesAssumption` (allocation has placed the scalars: arguments that
are read where the caller puts them, others in registers or in words behind the
arrays, none at the place of another that is alive; nothing else is alive where a
function starts), `StatementsAssumption` (statements have the operands of their
classes, and functions return a value where a caller expects one), `MainAssumption`
(`main` is the last function, has no parameters and is not called),
`RegistersAssumption` (scratch registers are not allocated), `KindsAssumption`
(numbers name scalars only, and the kinds of other operands differ),
`ValuesAssumption` and `GlobalsAssumption` (the numbers the model computes with, and
a global array with an initial value for each word), `LinesAssumption` (see section
3), `ShapesAssumption` (dimensions are positive), `FramesAssumption` (the stack has
room for `MaxDepth` of the largest frames, an immediate reaches the next word, and
pointers are computed in a register other than the two scratch registers).

The exception is `PlacesAssumption`. That arguments are read where the caller puts
them is guaranteed by allocation where the used arguments are alive together
(`ResultIsPlaced`), and not otherwise: finding `arg_reuse` (section 7) is a function
for which the allocator ends without it. The theorems of `Execution_proof` are about
the programs that were placed rightly.

`Fixpoints`. Much of the code is loops over data, and what they compute is defined
in the models by recursive functions. The library's induction theorems cannot be
used (they take an operator), so induction is by the smallest counterexample,
for a set of numbers: `InductionOverNat`, `InductionUpTo`. With them
`IterationExists` and `LoopExists` show that a recursive function is what its
equations say, and `IterationInside` and `IterationEnds` that a monotone step
applied as often as there are elements has reached its least fixpoint. The proofs
below cite these.

`RegAlloc_proof`, first part: the liveness analysis. Type correctness; then
`WorklistConsistent`, whose induction needs that a statement is appended only when
its flag is down and the flag of the head goes down with it. `SettledUnlessQueued`
is inductive with it: processing a statement changes the equations of its
predecessors only, and those are in `todo` before they are in the queue. At the end
`todo` and the queue are empty, so all equations hold. `LeastSolution` states that
sets stay below every solution, by monotonicity of `AliveOf`.
`WorklistImplementsChaotic` maps `Process` to `Solve` and `Requeue` to a stutter,
except that the last of them announces the result. `FinishedIsExact` is the other
half of `LeastSolution`: the result equals the paths on which a value is read before
it is written, which `LiveSets` defines without equations. The sets of paths up to a
length are an iteration, which ends before the length it is cut off at; its end
solves the equations, so the least solution is below it, and it is below every
solution by induction over lengths.

`RegAlloc_proof`, second part: allocation. The inductive invariant adds to the
checked invariants that a scalar on the stack had fewer than `K` neighbours *above
what was removed before it*: among the nodes still in the graph when it was pushed.
Those are exactly the neighbours that can already be coloured when it is popped,
because the stack reverses the order; hence a register is left. Removed edges are
symmetric with the remaining ones, so the colours of popped neighbours are all
looked at, which gives `NoConflict`; swapping two registers everywhere is a
bijection on places and keeps it. `SacrificeExists` follows from counting: arguments
alone are at most `MaxArgs` nodes, so one of them has fewer than `K` neighbours.
`ArgsPlacedIfMeet` is the argument fix under the condition that the used arguments
interfere with one another: then no two are in one register, and the swap for one
argument touches no register of an earlier one. `GraphAlwaysConsistent` is a part of
the invariant. `ResultIsPlaced` joins the phases: where the used arguments are alive
together, `RegAlloc` ends with places that satisfy `Placed`, which is what
`PlacesAssumption` asks of the programs the back end is run on. That the first
statement is reached (`EntryReached`) follows from the length of a function being
enough rounds for `Reached`.

`Peephole_proof`. `TypeCorrect`: from every list of statements, after any number of
rewrites, each jump has its label and no statement falls off the end, and a run of
the statements that are left stays among them. The invariant (`ListOK`) spells
`WellFormed` out by position. `ErasureOK` carries both merges: what is erased is no
label, so jumps keep theirs, and it falls through, so it was not the last statement
and the one that is now last did not fall through before. Its one hypothesis beyond
the assumptions is that no offset was too large to begin with (`OffsetsOfFuncs`).
`OnlyResultsAreMerged` is about what the code takes for granted when it merges. Its
hypothesis, `Temporaries`, says how translation uses temporaries: each is read by
one statement, and a move or a test of one that follows a computation follows the
one that computes it. The run evaluates it on every function that is translated
there. It is an invariant of the rewriting as well: what is erased was read by
nobody else, the merged statement ends up with the result that the next one begins
with, and the operands of a merged comparison move to the jump.

`Execution_proof`, first part: `DestroySet`. The invariant says that what was
counted for a call is never less than the working registers of its caller that are
in the *current* set of the callee (`Counted`), that a reported function's set holds
all registers it uses itself (`OwnReported`), and type correctness. The interesting
step is `End`, which replaces the set a function had while its own recursive calls
were counted by a larger one: the working registers at these calls are registers of
the function itself and were in the smaller set already. `SaveAreaAlwaysSuffices`
then needs that everything saved stands in a register of a scalar alive before the
call: a register wanted afterwards does because the result's own register is
excluded, and a colliding parameter does because its register passes an earlier
parameter and so is in the callee's set. `ReportIsExact` says that the final sets
are those of all functions that calls lead to, through recursion. What is known at
each moment (`Collected`) are equations between the sets, true of a function once it
has ended; at the end they hold of all, and the functions that are reached by calls
are an iteration again.

`Execution_proof`, second part: `CodeImplementsMeaning`, the refinement of `IrExec`
by `Execution`. Whatever the program, the placement of its scalars, the order in
which registers are saved and the depth of calls, every step of the machine is a
step of the meaning, or none (the report, and nothing else). Its one hypothesis
beyond the assumptions, `Defined`, is about the program, not about the compiler:
arrays are accessed within their bounds, and what is stored or returned was computed
from what had been set. Run `execution` checks that its programs are like that.
Without it a store through a wild pointer could hit the word of another scalar, in C
as here. The proof has these layers.

* Sequences of instructions (`GenInst_proof`, as are calls). What `GenInst`
  generates is run by a fold over instructions, so code that is put together does
  one part after the other. For each class of statement one lemma says what its
  instructions leave in registers, in words of the frame and in globals: the result
  is where the scalar lives, only scratch registers and, for a spilled result, its
  slot have changed besides. The operands are read before anything is written, also
  when the store of a result rewrites the instruction before it.
* Calls. Saving is a bijection between the registers in `meet` and the words above
  `spillsize` (there is room because of `SaveAreaSuffices`); parameters end up in
  argument registers although they may be moved from ones already overwritten,
  because those were saved first; restoring does not touch the result, whose
  register is not saved.
* The stack. The inductive invariant is `Report` (what is known of sets and room,
  from the first part) and `Executing`: each call in progress has a frame of the
  size it was compiled with and is at a reachable statement, and each but the last
  waits for the one above it, with the registers saved that `MeetRegs` lists, in any
  order. The sets of registers shrink from caller to callee, since the set of a
  function contains those of its callees (`Collected`). This is why a call that
  waits, however deep, finds what it still needs (`WaitingHeld`): in words of its
  own frame, which others do not write, or in a register that is in no set of what
  it waits for.
* Liveness. A step leaves the meaning's scalars as they were because what is alive
  after a statement and not written by it was alive before it (`AliveOf`), and a
  result is at the place of no other alive scalar (`Apart`). Pointers reach arrays
  only, and arrays are below all slots.
* The steps, `ExecStep`: one lemma for each disjunct of `Next` shows the step of
  `IrExec` it is. A call binds parameters to what is in argument registers, a return
  takes one frame away and makes the words of the saved registers the registers
  again, `Compile` is invisible, and the initialisation of the global array and the
  start of `main` are one step of the meaning.

`ExecutionTyped` adds that globals hold values and no addresses (`GlobalsHold`),
by the same hypothesis.

`Constness_proof`. Programs of any length, blocks of any depth. While a tree is
visited, `Good` says what the stack of tables is in terms of the text: each table
belongs to a block the line is in, and depths grow with them (`Blocks`); it has
the last definition of each name in that block, and no block has two
(`Names`); its loop is the `while` the block was opened by (`Loops`); parameters
are the lines after `func` (`Function`). There is one lemma for each way a line changes
the tables: `BlocksPush`, `BlocksPop`, `NamesPut` and so on. `VisitTables` joins
them. From this `LookupIs` and `LoopIs` conclude that the innermost table with a
name has its last definition around, which `Bound` remembers for each line, and
`NamesResolve` and `JumpsResolve` follow.

For the run, `Typed` says what accepted lines are like: definitions exist, indices
fit, and what an assignment modifies, and every parameter, is marked. That blocks
are closed (`ClosedIs`, `OpenedIs`) keeps jumps inside of the text, hence
`TypeCorrect`. `ConstNeverWritten`: what is still marked constant is written by its
own declaration only. `ConstantsAreRight`: what `get_const` found is what is read
(`FoldSound`). Its invariant, `Faithful`, relates the elements of constants to the
contents of the store; declarations keep it because an initialiser is folded with
the definitions before it only (`FoldAllIs`), whose values have been right so far.
Both theorems have the hypothesis `ParamsPassed`, that arrays passed to the
library are parameters. It is true of the lines of run `constness`, and finding
`array_passed` shows that they are false without it.

`InitLayout_proof`. `NeverGoesBack`: no element is given two values, and values are
laid out in the order they are written, for every shape of positive dimensions and
every initialiser, aligned or not. The invariant is that nothing from `calcpos` on
was given a value; `CloseList` keeps it because it moves `calcpos` to the end of the
list only if that is not before it. It needs `calcstep` and what the calls remember
to be natural numbers, and one call per dimension (`CallsTyped`). `TypeCorrect` and
`AlwaysPassedInPlace` add that sizes are products of dimensions (`Sizes`).
`InitialisersMeanWhatTheySay` is the refinement of `Initializer`. Its mapping takes
a position to its indices, which are its digits in the mixed radix of the shape
(`Digits`); `ScalarIndexLoop` is the inverse. A value moves the last digit, with
carries, and a list that ends adds one to the digit of its dimension and clears
those after it. Items that are not aligned have no meaning in `Initializer`, and may
do anything from there on.

`Frames_proof`. One lemma for each sequence of instructions (`StoreStackDoes`,
`EntryDoes`, ...) says what it leaves in registers and memory, the same whether or
not its immediates reach; where they do not, the scratch register is overwritten,
and nothing else. The inductive invariant has three parts. `Layout`: each frame is
below the one before it by its own size, aligned, and none has used more than its
share of the stack; only the last can be a leaf. `Contents`: words are data, what is
below `sp` will be when a frame is laid over it, and the return address of each call
is where its function's end looks for it, in `ra` for a leaf and just below the
caller's frame for the others. `Pointers`: what the pointer register holds points
into a frame that is there. `TypeCorrect` follows. `FramesAreTheirOwn` is the
refinement of `FrameMachine`. No two frames share a word (`WordsDiffer`), so an
address stands for one word of one frame, and a store changes one word there; a call
adds words above which nothing changes, and a return takes the last ones away
(`KeptFrames`). Pointers in a scratch register, where the code has those of local
arrays and those it loads from the stack, for a single access, are not covered.

Only model-checked: termination and `Follows` (liveness is out of the prover's
reach), that translation and peephole keep the meaning of a function (`SameEvents`:
translation is written with recursive operators, over trees), and the results of
`OpSelect` and `BuiltinFuncs`: `ComputesOperator`, `DivisionRoundsDown` and what the
hand-written functions compute are about products, quotients and shifts of words,
arithmetic that is not linear and that the provers do not do.

## 6. What is not modelled, and the plan

Not modelled for good: scanner and parser tables, which are generated; text
formatting, the Eeyore and the Tigger output, which change no state; deallocation;
the hash that recognises functions, which is arithmetic on strings, and whose
functions are not in the repository; the addresses of globals, which assembler and
linker fill in.

Left out of modelled parts, each with the assumption that says so:

* `main` called by the program would initialise global arrays again
  (`MainAssumption`);
* functions with more than eight parameters are outside the back end
  (`test/test-riscv.py` skips the tests that have them): `InputsAssumption`;
* a program that reads a variable it never set has no meaning
  (`PlacesAssumption`: nothing but arguments is alive where a function starts);
* an array dimension of zero, which `index_scanner.cpp` accepts and then divides
  by (`ShapesAssumption`), and constant indices outside of an array
  (`LinesAssumption`), which read outside of the compiler's own table;
* more than 10000 definitions, whose numbers would be taken for arguments: no
  small instance gets there;
* the time at which a constant is cached (`AstExp::get_const`): the shape of an
  array is asked for when its declaration is visited (`index_scanner.cpp:18`). By
  the rules of the language only `const` definitions occur there, and those are
  never taken back. The compiler does not enforce that: `ast_calc_const.cpp:55`
  takes any definition that no line so far has modified, and the result stays
  cached when a later line does. Programs that break the rule are not modelled;
* `main` uses preserved registers without saving them, as every function does;
  the runtime that calls it is not part of the repository.

In this order, what could follow:

1. `Constness` with calls of user functions and array parameters that are aliases.
2. `gen_ir_init_global` and declarations, joined to `InitLayout`.
3. Proofs: `OnlyReported` of the hand-written functions for words of any width; pointers
   in scratch registers in `Frames`.

## 7. Findings

`arg_reuse`. The loop marked "check args" at the end of `regalloc` puts each
argument into its register by swapping two registers throughout the function. If
two arguments were given the same register, which happens when one of them is
written before it is read, the second swap takes the register away from the first
argument. In `p` above both arguments may be given `a0`, because the call of
`getint` recommends `a0` for what ends up in `b`; `b` is moved to `a1` and `a`
with it, and the generated code prints the second argument in place of the first.
`ArgsInPlaceIfMeet` is the exact extent: where used arguments are alive together,
which holds for arguments read before they are written, the loop is right.

`array_passed`. What is "effectively constant" is declared with the comment "MUST be
sound by analysis" (`front/ast.hpp`). An assignment marks what it modifies; a
function that an array is passed to is meant to, in `visit(AstFuncUseParams)`,
but `visit(AstExpFunctionCall)` visits the arguments itself and never gets there. In

    int main() { int a[2]; getarray(a); putint(a[1]); return 0; }

`a[1]` is replaced by 0. Apart from arrays that are passed, `FoldSound` holds: in run
`constness` the arrays passed to the library are parameters, which are never taken
for constant, so it is `array_passed` alone that shows this hazard.

`list_aligned`. `calc` refuses a list that is "not aligned across dimension", but
compares its start with the size of the list's items instead of the list's own, in the
innermost dimension with one. `int a[2][2] = {1, {2}, 3};` is laid out as
`1 2 0 3`, the list covering the end of one row and the beginning of the next.
Where lists start at sub-arrays, the layout is right: `ImplementsInitializer`.

## 8. Running

```
tlc -workers 2 -config MCLiveness.cfg MCLiveness
tlc -workers 2 -config MCRegAlloc.cfg MCRegAlloc
tlc -workers 2 -config MCArgReuse.cfg MCRegAlloc        (expected violation)
tlc -workers 2 -config MCExecution.cfg MCExecution
tlc -workers 2 -config MCPeephole.cfg MCPeephole
tlc -workers 2 -config MCConstness.cfg MCConstness
tlc -workers 2 -config MCArrayPassed.cfg MCConstness    (expected violation)
tlc -workers 2 -config MCInitLayout.cfg MCInitLayout
tlc -workers 2 -config MCListAligned.cfg MCInitLayout   (expected violation)
tlc -workers 2 -config MCFrames.cfg MCFrames
tlc -workers 2 -config MCOpSelect.cfg OpSelect
tlc -workers 2 -config MCBuiltinFuncs.cfg MCBuiltinFuncs
tlapm Fixpoints.tla
tlapm RegAlloc_proof.tla
tlapm Peephole_proof.tla
tlapm Constness_proof.tla
tlapm InitLayout_proof.tla
tlapm Frames_proof.tla
tlapm GenInst_proof.tla
tlapm Execution_proof.tla
```

The last one takes a quarter of an hour, the others a few minutes each.
