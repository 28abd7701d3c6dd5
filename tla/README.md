# Verification of aholyc

aholyc compiles HolyC to LLVM IR, C or JavaScript. This directory holds TLA+
models of the parts of it whose behaviour is hard to test, the TLC
configurations that check them on small instances, and TLAPS proofs of what
holds for every instance. Definitions carry the names of the C functions they
translate; `PROJECT.json` maps each of them to its lines.

## The system

| Component | State it keeps | Operations | What makes it correct |
|---|---|---|---|
| Driver, `src/aholyc.c`, `main.c` | options, output names | one call `aholyc_parseargv`: read, parse, emit, build, link, archive, run | outputs are this call's own; temporaries are removed; an error ends the call, not the process |
| Errors, files, commands, `src/util.c` | cleanup stack, allocation list, SIGINT disposition (process-wide) | `error`, `cleanup_push`/`pop`, `write_file`, `run_cmd` | every exit restores SIGINT and closes what is open |
| Formatter, `src/fmt.c` | the file at hand | `fmt`: read, rewrite, verify, write a temporary, rename | a source is never lost or half written |
| Lexer, `src/lex.c`, `lexhints.c` | include directories, `cwd` | `tokenize`, `search_include`, `lex_set_cwd` | search order; positions |
| Preprocessor, `src/lexpp.c` | macro list, remembered prefix, bracket depths | directives, expansion, `#if` evaluation | same tokens as the textbook algorithm; ends |
| `#exe`, `src/exe.c`, `runtime/exe.hc` | the loaded block, its stream position | compile, load and run a block at compile time | sees complete declarations only; leaves macro table and handles consistent |
| Parser, `src/parse.c`, statements | scopes, labels, `break_label`, the open switch and its groups | recursive descent to an AST; lowers loops, `break`, `switch` and its groups to labels and gotos | the AST means the source; what cannot be lowered is diagnosed |
| Parser, expressions | temporaries, types | precedence climbing; lowers chained comparisons, `op=`, `++`, subscripts and views; folds constants | the tree has the value and the effects of the source; operands are evaluated once |
| Parser, classes | known classes, the cursor `$$`, the alignment policy | `parse_class`: members, moves of `$$`, unions, parents | members lie inside the class, apart, and aligned |
| Exception analysis, `src/effects.c` | `can_throw` of each function, `try_mode` of each try | one fixpoint over all functions | exact: least set, so no handler is missing and none is superfluous |
| Native backends, `src/back_c.c`, `back_ll.c` | `try_depth`, lexical handler stack, whether the current basic block is open | emit C or LLVM IR for statements and expressions | the code implements the language, with one signedness for parser and backends |
| JS backend, `src/back_js.c`, `runtime/rt.js` | the blocks and labels of the function at hand (two fixed tables) | emit JavaScript, structured or as a block dispatcher; copy the artifact | the same |
| Runtime, `runtime/rt.c` | per thread: `Fs`, `hc_frames`, `hc_ntry` | `throw`, `PutExcept`, try push and pop; printing, memory, files | a throw reaches the innermost live handler |
| Threads, `lib/thread` | thread handles, mutexes, conditions, semaphores, spin locks | create, join, detach; init and fini; semaphore calls; POSIX or Windows wrappers | atomicity, no lost wakeup, nothing used before it is there or after it is gone, nothing leaked |
| Assembler, `src/asm.c` | – | text to text | – |
| Other libraries under `lib/` | – | allocators, containers, JSON, HTTP, terminals, widgets | – |

How they interact: the driver preprocesses the prelude and then each file; the
preprocessor calls itself for `#if` lines and, through `exe_run`, the parser,
the C backend, `run_cmd` and the dynamic loader in the middle of a file. The
parser's tree goes to `analyze_exceptions`, whose marks decide how the
backends lower each `try`; the emitted code meets the runtime's frame stack
when it runs. All errors leave through one `longjmp` to `aholyc_parseargv`.
Several instances may live in one process; instances share what belongs to the
process: files and signal dispositions.

Where it is hard: a compile-time analysis decides which run-time handlers
exist; three lowerings of `try` nest freely; the preprocessor keeps counters
instead of a stack and edits the list it is walking; a switch is lowered while
it is parsed, with the context of its groups in parser globals, and reaches
three backends as labels and gotos; errors jump over code;
threads interleave in the semaphore, and a new thread runs before its
creator has finished; an expression is evaluated by five pieces of code (three
backends, the constant folder, the evaluator of `#if`), each with its own idea of
types and precedence; a class's size is read wherever it is used, complete or
not. `PROJECT.json` lists the hazards at their
lines.

## The modules

**`ExcLang`** is the fragment of the syntax tree exceptions depend on; `WellFormed`
says what the parser guarantees of it, `Children` and `Shrinks` that it is made of
finite trees.
**`ExcSemantics`** is the promise of `doc/language.md`: one stack of executing
blocks, a throw goes to the innermost try. **`Exceptions`** is the
implementation in two phases. *analyze* is `effects.c`, one action per
iteration of its loops (`AnalyzeFn`, `AnalyzeAgain`, `AnalyzeDone`); the mode
of every try follows from it. *run* is the code both native backends emit,
one action per statement form (`Exec…`) and per end of a block (`End…`), over
the C stack `konts` and the runtime's `hc_frames`, `hc_ntry`, `except_ch` and
`catch_except`. A return pops frames as emitted, before its operand; a break
pops none; a jmp_buf whose stack entry is gone makes `throw` end in the status
`wild`. **`ExcConsumption`** adds a history variable: which catch blocks set
`catch_except` themselves.

**`SemaphoreSpec`** is an atomic semaphore. **`Semaphore`** is `thread.hc`:
each operation locks, tests, signals and unlocks in separate steps. The native
mutex and condition are external and modelled by what `thread.hc` relies on:
atomic release-and-sleep, a wakeup that must take the mutex again, spurious
wakeups, signals lost when nobody sleeps, and (optionally) a wait that fails.
A native call other than the condition wait does not fail. **`ThreadLife`**
extends `Semaphore` with the threads themselves: a main thread initialises the
semaphore, creates the others one after the other, joins or detaches each once,
and destroys the semaphore when it has joined them all; a thread may detach
itself instead, trying until it succeeds. `ThreadCreate` is `Prepare`, `Spawn`,
`StoreHandle` and `Publish`, so that the new thread may run before
`pthread_create` has stored the handle (POSIX promises only that it is stored
when the call returns) and before `joinable` is set. Every allocation and
every native constructor may fail. `Standing` starts with the threads detached
and the semaphore ready, for the long interleavings of calls.

**`Preproc`** is `lexpp.c`. The input is a sequence of items, tokens or whole
directive lines; `calls` is the stack of loops over a list: `lex_preprocess`
of the file, of the prelude, of a `#exe` block, and `pp_expand` of a `#if`
line. One action per directive, and `Expand`, `Emit`, `ToplevelCd` for tokens.
`Items` are the items a source may hold; every source, file, macro body and block
is a sequence of them (the runs take all that occur, `MCItems`).
An item `exe` says what its block prints, consumes and where it changes
directory: these are the effects of the callbacks of `exe.c`. Abstracted: the
characters; `#if` expressions beyond negation; `__FILE__` and `__LINE__`;
indentation hints. **`PreprocRef`** is the reference, a recursive one-pass
algorithm with a stack of conditionals and a table from names to bodies.

**`Driver`** is `parseargv` with `build_source`, the backends' `build`,
`exe_run`'s file work, and `util.c`'s `error`, `write_file` and `run_cmd`. A
request becomes a plan, the sequence of writes, commands, removals and checks
its options lead to; `Plan` has one operator per branch of `parseargv` and per
helper. One action per kind of operation, with its failure as a disjunct or
an action of its own (`SpawnFails`, `WaitFails`, `Check`). `run_cmd` is four
steps, so that ^C (`Interrupt`) and other instances can come between them.
A `#exe` block is compiled in a directory of its own (`mkdtemp`, which may fail;
`Removable`: `rmdir` fails while a file is in it). The code ignores what `unlink` and
`rmdir` return, so a file may refuse to go and stays in `stuck`; `fmt`'s own `unlink` of
its temporary is taken to succeed.
`fmt_main` is a plan too: for each file `FmtRead` (which includes formatting and
`ws_equal`, either of which may refuse the file), and with `-w` `FmtOpen`,
`FmtWrite`, `FmtRename`.

**`ControlTree`** is the syntax of statements and says which trees a backend may
be given (`Labelling`, `WellLabelled`). **`ControlLang`** is, as `Meaning`, what a
function body does: the events it produces for the inputs it reads. A goto leaves
everything and enters the body again at its label; of several matching cases
the first is taken; a case without a value continues from the previous one; a
case inside a `start:`/`end:` group is entered through the group's porch, a
`default:` is not. `Legal` says which bodies the language allows.
**`ControlParse`** is `parse.c`: `while`, `do`, `for`, `break`, labels and
`switch_stmt` with its groups become labels, gotos and selections, or an error.
Labels are named by where they are instead of by `label_counter`. The three
backends follow. **`BackC`** writes the lowered tree as text. **`BackLl`** makes
basic blocks and keeps track of whether the current one is open
(`ensure_block`); **`BackJs`** numbers the blocks of a JavaScript function that
has gotos, in tables of `MaxBlocks` and `MaxLabels`, and prints them as the cases
of one switch. Both emit step by step: `em` is the emitter (`LlGen`, `JsGen`), and
`todo` is what the calls of `emit_stmt` that have begun still have to do, the
innermost first: statements, and what a statement does after one of its bodies
(`Join`, `HeadOf`, `TestOf`, `LoopOf`, `IncOf`). There is one action per kind of
statement and per such rest. **`Linear`** holds what the two share: instructions, `todo`,
and the machine that runs the code, one action per instruction (`Exec…`).
`LlSpec(tree)` and `JsSpec(tree)` are a tree's way from emission to its end.
**`BackJsNative`** decides whether a JavaScript function can stay structured
and rewrites the clauses of its `for`. **`Control`** takes a program and a backend
from source to execution: it is refused (`Reject`), or emitted by the steps of `BackLl` or
`BackJs` and run by the machine (`EmitLinear`, `EmitLl`, `EmitJs`, `RunLinear`), or written
as text whose structure the host language executes, C and structured JS
(`EmitText`, `RunText`). Inputs are read one at a time and unknown before. Left out: the
inside of expressions, `try`, and labels defined twice or inside a porch.

**`ExprWords`** has types, words and little-endian memory. **`ExprLang`** is what
an integer expression means, read from the documentation without a parser: a
sequence of tokens is split at its loosest operator, comparisons are chains, a
compound assignment evaluates its place once, an assignment has the value before
truncation. **`ExprParse`** is the expression parser: `parse` climbs the
precedence levels and builds the lowered tree (temporaries for chains, `op=` and
`++`; scaled sums for pointers, subscripts and `.u8` views; types and
signedness), or an error. **`ExprConst`** holds `eval_const` and the evaluator of
`#if`, a second parser. **`ExprC`**, **`ExprLl`** and **`ExprJs`** are the emitters
of the backends by what the emitted text computes: the C one for both orders in
which a compiler may take operands and with the C type of each operand (`CType`: a
word, or C's `int`, half a word, for the value of a narrow assignment and what is computed
from it; `scalar_ctype` and C's promotions); the JS one with values that are numbers
or Booleans, variables that live outside memory unless their address is taken,
and 32-bit bitwise operators. A minus before a printed negative number is `--3` in JS and an
error there (`Decrements`; no expression of the run has one). **`ClassLayout`** is `parse_class`, one action per
item of a class (`Forward`, `OpenClass`, `MoveCursor`, `AddMember`,
`CloseClass`), with the class table that lets a class be used while incomplete, and defined again: a
second definition without `: P` keeps the parent of the first.
`DeclSeqs` are the sequences of items the grammar allows.
**`Expr`** composes them: the classes of a unit are laid out, its expression is
parsed or refused, then folded or run by one backend, and a `#if` reads the same
tokens. Left out: `F64` and power, calls, strings, class assignment, `@bits`,
narrow parameters, the nonnull and function-pointer checks.

The `MC…` modules hold the programs, sources and requests for TLC.

## The runs

| Run | Result | What it shows, and its bounds |
|---|---|---|
| `Exceptions` | pass | 4,500 programs of three functions and three externs: handlers in handlers, in loops, in recursion; direct and indirect calls; throwing and quiet externs; catches that consume, rethrow, throw or call. `TryMax` 3 is reached by recursion (the real 256 differs only in where it is reached), `MaxStack` 12 ends endless recursion as the process would. |
| `ExcLeave` | violation | findings 1 and 2: `return f()` in a try, and `break` out of one |
| `ExcNested` | violation | finding: one `catch_except` for all catches |
| `Semaphore` | pass | 3 threads, 4 calls between them, counts 0 to 2, maximum 2, one spurious wakeup, failing waits: enough for two sleepers, a double post and a thief that takes the unit before the woken thread. From the beginning: two threads that are both joined, that are joined and detach themselves, or that are detached by main and by themselves, with 2 calls (`LifeCalls`: a wait and a post, or two waits that meet a Fini) |
| `Preproc` | pass | every sequence of up to 4 of 12 conditional and macro items; of 6 nested-conditional items; of up to 3 of 19 others (includes, Cd, blocks, brackets); sources that end anywhere. Depth 2 conditionals with an `#else` in each branch need 6 items |
| `PreprocEnd` | violation | finding: look-ahead past the end |
| `Driver` | pass | one instance, two calls in a row, every mode and backend, `fmt` with and without `-w` on two files, every step failing, every removal refused or not, ^C anywhere, three initial SIGINT dispositions. Two calls let the second meet what the first left behind |
| `DriverThreads` | violation | finding: SIGINT with two instances |
| `Control` | pass | loops in loops with breaks, gotos into and out of them; every switch body of up to 5 items (cases, ranges, automatic cases, default, group marks, break, a statement); hand-made groups nested and in loops; on all three backends. Inputs from 0 to 2, so that a selector can miss every case and hit a range's end; 4 inputs are two rounds of a loop around a switch. `MaxGroups` 2 and `MaxLabels` 12 are small enough that a program exceeds them; the real limits are the same tests with larger numbers |
| `ControlFor` | violation | findings 6 and 7: the clauses of a `for` in structured JS |
| `Expr` | pass | some 3,700 expressions in up to three memories: every pair of operators with and without parentheses, pairs of signs, `++` and `--` on every kind of place (variable, array element, member, pointee, view), every assignment to every width and signedness, also as an operand of every operator, chains of three comparisons, things that are no place; on four machines (C in both orders, LLVM, JS). 6,200 units of one to three classes, also of one defined twice. A byte has 2 bits and a word 4 bytes (`ByteBits`, `WordSize`), so that narrow and whole words, signs, carries and shifts past the width all occur among 256 values; JS is exact up to 2^7 and its bitwise operators have 4 bits, in the real proportion (`JsExact`, `JsInt32`). Class sizes are the real ones |
| `ExprOddities` | violation | findings 8 to 11, in one unit |

In `Expr` the C `int` has half a word, so that what an `int` cannot hold occurs too.

`MatchesReference` leaves out sources with two `#else` in one conditional
(`lexpp.c` accepts them and documents nothing) and does not demand success of
a source with a `#exe` block, whose code may fail. The reference has the prelude
preprocessed again for a block, as `exe.c` does, so it does not object to what that does to
the program's redefinitions.

### Properties

* `FramesMatchStack`, `NoWildJump`: the frame stack of `rt.c` is the list of
  the dynamic try bodies on the C stack. `InnermostHandler`,
  `ImplementsHandlerSearch`: whatever mixture of lowerings, the right catch
  runs. `AnalysisExact`, `QuietFunctionsStayQuiet`: the analysis is the least
  fixpoint, and what it calls quiet is quiet when run. `AnalysisTerminates`.
  `SwallowOnlyClaimed`: a catch that ends normally has claimed its exception.
* `CountInRange`, `NoLostWakeup`, `ImplementsAtomic`, `SleepersServed`,
  `OperationsReturn` for the semaphore. `NothingStale`: a new thread finds its
  start record, a native join or detach gets a handle that is stored and not yet
  given up, and an operation finds the semaphore's objects, whatever the order.
  `AllReleased`: when main is done, whatever failed, nothing is leaked.
* `MatchesReference`, `OneLiveEntry` (undef really removes a macro),
  `PrefixComplete` (a block sees the longest complete prefix), `Terminates`,
  `NoCrash` for the preprocessor.
* `RunsAsWritten`: whatever the backend and the inputs, the events are those
  `Meaning` gives (in structured JS, for functions without the `for` clauses of
  findings 6 and 7; `AsWritten` is the same without that exception).
  `BlocksClosed`: every block, LLVM's and JavaScript's, ends in exactly one
  terminator, and what is jumped to is there exactly once. `Diagnosed`:
  the parser refuses exactly what the language does not allow or what exceeds
  its table of groups.
* `SigintRestored`, `DriverOutlivesChild`, `HandlesClosed` for the driver.
  `NothingLeft`: a call that succeeds without `-k` leaves its output only, and what the
  system refused to remove; it says nothing of what an error exit leaves.
  `RunsOwnBuild`: what `run` starts was built by this call and not by an earlier one; with
  one instance in the run it says nothing of two that share `.a.out`.
  `SourcesWhole`: a source that is being
  formatted is at every moment its old or its new text.
* `NativeAsWritten`: parsed, lowered and run by C or LLVM an expression has the
  value and leaves the memory `ExprLang` gives it, except in C where findings 8
  and 9 apply (`DeviatesC`: a negated negation, a narrow assignment that truncates, or one
  whose value is computed on past what an `int` holds); expressions whose meaning depends on the order of operands (not
  `Clean`) are left out. `JsAsWritten`: the same for the JavaScript subset, where numbers
  stay exact and the documented limits are not met. `ConstAgrees`,
  `DirectiveAgrees`: so does a folded constant, and a `#if`. Left out of `ConstAgrees` are
  casts to a narrow type, which `eval_const` ignores, division, remainder and comparison of unsigned words
  and `>>` with an unsigned right operand only, which it folds as signed ones, and shifts by the width or more,
  which have no defined result in the compiled program. `ExprDiagnosed`:
  the parser refuses what has no meaning and nothing else; forms it accepts beyond the
  documented ones, such as `+x = 3`, are not among the expressions.
* `MembersInside`, `MembersApart`, `StaysAligned` for class layout: no member,
  inherited ones too, begins below the memory that `sizeof` counts, and none ends above
  it unless the source moved `$$` back over it: `Rewound` looks at the moves
  the source made (`moves`), not at the size that came out. Members share bytes only
  where the source asks for it; what is aligned stays so in arrays, children
  and enclosing classes. `UnitAsDocumented` is these and `NativeAsWritten`
  without the exceptions for the findings.

Each property of a passing run has a mutant of the code that breaks it; the
mutants stand before the definitions they change.

### Fairness

`Exceptions!FairSpec` and `Preproc!FairSpec` assume that a sequential loop of
the compiler keeps going. `ThreadLife!FairLifeSpec` (as `Semaphore!FairSpec`)
assumes weak fairness of each thread's own steps inside an operation, what a preemptive scheduler and a mutex that is released
give; no fairness is assumed of callers, of main, of the start and end of threads, of spurious wakeups, or among waiters
for the mutex.

## Findings

1. `try { return f(); } catch {…}`: both native backends pop the frame before
   `f` runs (`back_c.c:738`, `back_ll.c:944`), so the catch is skipped.
2. `break` out of a dynamic try leaves its frame (`back_c.c:752`); the next
   throw jumps into a dead frame.
3. A try handled inside a catch block leaves `catch_except` set and swallows
   the outer exception too (`rt.c:45`).
4. A source that ends in `;;`, or is a lone `;`, makes `pp_toplevel_cd`
   dereference the null pointer behind the end token (`lexpp.c:386`).
5. Two instances in `run_cmd` at once can leave SIGINT ignored for good, or
   restored while the other's child runs (`util.c:206`, `util.c:228`).
6. In structured JS, a `for` whose first clause has two initialisers loses them:
   `for_clause` writes nothing for a block (`back_js.c:500`).
7. In structured JS, `p++` on a pointer as a `for` clause is written as it
   stands and advances by one byte, not by one element (`back_js.c:507`).

8. In C, `-(-y)` is written `--y` and decrements `y` (`back_c.c:557`).
9. In C, an assignment to a narrow place has the truncated value, against the
   documented pre-truncation one that LLVM gives, and what is computed from it is
   computed in C's `int` (`back_c.c:443`).
10. A child of a class with members below zero starts at the parent's size and
    forgets its lowest offset, so `sizeof` misses inherited bytes
    (`parse.c:2552`).
11. An array of an incomplete class is accepted with size 0, and so is an
    incomplete parent; what follows is laid over it (`parse.c:2617`).

Findings 1 to 4, 8, 10 and 11 were reproduced with the compiled program. Other
observations have no run:

* preprocessor: a `#exe` block resets the program's redefinitions of prelude
  macros, because the prelude is preprocessed again (`exe.c:113`); two macros
  that name each other, or a file that includes itself, are read for ever
  (`lexpp.c:600`, `lexpp.c:417`); division of the least integer by -1 and shifts
  by 64 or more in a `#if` are undefined in C (`lexpp.c:215`);
* parser: a label defined twice is accepted (`parse.c:1714`) and left to the C
  compiler or `llc`; the automatic case after the greatest integer overflows
  (`parse.c:1966`); `class A : A` makes `find_member` loop for ever; a packed
  child of an aligned parent is not padded; an integer minus a pointer becomes
  the pointer minus the integer; `eval_const` ignores casts; `+x = 3` and
  `x(I64) = 3` are accepted as assignments to `x`;
* backends: a pointer compared with a `U64` is signed in C and unsigned in LLVM;
  in JS `(a < b) == 1` is false, `&&` yields an operand, casts do not truncate,
  narrow variables that live outside memory are not truncated, and bitwise
  operators have 32 bits; a JS function with both `try` and a goto, break or
  switch is refused (`back_js.c:705`), although `doc/backends.md` maps exceptions
  onto the host's;
* driver: an error exit of `run` leaves the artifact behind (`aholyc.c:132`), one of a
  `#exe` block its directory (`exe.c:133`); two
  `run` calls in one directory share `.a.out` (`aholyc.c:413`), two `fmt -w` of
  one file its `.fmt.tmp`;
* threads: a thread that detaches itself before `joinable` is set gets FALSE and
  must try again (`thread.hc:113`); a Fini whose mutex cannot be destroyed has
  already freed the condition and can never be completed by another call
  (`thread.hc:272`); the locked bit operations are plain reads and writes on
  compilers without atomic builtins (`rt.c:586`).

## The proofs

| Module | Theorem | Statement |
|---|---|---|
| `ExceptionsProofs` | `TypeCorrect`, `FramesAlwaysMatch`, `NeverWild` | `Spec /\ []~BreakLeavesTry => []P` for `TypeOK`, `FramesMatchStack`, `NoWildJump` |
| `HandlerProofs` | `AnalysisIsExact` | `FiniteTrees` implies `Spec => []AnalysisExact` |
| | `QuietStaysQuiet` | `FiniteTrees` implies `Spec => QuietFunctionsStayQuiet` |
| | `InnermostReceives`, `LoweringImplementsSearch` | `FiniteTrees` implies `Spec /\ []~BreakLeavesTry /\ []~ReturnLosesTry => P` for `InnermostHandler`, `ImplementsHandlerSearch` |
| | `SourceStaysInTries` | `FiniteTrees` implies `Spec /\ StaysInTries => [](~BreakLeavesTry /\ ~ReturnLosesTry)` |
| | `SourceImplementsSearch` | `FiniteTrees` implies `Spec /\ StaysInTries => P` for all of the above but `QuietFunctionsStayQuiet` and `AnalysisExact`, which need no such condition |
| | `SwallowsWhatItClaimed` | `HSpec /\ []~NestedConsumption => SwallowOnlyClaimed` |
| | `SourceSwallowsWhatItClaimed` | `HSpec /\ ClaimsStayApart => []~NestedConsumption /\ SwallowOnlyClaimed` |
| `ThreadLifeProofs` | `SemaphoreTypes`, `CountAlwaysInRange`, `NoWakeupIsLost`, `SemaphoreIsAtomic` | `Spec => []P` for `TypeOK`, `CountInRange`, `NoLostWakeup`; `Spec => ImplementsAtomic` |
| | `LivesUseTheSemaphore`, `SemaphoreHoldsInLives` | `LifeSpec => Spec`, so all of the above holds in every life |
| | `NothingIsStale`, `AllIsReleased` | `LifeSpec => []P` for `NothingStale`, `AllReleased` |
| `PreprocProofs` | `PreprocTypes`, `OneLiveEntryPerName`, `PrefixAlwaysComplete` | `Spec => []P` for `TypeOK`, `OneLiveEntry`, `PrefixComplete` |
| `DriverProofs` | `DriverTypes`, `CallsCloseAll` | `Spec => []P` for `TypeOK`, `HandlesClosed` |
| | `SigintAlwaysRestored`, `ChildNeverOrphaned`, `SourcesStayWhole`, `NothingIsLeft`, `RunsWhatItBuilt` | the same with `One`, for `SigintRestored`, `DriverOutlivesChild`, `SourcesWhole`, `NothingLeft`, `RunsOwnBuild` |
| `ClassLayoutProofs` | `MembersStayInside`, `MembersStayApart` | for any `items \in DeclSeqs(Names)`: `LayoutInit(items) /\ [][LayoutNext]_layoutVars => []P` for `MembersInside`, `MembersApart` |
| | `MembersStayAligned` | the same for `StaysAligned`, with `Scale(B)`, `OnScale(items, B)`, `ParentsComplete(items)` |
| `LinearProofs` | `LlBlocksClosed`, `LlStaysInCode` | `WellLabelled(tree)` implies `LlSpec(tree) => []P` for `BlocksClosed`, `TypeOK` |
| | `JsBlocksClosed`, `JsStaysInCode` | `WellLabelled(tree)` implies `JsSpec(tree) => []P` for the same |

`WellOrder` has two lemmas they share: a nonempty set of numbers has a least
member, and a set of numbers closed under the successor is everything up to its
bound. With them an induction is over a set that is written down, where the
library's theorems would need an operator as parameter.

### Frames

For every program, function list, `TryMax` and stack bound. The hypothesis
excludes finding 2 and nothing else: no break leaves a dynamic try.
`FramesMatchStack` is not inductive, because a return or a throw removes many
entries at once. `IInv` records in each stack entry the value `lv` of
`hc_ntry` below it and the position `cp` of its activation, says how these
relate between neighbours (`Activations`, `Levels`, `Nodes`), and that frame
`m` is the entry that raised `lv` to `m`. Cutting the stack at any entry then
keeps the invariant if `hc_ntry` becomes that entry's `lv` (`CutKeeps`), and
each action is an application of that lemma or of its dual for a push.

### Analysis and handlers

`FiniteTrees` says that some measure shrinks from a statement to its children,
which is true of what a parser builds; without it `effect()` would not be a
function at all. In the model it is a recursive function over statements,
so the first lemmas show that it exists: for every `k` there is a solution of its
equation for the statements smaller than `k` (`PartialExists`), two solutions agree
where both are one (`PartialUnique`), and together they are `effect` (`EffectIs`).
From there on only the one-step equations (`EffectForms`) and monotonicity
(`EffectGrows`) are used.

*The fixpoint.* `AInv` says that what is marked is in every closed set that holds
the marked externs (so the least one), and that the functions already passed in
a round without change are closed. When a round ends unchanged, all are.

*The stack.* `Moves` and `StackMoves` reduce the fourteen kinds of steps to seven
(`Goes`: stay, cut, resume, nest, call, return a call, handle), so that each of
the invariants below needs seven cases; for each there is a lemma for a cut, for
a push, and for the frames a return pops (`…Cut`, `…Push`, `…Disarm`).

*Quiet functions.* `Hushed`: above a barrier, a try compiled without a handler or
the call of a quiet function, nothing left to do can raise an exception. This
holds whatever findings 1 and 2 do.

*The innermost handler.* Three more relations are needed. `Confined`: under a local
try no exception can come out of a call, unless a dynamic try lies between.
`Covered`: a try body whose frame a `return f()` has popped is covered by the
call of a quiet `f`. `Owned`: an activation's entries belong to its function. A throw
then meets a local handler exactly when that is the innermost (`Dispatch`,
`NothingSkipped`). The two hypotheses are findings 2 and 1, written as state
predicates: `BreakLeavesTry`, the statement to run is a break out of a dynamic
try; `ReturnLosesTry`, it is a `return f()` out of one with `f` not quiet. The
programs of the run `Exceptions` never reach either (`return f()` with a quiet `f`
they do), those of `ExcLeave` reach both, and neither hypothesis can be dropped.

*Refinement.* `SemRun` shows each step of the lowered program to be a step of
`ExcSemantics` under the mapping that forgets lowerings, frames, levels and marks;
the analysis steps and the overflow of the C stack stutter. A catch entered by
goto, by `longjmp` or by a rethrow is the abstract search by `SemSearch`, which
rests on `NothingSkipped`; running out of frames is allowed there because the
`TryMax` frames are as many try bodies (`SemTooDeep`, by the pigeonhole principle).

*The condition on the source.* `BreakLeavesTry` and `ReturnLosesTry` speak of
executions. `StaysInTries` is a condition on the text of a program that a compiler
could test, and `SourceStaysInTries` shows that it excludes both: no break, and no
`return f()` with an `f` that can throw, leaves a try body out of which the
exception of a call can come. It names three sets in place of a recursion over the
text: the functions `T` that can throw, the statements `B` that a break leaves and
those `R` that return such a call. `Tame` says that nothing left to do above a
dynamic try, up to the next loop or call (for `B`) or the next call (for `R`), is
in the set; the theorem follows since the frames between two entries belong to
dynamic tries between them (`FrameBetween`). All 4,500 programs of the
run `Exceptions` satisfy the condition.

*Consumption.* `NestedConsumption` is finding 3 as a state predicate: the statement to
run consumes an exception while two catch blocks are executing. Where that never
happens, `SwallowOnlyClaimed` holds for every program, with no condition on trees,
breaks or returns. In `CInv`, while `catch_except` is set, every catch block on the
stack is `Settled`: it has set the flag itself, or its activation evaluates the
operand of a return and never comes back to it. The second half is needed because
the operand may consume too; that it never comes back rests on `Operands` (above a
pending return there is only the call it waits for). A throw clears the flag, so
a new catch block starts unsettled with the flag down (`HandlesResets`, `FlagMoves`).
`ClaimsStayApart` is the condition on the text: a set `K` closed upwards over
containing and calling that holds every statement that consumes, and such a set `N` that holds
every try whose catch block is in `K`; no catch block is in `N`. `FreeOf` says
that inside a catch block nothing of `N` is left to do, and inside the second of
two nothing of `K`.

### Semaphore and thread lives

For any finite set of threads, any initial value and maximum that
`ThreadSemaphoreInit` accepts, any counts and bounds. The invariant adds types
and mutual exclusion to the range; the refinement maps the steps `signal`,
`unlock`, `return` to "done", so the effect happens at the one step that
changes the value under the mutex. `NoLostWakeup` counts threads: a step
that takes no unit back and wakes or keeps every thread that could take one
preserves it (`WakeupsKept`), and the library's facts about cardinalities say by
how much each set changes.

`LifeSpec` implies the semaphore's own `Spec`, step by step, so its theorems carry
over. For the lives themselves `LifeInv` says which native objects are there at each
place of main (`ObjectsThere`), what each thread still needs of its start record
(`StartThere`), that a thread is given up by one party only (`GivenUpOnce`), and which
threads main has come to (`MainThere`).

### Preprocessor

For every set of items and every source over it, with any includes, prelude and
blocks. `ItemsAssumption`, `TextsAssumption` and `DirsAssumption` say that bodies,
files and the texts of blocks are again sequences of items, which is what the lexer
makes of text. `PInv` describes the stack of loops: which kinds nest in
which, what each has still to read, that no loop's bracket counters or count of live
conditionals is negative. `OneLiveEntry` needs in addition that `find_macro` finds what
`#define` reuses (`Single`). For `PrefixComplete`, `Kept` relates the three counters to the
number of opening and closing brackets emitted, and a stray closing bracket to the flag
that the code sets.

### Driver

For every set of requests and sources and any number of calls. The plans
are sequences written down by `Plan`, so a first part proves what every plan looks
like: the operations in it and their files (`OpSet`), that nothing is unloaded
that was not loaded and nothing renamed that was not written (`Suffix`, `FmtShape`), that
what is made is removed later or allowed to stay (`Cleans`), that what runs was
made and checked before (`Runs`). Each is stated for a sequence and its concatenation and then
used for each branch. The second part is one invariant per property: `DriverInv`
(types, and which handle is open at which operation, for any number of instances),
`FmtInv` (who owns a temporary of `fmt`), `Left` (every file is old, allowed, in `stuck`
because its removal was refused, or removed by an operation still ahead), `OwnRun` (the program to run is made by an operation ahead or was
made by this call and survives until it runs).

`One` says that there is one instance. `DriverThreads` shows that `SigintRestored` cannot do
without it, and instances that share a directory disturb each other's files as
described below the findings. `SigintRestored` says nothing about the inside of `run_cmd`; the
invariant adds that inside it SIGINT is ignored and the saved disposition is the embedder's.

### Class layout

For every set of names and every sequence of items the grammar allows, without
`Expr` and its programs. `LayoutInv` keeps the members of each class above its lowest offset, in the order of their
offsets while `$$` only moved up, and its parents among the classes, a redefined class's too.
`Covered` bounds them from above: a member ends below the end of its class unless one of the
recorded moves put `$$` below the member's end after it was placed. `InheritedCovered` carries this along
the chain of parents; `Parents` is written
without recursion, as what lies in every set closed under "parent of", which is what
makes the chain accessible to a proof. The exceptions for the findings are in the properties
themselves (`Rewound`, `Below`, `Early`).

Alignment needs more. `Scale(B)` and `OnScale`: the boundaries of the unit are such that the
larger is a multiple of the smaller. They are the sizes of the basic types and what `@align`
accepts, powers of two only (`lexhints.c:54`). `ParentsComplete`: no class
inherits from one that is completed only later, which is finding 11. `AlignInv` then bounds the
boundaries of own and inherited members by the alignment to which the size is padded.

### Linear code

For every tree of any size and nesting, all inputs, and in JavaScript any sizes of
the tables. `WellLabelled(tree)` says what the parser makes: its statements are of the
kinds that are left after lowering, no label is defined twice, every goto has its label, and
the clauses of a `for` are expressions. `Diagnosed` checks it on the tree of every
program of the run `Control`. The parser does not guarantee the second part: a
source with a label defined twice is outside of the theorems, as it is outside of
the run (`parse.c:1714`, below the findings).

`BlocksClosed` speaks of the finished code only. What is kept while the tree is
emitted relates the code to what is left in `todo`. Each entry has labels it will place
(`Defs`: those its statement defines, those of a `Join` or `HeadOf`) and labels it jumps to
(`Uses`); `Work` says that no two entries place the same label. An entry that gives
way to its bodies and rests hands its labels over to them (`Piece`, `Pieces`), which is
where `DefinedOnce` is needed, and where structural induction would be otherwise: the tree
is consumed from the top, so one lemma per action (`Ll…Keeps`, `Js…Keeps`) is enough.

*LLVM.* `Ready`: the code so far is a list of closed blocks and one that is open exactly if
`block_open` says so (`Shape`); a label is in it at most once; every label it jumps to is
in it or will be placed by `todo`; labels made by the emitter have numbers up to `nlab`, so a new
one is new. Every function of the emitter is a `Steps` from one such state to the
next, and the actions are compositions of them.

*JavaScript.* Blocks are numbered when they are made, and filled later in any order.
`JInv`: a block that is not ended is the current one or waited for (`Waits`), by exactly one
entry of `todo` or label that is still to come; what waits is not yet ended. So when `todo` is empty only the
current block can be open, and `emit_func` ends it. One case does not follow the
pattern: `JsHead` jumps to the head of the loop without looking whether the block is open.
It always is, since only the clauses of the `for` have been emitted since `js_open`: that is `Led`.
`Printing` describes the cases of the switch that are printed so far.

`Control` reaches recursive operators (`Meaning`, `parse`), so the theorems are
about `LlSpec(tree)` and `JsSpec(tree)`. Their `LlStep`, `JsStep` and `Exec` are the
actions `EmitLl`, `EmitJs` and `RunLinear` of `Control`, and after `EmitLinear` `LlInit(todo)` or
`JsInit(todo)` holds. The machine then stays in the code because it is closed (`ExecRuns`). That
the code does what the source says, `RunsAsWritten`, is not proved.

### Only model-checked

* Every liveness property: `AnalysisTerminates`, `Terminates`, `SleepersServed`,
  `OperationsReturn`.
* `MatchesReference` (the reference is recursive), `RunsAsWritten` and `Diagnosed` of `Control`,
  and all properties of `Expr`: both sides are recursive operators over trees and token
  sequences, and `ExprWords` uses `Bitwise`, which the provers do not take. The class layout inside `Expr` is proved on
  its own, as said above.
* `NoCrash`, `AsWritten` and `UnitAsDocumented` are violated; what is true of them is in
  the properties of the passing runs. `SwallowOnlyClaimed` is violated too, and proved
  under the condition that excludes the cause.

## Not modelled

* Characters and tokens; `F64`, strings, calls and varargs, declarations of
  functions and variables, class assignment, `@bits`: pure and sequential, and
  covered by the repository's tests.
* The rewriting of text by the formatter, which the program verifies itself when
  it runs; the inline assembler (`asm.c`), which rewrites one instruction at a
  time and keeps nothing between statements.
* The JavaScript backend's use of the host's exceptions, its memory layout and the
  runtime chunks; the Windows wrappers; spin lock, thread-local slots, sleeping.
* `goto` out of a try, which the documentation declares undefined;
  `-fno-exceptions` builds.
* Printing, memory and files of `rt.c`; the libraries under `lib/` other than
  threads: clients of the compiler.

## Plan

Done, in order of importance: exceptions, semaphore, preprocessor, driver,
control flow, expressions, class layout, formatter, thread lives. What is left:

1. Theorems: that the linear code of a tree does what the tree means, by a simulation
   with `todo` in place of the program text, for trees without `switch`.
2. Models: the spin lock on `LBts` and thread-local `Fs`; `lib/alloc` arenas and
   pools and `lib/data/ht.hc`; calls with default and variable arguments; operand
   capture of the inline assembler.
