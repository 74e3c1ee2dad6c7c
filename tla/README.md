# A TLA+ model of the LPL compiler and its runtime

LPL is a small language in the C family with classes, RAII, `owner` pointers,
`defer`, exceptions, generics and lambdas. `lplc` (C++, `src/src/`) translates
it to LLVM IR; a C runtime (`src/runtime/`) and a standard library
(`src/stdlib/`) are linked to the result. What an LPL programmer relies on and
cannot see is that every object is destroyed exactly once, every deferred
statement runs exactly once, and an exception reaches the right handler,
**whatever path control takes**. This directory models the code that has to
make that true, the passes of the compiler before it, and the parts of the
runtime that keep state; it checks them with TLC on all small programs and
small instances, and proves parts of them for all.

Contents: [inventory](#inventory), [modules](#modules-and-how-they-correspond-to-the-code),
[runs](#what-the-runs-check), [fairness](#fairness),
[bounds](#bounds-and-why-they-are-enough), [proofs](#what-is-proved), [findings](#where-the-code-and-its-documentation-part),
[limits](#what-is-not-modelled), [plan](#plan).

## Inventory

`lplc` is a sequential program: lexer, parser, include resolver, semantic
analysis and code generator each work on the whole program before the next
starts. The hard behaviour is in how the passes keep stacks and tables in step
with a recursive descent, and in what the *generated* code does at run time,
where exceptions are `longjmp`s and threads exist.

| Component | State it keeps | Operations | Hard behaviour | What makes it correct |
|---|---|---|---|---|
| Lexer (`lexer.cpp`) | position in the text | `tokenize` | `>>` is one token also in `Box<Box<int>>` | tokens cover the text |
| Parser (`parser.cpp`) | token index, error list | one function per construct | tries type arguments and range loops and takes them back; tells declarations from expressions by looking ahead; recovers from errors | recognises what was written; always moves on; a failed try leaves no trace |
| Include resolver (`resolver.cpp`) | `included`, `modules`, errors | `resolve`, `parseHeader`, `resolveExternCIncludes` | depth-first with cycles and duplicates | each file's declarations once; modules for the linker complete |
| Semantic analysis (`sema.cpp`) | scope stack, class and function tables, squib flags, current class and namespace, capture tracker | one function per node | one set of fields for bodies that are analysed in the middle of each other; captures as a side effect of lookups | every judgement is that of lexical scoping; captures exact |
| Generic instantiation (`sema.cpp:1249-1454`) | `instantiatedGenerics`, the program's declarations | `ensureGeneric...Instantiated` | re-enters the analysis and appends to the list being analysed | each instance once, each instance analysed |
| Code generator, statements (`codegen.cpp:298-405, 627-903, 1081-1693, 1831-2060`) | `cleanupStack`, `deferStack`, `breakTarget`, `continueTarget`, the builder's insert block | one function per statement | bodies that end early; defer and RAII on every way out; try/catch as blocks; lambdas inside functions | valid IR; every debt paid once, in order |
| Code generator, classes and destructors (`codegen.cpp:511-625, 683-767`) | struct layouts | `generateClassTypes`, `generateDestructor` | field numbers across several parents | each field destroyed once |
| Runtime exceptions (`lplrt.c:84-169`) | handler array and index, exception in flight, type table | `__lpl_try_enter`, `_leave`, `_throw`, `_is_type`, `_clear`, `_register_type` | limits; stale slots; a throw while a catch runs | a stack of handlers; the type test is the subclass relation |
| Runtime collections (`lpl_collections.c`) | arrays that grow, hash buckets | `add`, `set`, `removeAt`, `put`, ... | growth, who owns a string | a list is a sequence, a map a function; no string lost or freed twice |
| Runtime files (`lpl_files.c`) | table of 16 line readers | `readByLine`, `writeFile`, ... | table full, swap removal, file that grows | each path is read from start to end |
| Runtime mutex (`lpl_sync.c`, `sync.lpl`) | a pthread mutex | `lock`, `unlock`, `tryLock` | an exception skips the deferred unlock | one holder; every holder lets go |
| Strings, console, math, memory, system | none that matters | wrappers of libc | | |
| Driver (`main.cpp`) | list of temporary objects | compile, link, clean up | a failed step leaves files behind | what is linked is what was compiled |

Interactions: the parser's AST goes through resolver and analysis (which
rewrites and extends it) to the generator; the generator asks the analysis for
classes and types; the generated code calls the runtime for try, throw and
catch, and `main` registers the class hierarchy with it; the handler array is
shared by all threads of a program.

`PROJECT.json` lists every component with what is modelled of it, and under
`hazards` what is hard to test, line by line, with the properties that cover it.
Where the code goes wrong as it is, a passing run cannot meet the failing case;
the hazard's note says what the run leaves out, and the tables under
[findings](#where-the-code-and-its-documentation-part) give the settings with
which TLC meets it. Two hazards that are in the reach of a model are stated by no property:
that a squib variable counts as used whatever branch its use stands in
(sema.cpp:709; the bodies of Analysis have no branches), and that an entry can
be lost on the way through two maps when a failed `get` hands on a String without
data (lpl_collections.c:339).

## Modules and how they correspond to the code

    HandlerStack          what try, throw and leave promise: a stack
      ^   ^
      |   +-- ExceptionRuntime        lplrt.c: array, index, type table
      |             ^-- ExceptionRuntimeProofs
      |
    CompiledFunction      text -> code -> one run of it
      |  ^                (handlers of HandlerStack)
      |  +-- CompiledFunctionProofs       the run's handlers
      |  extends ScopeCodeGen         codegen.cpp: the statement handlers
      |         |   ^-- ScopeCodeGenProofs    the generator's stacks, the code
      |         extends FunctionIR        blocks, terminators, the IR verifier
      +-- implements Lifetimes        what LPL promises about debts

    ParsedPrograms        programs of the manual's grammar, given to
      |  extends Parser               parser.cpp as a pushdown machine

    Driver                main.cpp: the passes in order, files, exits
      |  ^-- DriverProofs             (about both modules)
      |  extends IncludeResolver      resolver.cpp: the walk over headers

    Analysis              sema.cpp: scopes, context, instances, classes
         ^-- AnalysisProofs

    MutexThreads          lpl_sync.c and lplrt.c under threads
      |  ^-- MutexThreadsProofs
    Collections           lpl_collections.c
      |  ^-- CollectionsProofs
      +-- implements Containers       sequences and functions
    LineReaders           lpl_files.c
      |  ^-- LineReadersProofs
      +-- implements LineCursors      a place in each file

**FunctionIR** is the part of LLVM IR that decides when objects live and die:
blocks of instructions, terminators, and the structural rule of
`llvm::verifyModule` (one terminator per block, at its end; branches and
objects of the same function). It is external code, modelled from its use.

**ScopeCodeGen** is the statement generator. Its variables are the fields of
`CodeGen` with the same names; `cleanupStack` and `deferStack`, vectors of
vectors, are the flat lists `cleanups` and `defers` and one mark per open scope
in `scopes`. The call stack of the recursive descent is `open`: one record per
handler that is in the middle of its work, with the handler's locals
(`savedBreak` is `brk`, the merge or exit block is `next`, ...). The program
text is not an input but is chosen step by step, so TLC explores the generator
on *every* text up to the bounds:

| Code | Actions |
|---|---|
| `generateVarDecl`, `generateDefer`, `generateDelete`, `generateReturn`, `generateThrow` | `VarDecl`, `Defer`, `Delete`, `Return` and `ReturnMove`, `Throw` |
| `generateStmt`: Break, Continue, ExprS | `Break`, `Continue`, `Call` |
| `generateExpr`: Move, Lambda | `Move`, `OpenLambda`, `CloseLambda` |
| `generateBlock` | `OpenBlock`, `CloseBlock` |
| `generateIf` | `OpenIf`, `OpenElse`, `CloseBranch` |
| `generateWhile`, `generateDoWhile`, `generateFor`, `generateForEach` | `OpenWhile`, `OpenDoWhile`, `OpenFor`, `OpenForEach`, `CloseLoop`, `CloseBlock` |
| `generateSwitch` | `OpenSwitch`, `CloseCase` |
| `generateTry` | `OpenTry`, `CloseTryBody`, `OpenCatch`, `CloseCatch`, `CloseCatches`, `CloseFinally` |
| `generateFunction`, `generateMethod`, `generateConstructor` | `GenInit`, `CloseFunction` |
| `pushCleanupScope`, `popCleanupScope`, `emitCleanupsForScope`, `emitCleanups` | `Scope`, `PopScope` and `ScopeExit`, `BodyEnd`, `EmitCleanups` |

A statement stands for its kind only. `VarDecl` is a declaration of an object
that needs cleanup (a class object or an `owner`); declarations that do not are
expression statements here. The order of the emitted calls, the look at the
terminator before each of them, and what each handler saves and restores are
kept exactly.

The constant `Features` says what the text may contain. Most features are kinds
of statements; the last eight (`DeadCode`, `Scopeless`, `CondMove`, `JumpPast`,
`ReturnPast`, `ThrowPast`, `FinallyOnly`, `LambdaPast`) allow the places where
the generator is known not to do what the manual says. The runs that show the
promise kept leave these out; the run on any text, the proofs and the settings
that show the disagreement put them in. The guards that leave them out
(`ThrowIsClean`, `JumpIsClean`, `ReturnIsClean`, `MoveIsSure`, `ScopeIsOwn`) are
restrictions of the text, not of the generator.

**CompiledFunction** runs the generated code. `Verify` is the call of
`verifyModule` in `generate`; then one action per instruction, with conditions,
exceptions in calls and type tests left open, against the handlers of
`HandlerStack`. `pending` is what the run has built or come past and not yet
destroyed or run; a step that destroys what is not alive or runs what was not
come past ends in `fault`. `return` in a lambda is run as a function of its own.

**Lifetimes** is the abstract promise, without scopes or control flow: a list of
debts; callbacks are run last first with everything older still alive; objects
are destroyed last first and never before a younger callback; a function
finishes only when it owes nothing. `CompiledFunction` implements it
(`KeepsPromise`), with `status` as a function of `phase`; code that the
verifier rejects breaks the promise too.

**ExceptionRuntime** is `lplrt.c` from line 84 on: the array with an index that
goes up before the limit is looked at, slots that keep their content when the
index goes down, the relation table that silently fills up, and the walk of the
type test. `declared` is a history variable: the hierarchy of the program.
**HandlerStack** is what it should be: a stack.

**MutexThreads** lets threads share that array. A thread runs a function that
locks, defers the unlock, and has its `try` inside or outside of the critical
section. A call of the mutex is one step: `Lock`, `TryLockFails`, `Unlock`
(`lpl_sync.c`). One of the exception runtime that changes the index is two, as in
the code built with `-Os`: it reads `exception_stack_top` (`ReadTop`), then writes it
and returns (`TryEnter`, `Throw`, `TryLeave`). The index is a plain `int`, so two
calls at once may lose a change or get the same slot. Handlers and the exception
in flight belong to the process, as in the code, so threads can take each
other's. LPL itself has no statement that starts a thread; C code linked to the
program has.

**LineReaders** is the table of `lpl_files.c`: `FindReader` searches by path,
`CloseReader` puts the last entry in the place of the closed one, and a call of
`readByLine` is `ReadByLineGoOn`, `ReadByLineOpen` or `ReadByLineFail`. A file is
a sequence of `"x"` (a character) and `"n"` (the end of a line). **LineCursors**
is the promise: a place in each file, and at most `MaxReaders` files at a time.

**Collections** has one container of one of the four classes of
`lpl_collections.c`. Arrays keep what lies behind their size, chains their order,
and the heap is the set of string blocks with their contents, so that a block
freed twice or shared shows. `hash` is any function to the buckets, so
collisions occur. **Containers** is the promise: a sequence, or a function.

**IncludeResolver** is `resolve` and `parseHeader` as one loop over a stack of
files. What a file contains is chosen when an include first finds it, so one
run goes over all include graphs. **Driver** extends it with `main`: `Parse`,
`Resolve`, `MakeTemp` and `ReadCHeader` (the C headers of extern blocks, which
go through clang), `Analyse`, `ReportCheck`, `Generate`, `EmitOnly`, `CompileC`,
`EmitObject`, `Link`, `Clean`. Whether a pass finds errors and whether a tool
fails is open.

**Parser** writes each parse function as the sequence of symbols it turns into,
chosen by the next two tokens as in the code (`Rule`). `stack` is the call stack
with what each call has still to do. The steps are those of the helper functions
(`Expect`, `Match`, `Take`, `Skip`) and of the two places that try something and
go back: `BeginTrial`, `TypeArgs`, `NextTypeArg`, `GenericCall` for `tryParseTypeArgs`, `DecideFor`
for the range loop. A trial counts its own errors from 0, so that it sees each of
them however many there were before. `tree` is the list of constructs recognised. `Unwind` is
the exception of a literal that is too big for `stoll`, caught in the loops over
declarations. **ParsedPrograms** writes a program from the grammar of the
manual, production by production, and records the constructs in `written`; it
may then leave a token out or put another in its place.

**Analysis** is `sema.cpp` on programs that are written while they are analysed:
a body is extended when the analyser comes to its end, and read again at the
next instance of the same template. `scopes`, `currentClass`, `currentNs` and
`tracker` are the fields of `Sema`; `frames` is its call stack. Each frame has an
environment `env` of its own, which is what lexical scoping knows at that
point, and a `base`, the number of scopes of the bodies it is in the middle of;
`agreed` compares the judgement of the code with it. `NameType` is the
use of a generic type or function: a new instance is appended to `decls` and
analysed at once, in the middle of the body at hand. `Reported` is what
`analyzeClass` and `analyzeMethod` say of the heads of classes.

`Liberties` lets in programs whose meaning depends on the context in the code
though not in the language; see [findings](#where-the-code-and-its-documentation-part).

## What the runs check

Runs that pass:

| Run | On | Shows |
|---|---|---|
| `scopes` | declarations, defers, moves, returns, blocks, if/else, lambdas; 5 statements | every generated function is accepted by the verifier and keeps the promise of `Lifetimes` on all its paths (`KeepsPromise`) |
| `loops` | loops, and switch with and without default, fallthrough, empty cases, bodies with and without braces, break, continue; 4 statements | the same |
| `exceptions` | try, catch, finally, throw and calls that may throw; 4 statements | the same, and the handlers installed are always those of the try bodies around the point of control |
| `any_text` | the generator alone, all kinds of statements and all features but three; 3 statements | stacks nested, jump targets restored, nothing left for the next function, code accepted |
| `exception_runtime` | the runtime, 3 slots, 4 classes, room in the table | the array is a stack, also at its limit; only filled slots are used; the type test is the subclass relation |
| `mutex_threads` | 3 threads, at most 2 rounds each and 4 in all, tries inside and outside | a throw lands in its own thread (`ThrowsStayHome`), who is out of the function holds no lock (`UnlockedAtScopeEnd`), everyone finishes and the mutex can be destroyed (`EveryoneFinishes`) |
| `line_readers` | 3 files of at most 2 characters, 2 readers | the table implements `LineCursors`; lines fit their buffers (`LinesFit`) |
| `collections` | lists of at most 4 from one slot, maps of 3 keys and 2 buckets | the containers implement `Containers`; lookups agree (`LookupsAgree`); each string block has one owner (`BlocksOwnedOnce`) |
| `compile` | 2 headers in 2 places, 4 items in all files, 2 C sources, 1 C header | declarations once and a header's before their use (`DeclarationsMerged`), modules complete (`LibrariesLinked`), status 0 only without errors, outputs reported and a program reported is new, but for the unchecked writing of `-c`, `-S` and `-emit-llvm` (`BuildIsHonest`), nothing else stays but C objects when a later C source fails (`LeavesOnlyItsOutput`), an end in every case (`Terminates`) |
| `parser` | programs with up to 4 choices, or with 2 and a fault | what is recognised is what was written (`ParsesWhatWasWritten`), and the parser comes to an end (`Terminates`), on faulty programs if they have no class, interface, extern block or func type: those can hang it |
| `analysis` | a class, `main`, a function in a namespace and three templates, 3 events in their bodies; and hierarchies of 3 classes | judgements are lexical (`JudgesLexically`), captures exact (`CapturesExact`), each declaration and instance analysed once (`EveryDeclarationOnce`), classes that are not reported are complete (`ClassesComplete`) |

Of the five loops `loops` has `for` and `exceptions` has `do`-`while`; `while`
and `for`-in generate the same blocks as a `for` without an init clause.
`any_text` has all five.

`any_text` leaves out `FinallyOnly` and `LambdaPast`, whose code is rejected by
the verifier (see below), and `DeadCode`: `generateFunction` and its siblings go
on after a `return` at the top level of a body, and the verifier rejects the
result. The manual does not say whether such a text is legal.

Each passing property has a mutant in the module it is about: a plausible
mistake in the code (defers after destructors on return, a missing look at the
terminator, a handler not left, a scope not popped, a break target not
restored, an off-by-one at the array's limit, ...) with which TLC finds the
property violated in the same run.

The run that shows a violation, and settings that show more, are under
[findings](#where-the-code-and-its-documentation-part).

`CHECK_DEADLOCK` is off in `any_text` only: the generator stops at the end of
the text. In the other modules the end of a run is an explicit stuttering step,
or there is always a next call, and deadlock is checked.

## Fairness

- `MutexThreads`: weak fairness of each thread (`Step(t)`), and of the function
  that makes and destroys the mutex: the operating system schedules every
  thread that can run. Which of several waiting threads gets the mutex is not
  assumed to be fair; it need not be, since each thread has a bounded number of
  rounds.
- `Driver` and `ParsedPrograms`: weak fairness of `Next`. The compiler is one
  sequential process that nothing keeps from its next step; the tools it calls
  return.

The other specifications have none. A loop in generated code may run for ever,
as the program says, so `CompiledFunction` promises no progress: "is destroyed in
the end" is stated as "does not return while something is owed". The
runtime modules wait for calls, and `Analysis` writes its program as it goes.

## Bounds and why they are enough

`MaxStmts` bounds the text, `MaxNesting` the constructs open at a time,
`MaxCases` the cases of a switch. They occur only in the guards of the actions
that take a statement (`HasRoom`, `CanOpen`, `OpenCatch`, `OpenSwitch`).

- A lost or doubled cleanup needs an object or a defer, a construct that ends
  early or without a scope of its own, and a statement that leaves it: 3
  statements. All the disagreements below show at 2 to 4. The passing runs go to
  4 and 5, which allows a debt inside and one outside of two nested constructs.
- Generated code that loops runs for as long as it likes; its states repeat,
  since `pending` is empty again after every round, or the promise is broken.
- In `exception_runtime` 3 slots and 2 buffers make the array empty, partly used
  with stale slots above the index, full, and over the limit; with 4 classes
  there are chains of three and forests of all shapes. The real limits are 256
  and 64; the proofs are for every size of the array.
- In `mutex_threads` three threads are what it takes for one to hold the lock and
  two to wait or to mix their handlers; in the second round the state that the
  first one left behind would show. `MaxCalls` bounds the rounds of all together:
  one thread may make two while the others make one each. The array has a slot
  for each call, so it never overflows.
- In `line_readers` two entries for three files make the table empty, partly used
  and full, with the first or the last reader closed; two characters give empty
  lines, lines with and without an end, and a file of two lines.
- In `collections` a list grows from 1 to 4 slots in two steps; three keys in two
  buckets collide, and every position in a chain can be found, replaced and
  removed. The real sizes are 16 and 64.
- In `compile` two headers in two places make four files: cycles, duplicates, a
  header that includes itself, and a name found beside the source that hides the
  library's. `MaxTotal` bounds the items of all files together.
- In `parser` a choice is a production other than the cheapest for its symbol.
  Four of them nest constructs three deep and put two trials next to each other.
  Faults are limited to programs of two choices. `MaxErrors` caps the count of
  errors of a loop that would report for ever; whether a trial has errors is
  exact, since a trial counts from 0.
- In `analysis` three events with three scopes nest a lambda in a block or a
  lambda, and instances three deep; the vector has `Room` for the six there are.

## What is proved

TLAPS proves for every value of the constants, hence for texts of any length
and nesting, arrays, tables and containers of any size, any number of threads
and any include graph:

| Theorem | Module | States |
|---|---|---|
| `TypeCorrect` | `ScopeCodeGenProofs` | `GenSpec => []TypeOK` |
| `ScopesNest` | `ScopeCodeGenProofs` | `GenSpec => []NestedScopes` |
| `JumpsGoHome` | `ScopeCodeGenProofs` | `GenSpec => []JumpTargets` |
| `NothingLeftBehind` | `ScopeCodeGenProofs` | `GenSpec => []CleanAtEnd` |
| `CodeIsAccepted` | `ScopeCodeGenProofs` | no `DeadCode`, `FinallyOnly`, `LambdaPast`: `GenSpec => []AcceptedByVerifier` |
| `HandlersFollowTheText` | `CompiledFunctionProofs` | no `JumpPast`, `ReturnPast`, `LambdaPast`: `Spec => []HandlersMatchNesting` |
| `TypeCorrect` | `ExceptionRuntimeProofs` | `Spec => []TypeOK` |
| `NoUnfilledHandler` | `ExceptionRuntimeProofs` | `Spec => []UsedSlotsFilled` |
| `RuntimeIsAStack` | `ExceptionRuntimeProofs` | `Spec => ImplementsStack` (refinement) |
| `TypeTestsAreRight` | `ExceptionRuntimeProofs` | `RoomForAll`: `Spec => []TypeTestIsSubclass` |
| `TypeCorrect` | `MutexThreadsProofs` | `Spec => []TypeOK` |
| `SharedHandlersAreSafe` | `MutexThreadsProofs` | `Careful => (Spec => []ThrowsStayHome)` |
| `LeavesUnlocked` | `MutexThreadsProofs` | `Careful => (Spec => []UnlockedAtScopeEnd)` |
| `TypeCorrect` | `LineReadersProofs` | `Spec => []TypeOK` |
| `LinesFitBuffers` | `LineReadersProofs` | `~Grows => (Spec => []LinesFit)` |
| `ReadersAreCursors` | `LineReadersProofs` | `~Grows => (Spec => ImplementsCursors)` (refinement) |
| `TypeCorrect` | `DriverProofs` | `Spec => []TypeOK` |
| `EveryDeclarationMerged` | `DriverProofs` | `Spec => []DeclarationsMerged` |
| `EveryLibraryLinked` | `DriverProofs` | `~MixedForms => (Spec => []LibrariesLinked)` |
| `BuildTellsTheTruth` | `DriverProofs` | `~StaleObject \/ ~EmitFails => (Spec => []BuildIsHonest)` |
| `OnlyOutputStays` | `DriverProofs` | `Spec => []LeavesOnlyItsOutput` |
| `TypeCorrect` | `CollectionsProofs` | `Spec => []TypeOK` |
| `EveryBlockOwnedOnce` | `CollectionsProofs` | `Spec => []BlocksOwnedOnce` |
| `LookupsAreRight` | `CollectionsProofs` | `Spec => []LookupsAgree` |
| `ContainersImplemented` | `CollectionsProofs` | `Spec => ImplementsContainers` (refinement) |
| `TypeCorrect` | `AnalysisProofs` | `Spec => []TypeOK` |
| `JudgementsAreLexical` | `AnalysisProofs` | `Liberties = {}`: `Spec => []JudgesLexically` |
| `CapturesAreExact` | `AnalysisProofs` | `Liberties = {}`: `Spec => []CapturesExact` |
| `NoneAnalysedTwice` | `AnalysisProofs` | `Spec => []NoneTwice` (the first part of `EveryDeclarationOnce`) |
| `DeclarationsAnalysedOnce` | `AnalysisProofs` | `Roomy`: `Spec => []EveryDeclarationOnce` |

The conditions in front of some of them are necessary: each is the negation of
a setting with which TLC finds the property violated
([below](#where-the-code-and-its-documentation-part)), and the run of the property
has the condition too. One is there for the proof only: with `LambdaPast`, TLC finds
no violation of `HandlersMatchNesting`, since code that jumps out of a lambda is
rejected before it runs, but then the invariant of the generator does not hold.

Each `Spec` is the one the runs check (with its bounds as constants), and each
proof has the same three steps: the initial states satisfy an invariant `IInv`,
every step preserves it, and it implies the property. Except for `TypeCorrect`
of MutexThreads none of the properties is inductive alone. What the invariants
add:

*The generator.* Whether the scope stack is still right after a body ends depends
on which of the handlers in `open` has a scope; which block comes next depends on
the `next` and `alt` a handler stored when it started; `breakTarget` after a loop
depends on what the loop saved. The inductive invariant is

    IInv == TypeOK /\ ShapeOK(open, Len(code))
                   /\ JumpsOK(open, breakTarget, continueTarget)
                   /\ ScopesOK(...)

`ShapeOK` says what each kind of handler stores: its blocks exist, a `catch`
stands on a `dispatch`, a loop body on a scope, only the outermost is a
function. `JumpsOK` is the chain of saved targets, `ScopesOK` counts scoped
handlers and orders the marks. The proof has one lemma per action; those rest
on four step lemmas by what the action does to `open`: change the top
(`SimpleStep`, `NextPartStep`), push (`OpenStep`), pop (`CloseStep`). The
counting argument uses the cardinality theorems of the library's
FiniteSetTheorems. The assumptions on constants are `FeaturesAssumption` and
`BoundsAssumption`.

*The verifier.* `AcceptedByVerifier` speaks of the end only, of code that dozens
of steps have put together. `VInv` adds to `IInv` what holds of the code on the
way (`Held`), for some assignment of a function (`F`) and a number of scopes (`D`)
to every handler in `open`:

- `Tidy`, `CodeOK`: a terminator is last in its block, if there is one; branches
  stay in the function, and what is destroyed or moved is declared there.
- `BlocksOK`: a block without a terminator is the block in hand, or exactly one
  handler has it in its locals to go on with (`Pend`), and no handler has a
  block of that kind that is already ended. Blocks created in advance (the merge
  block, the cases of a switch, the blocks of a try) are the reason: each must
  be filled once.
- `FnsOK`: the blocks a handler keeps, and the places where `break` and `continue`
  go, belong to the function of its body. Only a lambda begins another.
- `MarksOK`, `EntriesOK`: each mark of `scopes` is where the body of its handler
  begins in `cleanups`, and what was registered since then is declared in that
  body's function. So neither the end of a scope nor a return destroys what
  belongs to another function.

There is a lemma for each part and each way the stack and the code change (code
grows, a handler is pushed, replaced, popped), the lemmas `HeldGrow`, `HeldPush`,
`HeldOff` put the parts together, and each action is a few of these, one after the
other. That the walk to the innermost loop or function ends at one needs the
greatest number of a set, from the library's well-founded relations. The three
conditions are where the generator breaks the invariant: code after a terminator
(`DeadCode`), a dispatch block that nobody fills (`FinallyOnly`), objects and
targets of the function around a lambda (`LambdaPast`).

*The run of the code.* `HandlersMatchNesting` compares a stack that the code builds as it
runs with a place in the text that is long closed when it does. The proof goes
through the code: every block remembers the try bodies it was generated in
(`within`), and two invariants are about the two stages.

- While the generator works (`NInv`): each instruction goes where the handlers it
  leaves installed are the right ones (`SeqNests`, for all blocks `PathsOK`). A
  branch stays inside the same try bodies, or leaves one right after
  `__lpl_try_leave`; a try enters one more; a return stands in none; the
  block a throw goes to lies where the try statement does (`PlaceOK`). For this to
  be preserved `NestOK` has to know of every handler in `open` that the blocks in its
  locals lie in the same try bodies as what it will generate next, and that
  the targets of `break` and `continue` do. Here the conditions come in: without
  `JumpPast` and `ReturnPast` no jump or return crosses the end of a try body
  (with them the code leaves a handler behind, which the runs show), and without
  `LambdaPast` the targets belong to the same function. This part reuses the
  lemmas about code that grows from the proof of the verifier.
- While the code runs (`RInv`): control is before an instruction of a block and the
  handlers are `Installed` there, which are those of the block, but for a branch
  after a `tryleave`, where the last is gone. Each kind of instruction is a lemma
  by what it does to control and handlers: pass by, go to a block, enter, leave,
  throw, end. That control never runs off a block uses `Verified`: the code that
  runs has been accepted, so the proof needs no condition on `DeadCode`.

*The runtime of exceptions.* `UsedSlotsFilled` needs to know that the index is
below the limit as long as the process lives, which is part of the invariant. For
the refinement each action maps to the action of `HandlerStack` of its name; a
`TryEnter` over the limit maps to a stutter since the slots in use, `InUse`,
are counted up to the limit, and `TryLeave` and `Throw` take the last element
of `InUse` because stale slots lie above the index. For `TypeTestIsSubclass` the table must
be the relation that the program has declared, with one entry for each child
(`TableOK`). The ancestors of a class (`Line`) are the least set closed under that
relation. What the walk meets is among them, since there is no least round at
which it is not, and is closed itself, hence all of them. The walk has a round for
each entry, and these are enough: more would meet a class twice, and the
relation has no cycle. `RoomForAll` says that the table has room for all classes
but the root. Assumptions:
`HandlersAssumption`, `TypesAssumption`, `LimitsAssumption`.

*Threads.* Which handler a throw takes depends on all threads, so the invariant
ties the owner of the mutex to the places where a thread has it (`OwnerKnown`)
and the handlers of the process to the owner's place (`HandlersOfOwner`): if
every try statement is inside the critical section there is at most one handler,
the owner's, and only the owner may be between reading the index and writing it.
If some are outside, handlers of several threads mix and changes of the index
get lost, and the promise holds because nothing is thrown there (`QuietOutside`). `Careful` is the
discipline: what throws has its tries inside, or all functions have.
Assumptions: `ThreadsAssumption`, `HandlersAssumption`, `ShapesAssumption`.

*Readers of lines.* `CloseReader` moves the last entry to the place of the closed
one, which is right only if no path has two entries and every entry is within
its file (`TableOK`). That a line fits needs that a buffer has the size of its
file still (`SizesOK`), also after the move. The refinement takes as the place in
a file that of its one reader. A lemma that a set of numbers has a least
one (`LeastNumber`), from the library's well-founded relations, gives the end of
the next line. Assumption: `LimitsAssumption`.

*The walk over headers.* `DeclarationsMerged` speaks of the end of the walk only.
`Walk` says of every item the walk is past what has become of it: a declaration is
in the program, once (`DeclaredOK`); the file of an include has been read, is
being read for it, or reaches back to it (`IncludesOK`); what was included before
a declaration comes before it or is in a cycle with it (`OrderOK`); the modules
are those of the `<h>` passed, and every file included has an include that
counted (`ModulesOK`). Files on the stack differ and reach those above them
(`FramesOK`, `ReachOK`). `Reaches(f, g)` says that every set of files closed under
"includes" that has `f` has `g`, so the proof needs no induction over paths.
Assumption: `ResolverAssumption`.

*The driver.* `DriverOK` says for each phase which errors there may be and which
files exist (`ErrorsOK`, `FilesOK`), and, unless an object of an earlier run
meets a failing write, that what is linked is new (`FreshOK`). Two things main
gets wrong are exceptions that the properties state: an output asked for with
`-c`, `-S` or `-emit-llvm` is reported although it could not be written
(main.cpp:377, `EmitFails` in `BuildIsHonest`), and the objects of the C sources
before one that fails stay (main.cpp:411, the last conjunct of
`LeavesOnlyItsOutput`). Assumption: `DriverAssumption`.

*Containers.* An element, key or value of strings owns a block of its own and no
other block is in use (`StringList`, `StringEntries`); replacing one, shifting
the rest down or growing the array preserves that because the fresh block is not
among those in use. For maps `Find` looks through one chain only: that is enough
because a chain has an entry once and only keys whose hash leads to it
(`ChainsOK`), that no key has two entries, and that `size` is their number
(`KeysOK`). The refinement maps the array up to its size to a sequence
(`ListContent`) and the entries of all chains to a function (`MapContent`): a `put`
that finds its key changes one value, one that does not adds one, `remove` takes
one away, and no step touches what the others hold. Assumptions:
`StringsAssumption`, `NumbersAssumption`, `SizesAssumption`.

*The analysis.* One `scopes`, one `tracker`, one class and one namespace serve
all bodies under analysis at a time. `StackOK`, `ScopesOK`: the scopes are those of
the bodies in `frames`, one after the other, each from its `base` on, and only
instances are on top of others. `LambdasOK`: the lambdas are at the levels of the
scopes that belong to lambdas, in their order, and `tracker` is the innermost
that captures all, as is what each lambda has saved among those before it.
`NamesOK`: the namespace is that of the last declaration past its fields, and each
has saved that of the one before. `ProgramOK`, `DoneOK`: the list under analysis is the
program and its instances, and what has been analysed is in it, once. These hold
for all programs. Without the liberties `Lexical` holds too: each scope has the
variables of the environment it stands for (`Agree`), and the class is that of
the innermost declaration until a type has been named in its body (`ClassOK`;
after that the code may have reset it, and a program without the liberties does
not ask any more). Then what the search from the innermost scope finds is what
lexical scoping means (`FoundIsMeant`): either the body itself declares the name,
and its scopes are searched first, or the body is not on top of others and none
of its scopes has the name. And a use is recorded by one lambda at most, the one
that `tracker` stands for. `Roomy` says that the instances fit into the list: there are
six in the model. Assumption: `AnalysisAssumption`.

Only model-checked:

- what the generated code does to objects and defers when it runs
  (`KeepsPromise`), and everything about Parser and ParsedPrograms;
- `ClassesComplete` of Analysis: its hierarchies have three classes and TLC goes
  through all of them, while `Ancestors` is a recursive function over them;
- the liveness properties `EveryoneFinishes` and `Terminates`: liveness under
  fairness is out of the prover's reach.

## Where the code and its documentation part

One run checks a property that a comment of the repository states, and TLC
finds a text, and a path through its code, that violates it: in
`return_leaves_handler` a return in a try body leaves the handler of a frame
that is gone installed (lplrt.h:67; the quote is in `PROJECT.json` under
`findings`).

The same modules show the following too, in a configuration with the settings
given. No run is kept for them.

`CompiledFunction`, with `SPECIFICATION Spec`, `MaxCases = 2` and, for `MaxStmts`
and `MaxNesting`, 3 (4 for the second row):

| Features | Property violated | The code | says otherwise |
|---|---|---|---|
| `Decl`, `While`, `Break`, `JumpPast` | `NothingLeftOwed` | `break` and `continue` are a branch and nothing else: what the body has built is not destroyed (codegen.cpp:1109) | MANUAL.md:1433, 1482 |
| `Decl`, `Block`, `Throw`, `Try`, `ThrowPast` | `NothingLeftOwed` | a throw is a `longjmp`: the scopes it crosses are not cleaned up (codegen.cpp:1578) | MANUAL.md:1468 |
| `Try`, `Finally`, `Return`, `ReturnPast` | `FinallyAlwaysRuns` | the finally body is in the exit block only (codegen.cpp:1687) | MANUAL.md:1186, 1194 |
| `Decl`, `Delete` | `NoFault` | `delete` does not mark the owner: freed again at the end of the scope (codegen.cpp:1392) | MANUAL.md:1402 |
| `Decl`, `Try`, `Call`, `Scopeless`, `ThrowPast` | `NoFault` | a try body has no scope: its objects are destroyed even if they were never built (codegen.cpp:1604) | MANUAL.md:1335 |
| `Decl`, `Switch`, `Scopeless` | `NoFault` | a case has no scope: its objects are destroyed also when another case was taken (codegen.cpp:1494) | MANUAL.md:1335 |
| `Defer`, `If`, `Single`, `Scopeless` | `NoFault` | a defer that is the body of an `if` runs in any case (codegen.cpp:1411) | MANUAL.md:1582 |
| `Decl`, `If`, `Return`, `Move`, `CondMove` | `NothingLeftOwed` | a move on one path marks the object as moved on all (codegen.cpp:1369) | MANUAL.md:1442 |
| `Decl`, `Return`, `Lambda`, `LambdaPast` | `AcceptedByVerifier` | a return in a lambda emits the cleanups of the function around it; the module is rejected (codegen.cpp:1377) | MANUAL.md:748 |
| `Try`, `Finally`, `Call`, `FinallyOnly` | `AcceptedByVerifier` | without a catch clause the dispatch block stays empty and the module is rejected (codegen.cpp:1675) | MANUAL.md:1198 |

In each of them `KeepsPromise` is violated as well.

The other modules, with the `.cfg` of their run but for the constant given:

| Run and constants | Property violated | The code | says otherwise |
|---|---|---|---|
| `exception_runtime`, `MaxTypes = 1` | `TypeTestIsSubclass` | a relation that does not fit the table is dropped, and catch clauses miss the class (lplrt.c:104) | lplrt.h:79 |
| `mutex_threads`, 2 threads, `Shapes = {"outside"}`, `Disciplined = FALSE` | `UnlockedAtScopeEnd`, `ThrowsStayHome` | an exception jumps past the deferred unlock; and the handler it takes may be another thread's (lplrt.c:88) | MANUAL.md:1571 |
| `line_readers`, `Paths = {p1}`, `MaxSize = 4`, `Grows = TRUE` | `LinesFit` | a line of a file that has grown is longer than the buffer (lpl_files.c:109) | |
| `compile`, `MixedForms = TRUE` | `LibrariesLinked` | a library header first found by `"h"` is never linked, also when `<h>` follows (resolver.cpp:116) | resolver.h:46 |
| `compile`, `StaleObject = TRUE` | `BuildIsHonest` | the result of `emitObjectFile` is not looked at: an object of an earlier run is linked (main.cpp:418) | |
| `parser`, `"Joined"` added to `Features` | `ParsesWhatWasWritten` | `>>` takes two levels off a depth that the nested type argument, parsed by a call of its own, never raised (parser.cpp:237) | MANUAL.md:1160 |
| `parser`, `"ConstFor"` added | `ParsesWhatWasWritten` | the trial of a range loop keeps its errors, so `for (const int i ...)` is rejected (parser.cpp:1036) | |
| `parser`, `"ClassArray"` added | `ParsesWhatWasWritten` | `A[] x;` is taken for an expression (parser.cpp:925) | |
| `analysis`, `Liberties = {"free"}` | `JudgesLexically` | the body of an instance sees the variables of the body that uses it (sema.cpp:42) | |
| `analysis`, `Liberties = {"this"}` | `JudgesLexically` | after an instance in a method body `this` has no class (sema.cpp:362, 444); a generic function sees that of its user | |
| `analysis`, `Liberties = {"uncaptured"}` | `JudgesLexically` | a lambda that captures nothing sees all variables (sema.cpp:42) | MANUAL.md:725 |
| `analysis`, `Liberties = {"nested"}`, `MaxEvents = 4` | `CapturesExact` | what only an inner lambda names is not captured by the outer (sema.cpp:47) | MANUAL.md:741 |
| `analysis`, `Liberties = {"field"}` | `JudgesLexically` | the field types of a class are looked up before its namespace is set (sema.cpp:326) | |
| `analysis`, `Room = 0` | `EveryDeclarationOnce` | the loop over the declarations goes on with the iterators of a vector that has moved (sema.cpp:218); the model lets it end | |

Seen while modelling, and outside of the models:

- `readByLine` returns `""` for a blank line as well as at the end, so the loop of
  `examples/read_by_line.lpl` stops at the first blank line and keeps its reader.
- A header that includes the source file itself merges its declarations twice:
  the path of the source is not in `included` (resolver.cpp:137).
- The outputs of `-emit-llvm`, `-S` and `-c` are reported as written, with exit
  status 0, whatever the emitter returns (main.cpp:377, 385, 394). The model has
  this (`EmitOnly` with `EmitFails`), and `BuildIsHonest` excepts it.
- The loops over the members of classes and interfaces, extern blocks and the
  parameters of a `func` type do not move on at a token they do not know
  (parser.cpp:538, 709, 764, 138), so the parser does not end.
- `parse` and `parseNamespace` catch the exception of a literal that is too big
  and drop the declaration without an error (parser.cpp:336, 494).
- A type parameter in the body of a template is not substituted, nor is `T*` in
  a field (sema.cpp:1253); a template that uses ever larger instances of itself
  never comes to an end; a cycle of parents does not either (sema.cpp:305).
- A class that is not abstract must itself implement the abstract methods of all
  ancestors, although a class in between may have (sema.cpp:302).
- The headers `collections.lph` and `sync.lph` declare no destructor, so these
  objects are destroyed only by an explicit call (MANUAL.md:2377).

## What is not modelled

- Values: conditions, results, addresses. Branches are free choices. So are the
  type tests of catch clauses in `CompiledFunction`; what they compute is in
  `ExceptionRuntime`. A capture by reference that is really a copy is therefore
  out of sight.
- The body of a deferred statement is one indivisible call. Deferred statements
  that declare, defer, return or jump are not modelled.
- Class layout and destructor bodies (`generateDestructor`), and what they do with
  the fields of the class.
- One function at a time in `CompiledFunction`: a call may return or throw, and
  what it throws is not caught inside it.
- A null result of an expression handler, where the statement handlers return
  early: the analysis rejects such programs before.
- Parser: precedence of operators, the AST beyond the kinds of its nodes, names
  (but for that of the class at hand), and namespace paths. The parts of `parser`
  that loop for ever are given no faults.
- Analysis: types of expressions, overloads, access, deduction of type arguments,
  more than one type parameter. One lambda is not passed where another expects it.
- Driver: how options are read, paths, and what clang and the linker do but
  succeed or fail. The `.o` of a C source is one of a number, not a name.
- Runtime: `malloc` succeeds. `exists`, `size` and `readFile`, the string, console,
  math, memory and system functions keep no state.
- The AST and the lexer but for `>>`.

## Plan

Done: all modules above, and the proofs about ScopeCodeGen, CompiledFunction,
ExceptionRuntime, MutexThreads, LineReaders, IncludeResolver, Driver, Collections and Analysis.
Next, in this order:

1. **CompiledFunction**: `KeepsPromise`, from an invariant like the one for the handlers
   that says what is pending at each place of the code.
2. **Parser**: `TypeOK` for any text.
3. A module for class layout and destructor chains; deferred statements with
   bodies of their own.
