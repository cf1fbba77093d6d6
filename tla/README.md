# A verification of the Scheme interpreter

This directory holds TLA+ models of the interpreter in this repository, the TLC
configurations that check them, and theorems about them proved with TLAPS.
Paths below are relative to the root of the repository; `ctx.cpp` and the like
are in `src/`.

## The system

A host (the command line, the browser, a test) owns a `scheme::Session`. It
passes source text to `run` or `execute` with a callback that receives what the
program prints and the values of its forms. Underneath one `Ctx` owns the heap,
the symbol table, the global environment, the macro table and a recursion
budget. Everything runs on the host's thread: the concurrency of this system is
in its stack. A callback runs inside a call, `load` runs the loop over forms
inside an evaluation of that loop, a macro is evaluated while its use is
parsed, and an exception may end any of it at any point.

| component | state | operations | interacts with | what is hard | what makes it correct |
|---|---|---|---|---|---|
| session (`session.cpp`, `ctx.cpp`) | `active`, the `emit` slot, `depth` | `run`, `execute` | the host's callback, reader, evaluator | callbacks that throw or call back, exits, errors at any depth | flag, slot and depth return to rest; a refused call changes nothing; events are those of the program |
| garbage collector (`ctx.cpp`, `trace` in `types.cpp`) | `heap`, `gc_threshold`, work list | `alloc`, `collect_if_needed`, `collect` | every pointer a C++ frame holds, macros, globals | when it may strike; roots; cycles | frees exactly the garbage, never what a frame holds; memory follows use |
| evaluator (`expression.cpp`, `Ctx::eval`) | environments, the C++ stack | `eval` of each node, `apply_procedure` | promises, errors, depth budget | tail calls, evaluation order, exceptions through `guard` | computes what the language means; loops run in constant stack |
| promises (`types.cpp`) | thunk or value | `force` | evaluator | failing and re-entrant bodies | evaluated at most once |
| numbers (`number.cpp`) | fixnum, bignum or double | arithmetic, comparison, conversion | builtins, literals | the limits of `int64_t` and `size_t` | exact integers whatever the representation |
| lexer, reader (`lexer.cpp`, `reader.cpp`) | position, one token of look-ahead | `read_one` | session, `read`, REPL | unfinished tokens and data | reading in pieces is reading the whole |
| parser, macros (`parser.cpp`) | the macro table | `top_level`, `parse`, `define_macro` | evaluator (expanders), depth budget | macros that expand to definitions of macros | every node is well-formed; expansion ends |
| quasiquote (`quasiquote.cpp`) | templates | build, `instantiate` | parser, evaluator | nesting levels, splices | the template's datum with holes filled |
| values (`types.cpp`) | pairs, strings, vectors | `equals`, `render` | builtins | cyclic and deep data | structural equality |
| builtins (`builtins.cpp`) | none of their own | some 100 procedures | everything above | argument checks | each fails without a partial effect |
| preamble (`preamble.cpp`) | global definitions | lists, streams, combinators, in Scheme | session, evaluator | order of effects, laziness, loops that must not nest | each procedure is what it is for, on data of any length |
| errors, arity (`errors.cpp`, `arity.cpp`) | a payload | construction, matching | evaluator | none | the condition a guard sees is the one raised |
| command line (`cli/main.cpp`) | the input buffer | batch, REPL, Ctrl+C | session, replxx | what `run` consumed; keys pressed while editing | every form typed runs once |
| web binding and page (`web/main.cpp`, `web/app.ts`) | the current session, buttons | boot, run, reset, crash restart | session, browser events | interleavings at each `await` | one live session, none leaked |
| build, tests, benchmarks | | | | | |

`PROJECT.json` lists the same components with the files of each and what is
modelled of it, and the hazards: the places in this code that are hard to test,
each with its line and with the properties that watch it.

## The models

### Garbage collection: `Heap`, `Collector`, `IdealHeap`

`Heap` is the object graph and what a running program does to it. An object is
a record with the pointers its class holds (`Env`, `Cons`, `Vector`, `Error`,
syntax nodes, `Procedure`, the two states of a `Promise`). `frames` is the C++
stack: one entry for every `Ctx::run` and every `DepthGuard`, with the set of
pointers its locals hold. A program allocates, loads a field into a local,
stores a local into a field, calls, returns, throws, defines macros and starts
runs inside an evaluation. One value stands for every value without a pointer,
one binding for an environment and one element for a vector.

`Collector` adds `Ctx::collect_if_needed` and `Ctx::collect`: `StartCollect`
seeds the work list, each `Mark` is one turn of the loop with the trace method
of the class, `Sweep` erases the unmarked objects and moves the threshold. The
roots are what the code takes: the global environment and the macros. What the
C++ frames hold is *not* a root; that a collection is nevertheless sound is the
point of the model.

`IdealHeap` is the promise: before a form is read, all garbage disappears in one
step, or nothing does, and the pointers in every frame count as references.

### Sessions: `Session`, `SessionContract`

`Session` is the machinery around evaluation. Its stack has a frame for each C++
object whose destructor matters: a host's call (`ActiveSession`, `EmitScope`), an
activation of the loop over forms, an evaluation (`DepthGuard`), and the host's
callback. A form is reduced to the builtins it calls in order, its guard, and
whether its value is void. An exception (`SchemeError`, `ExitRequest`, or one of
the host's own) unwinds one frame per step. A callback returns, throws, or calls
the session again and then returns or throws. `Files` gives `load` its sources: one loads
itself, one ends inside a datum, one does not exist.

`SessionContract` says what a call does without any of this: one step, whose
events, exception and result are a function of the program. What a source does is
put together from what its forms do, one after the other up to the first that throws
(`InOrder`), and what a form does from what its builtins do; `Loads` is what each
file comes to with each number of evaluations left, since files may load each other. The stack
of exceptions, flags and destructors implements it (`ContractSpec`).

### Evaluation: `Evaluator`, `Meaning`

`Evaluator` has one action per `Expr::eval`, `apply_procedure` branch and catch
block. A frame is one activation of `Ctx::eval` with the state of the
`Expr::eval` it runs: the values its own calls of `Ctx::eval` returned, and where
it goes on (`at`). A tail call replaces the top frame, `CallEval` pushes one and
pays for it from `MaxDepth`; an exception takes one frame away at a time until a
`guard` catches it. Environments are kept in the order they are allocated and
never freed: no collection interrupts an evaluation, which `Collector` shows.
`Node` and `Code` say what the parser makes: nodes whose parts are nodes, with sequences that are
not empty where the evaluator takes their last element. `MCEvaluator` has TLC check that its programs are such.

`Meaning` is a big-step semantics of the same language, written as a definition
of the language would be: an expression in an environment and a store has an
outcome and a new store. It has no stack, no trampoline and no exceptions in
flight, and is told only how deep it may recurse.

Promises belong to this model. `Promise::force` takes two steps, as in the
code: it reads the thunk and calls the evaluator (`ApplyForce`), and it assigns
the outcome when that call comes back (`Forced`). Whatever the body does happens
in between.

### The library: `Library`, `LibraryContract`

The preamble is a program, and `Library` has it as one: each procedure in the nodes that
the parser makes of its text, run by the actions of `Evaluator` in front of a few forms
that use it. Nothing of it is primitive but the builtins it calls (`Prim`); `map` calls
`any`, `reverse` and itself through the global environment, as in the code.
`LibraryContract` has the other side: what a procedure returns and calls, said of sequences of
numbers. It also watches the order of the calls, by a procedure that notes its argument,
and how much of a stream is computed. Two kinds of definition are left out: `append!`, since pairs are
values in `Evaluator`, and the compositions of `car` and `cdr` that the preamble itself does not use.

### Numbers: `Doubles`, `Numbers`, `IdealNumbers`

`Numbers` is a machine with two variables and one action for each operation of
`Number`. `FixMax` stands for `INT64_MAX`, and every `int64_t` operation wraps at
that width, so an overflow the code forgot shows as a wrong result. `Doubles`
models the processor's doubles as `number.cpp` uses them, with `Mantissa` for
2^53 and the spacings between whole doubles: conversion from integers rounds to
the nearest even one or to infinity. Double arithmetic returns any double, which
is all that the tower relies on. `IdealNumbers` has integers instead of fixnums
and bignums, and mathematical definitions of quotient, remainder, modulo and root.

### Reading and the prompt: `Reader`, `Writer`, `Repl`

`Reader` is the lexer and the reader as operators on a text, a
sequence of characters. Each takes a position and returns a datum or a token
with the position behind it, or one of the outcomes the code has:
unfinished (`Incomplete`), wrong (a `SchemeError`), or the end. Positions
replace the `string_view`s the code passes around; look-ahead costs nothing,
because a token is a function of the text and the position. The characters are
those the lexer tells apart, and one letter for all others. Numerals are
symbols here, but for `..`, which the lexer takes for a number and the number
parser refuses. What the code loops or recurs over is a recursive function of the position:
`Skipping` of blanks and comments, `StringEnd` of a string, and `Reads`, which has in one row for each position
what `read_datum` comes to there at every depth, and what is left of a list or vector of either kind and bracket (`Rests`).
A row refers to rows further on only, as the code consumes a token before it recurs. `Writer` is `render`, recursive over data.

`Repl` is `cli/main.cpp` around the loop of `Ctx::run`: the arguments, a file or
piped input as a whole, then the prompt with its buffer. Its reader is a
constant operator, so that what is proved of it holds for every reader;
`MCRepl` puts `Reader` there. `typed` and `ran` are not in the code: the text
since the buffer was last cleared, and the data evaluated since with the ends of what was
read for each. `ReaderLaws` says what the prompt relies on: a datum ends in its text and stays
what it is when a line is added behind, and behind a text in which nothing was found a line is read as if alone.
`MCRepl` has TLC try these laws of the real `Reader` on short texts, and they are proved of it for all. Ctrl+C is an
action at the prompt because replxx delivers keys inside `rx.input` only.

### Macros: `Expander`, `ExpanderMeaning`

A top-level form is expanded at its head, a `begin` runs form by form, a
`define-macro` evaluates its procedure, and everything else is parsed, where a use of a
macro further down calls the evaluator again; an expander may call the `eval` builtin and
start all of it inside. `Expander` has the C++ stack of this: `top` and `seq` frames for
`top_level` and its loop, which hold no `DepthGuard`, `parse` and `eval` frames, which do.
Forms are records. What a macro or a procedure is given is left out: both
take no arguments, and a macro's value is the form it stands for. A
`define-macro` has a single form as its body. Calls that return at
once (a literal, a reference) take no frame and only ask whether the budget has a level left.
The signature form and the form with an expression of `define-macro` are both there
(`DefMacro`, `Alias`).

`ExpanderMeaning` says the same with a worklist instead of a stack: the form at
the head is expanded until it is no use of a macro, a `begin` is replaced by its
forms, anything else is parsed completely and then evaluated. It has no limits.

### The other forms: `Syntax`

`Syntax` translates `parse` and each form parser: a datum becomes a node with
the symbols it keeps and the expressions below it. Since nothing is written before an
error is thrown, an error anywhere is the error of the whole form; its wording is left
out, and so is the order in which two errors of one form would be found. The second half is quasiquote:
templates compiled with their level and instantiated, with the names the
holes read, in order. Holes hold names, literals, quasiquotes and calls of unbound
names, which is enough for them to succeed, fail, and nest.

`MCSyntax` has the other side, on the datums themselves: what derived forms
abbreviate, which names a form leaves free, and what a template means. There too,
`Reads` is what the evaluator looks up: each node with the environment
`expression.cpp` evaluates it in.

### The page: `WebPage`

`web/app.ts` runs one event at a time, with its microtasks, so an action is an event: a
click, Ctrl+Enter, a key in the editor, the end of a load, leaving the page.
`Repl.boot` awaits `createScheme()`; a load may end in any order with others,
or fail. What follows it depends on who asked: `start`, `reset` or a `run` that crashed.
`sessions` are the sessions ever made, with what the page must not know: whether
one is broken (its wasm trapped), stuck, or deleted. A session is stuck after a
JavaScript `RangeError`: the exception passes through the C++ frames without
running their destructors, so that `active` may stay set until a reset.
`Tab` inserts its spaces with `setRangeText`, which fires no `input` event:
`unsaved` says that localStorage does not have them yet.
A page that is asked to unload and stays (`Stay`) has disposed of its session. `delete()` may throw
(`app.ts:153` swallows it): the page drops the session all the same, and that is what "deleted" says.

A link reaches the page in two ways. `Open` loads the page anew. `Follow` opens a link in the tab that
shows the page, or goes back: only `location.hash` changes, and since nothing in `app.ts` listens to
`hashchange`, nothing else happens until the next start calls `Permalink.consume`. The fallback of
*Copy link* (`ShareInURL`) puts a link in the same place. `mine`, `followed`, `overwritten` and the `of` of a
boot are history, not code: what the user last wrote or opened, the link in the URL that is newer than
that and not opened yet, whether a start has opened an older one, and whose crash began a load.

## What is checked

| run | properties | what it shows | size |
|---|---|---|---|
| `Collector_nested` | `NoDangling`, `CollectionEnds`, `IdealSpec`, `HeapWithinThreshold` | with runs nested three frames deep, no pointer in a field or frame ever dangles, because a collection strikes only when no frame holds anything; marking ends on every graph; the work list implements atomic collection, and the threshold follows the live objects | 3 addresses, vectors, 3 frames |
| `Collector_code` | `TypeOK`, `SweepFreesGarbageOnly` | for closures, syntax, environments, promises and macros: a sweep frees exactly what is unreachable | 3 addresses, 1 macro, 2 frames |
| `Session` | `TypeOK`, `DepthBalanced`, `ActiveBalanced`, `CallbackInCall`, `CallInProgressUndisturbed`, `ContractSpec`, `CallsReturn` | a call is one step of the contract; however it ends, the session is as before it; a call from a callback is refused; every call returns, also of a file that loads itself | 2 calls, 8 sources, 4 callbacks, depth 4 |
| `Evaluator_meaning` | `TypeOK`, `DepthBounded`, `ComputesMeaning`, `LoopsInPlace`, `LibraryIsRight` | programs come to what the semantics says, with the same store; tail loops do not nest; the library is right, on data longer than the limit of nesting too | about 7500 programs, depth 9, lists of up to 10 elements |
| `Evaluator_force` | `ForcedOnce` | *violated*: finding 1 | 2 re-entrant promises |
| `Numbers` | `AllCanonical`, `IdealSpec` | representations are canonical and never show, with a `size_t` narrower than `int64_t`, as in the WebAssembly build | fixnums of 4 bits, size_t of 2, 15 integers, 9 doubles |
| `Repl` | `PromptTells`, `PiecesAreTheWhole`, `BatchStatus`, `NeverWaitsInVain`, `ReadsWhatItWrites` | a program typed in pieces is the program; a file runs in order up to its first error and the status says how it ended; the prompt asks only for what can help; data written read back | 3 lines out of 19, every text of 3 characters out of 13, nesting 3 |
| `Expander` | `TypeOK`, `DepthBalanced`, `ComputesMeaning`, `EveryFormEnds` | programs of macros that redefine, shadow, expand to and evaluate each other do what the worklist says, unless they meet a limit; the depth budget balances; every form ends | 3185 programs of 4 forms, depth 6, 3 expansions |
| `Expander_crash` | `NeverCrashes` | *violated*: finding 2 | 1 macro, a stack of 40 frames |
| `Syntax` | `TypeOK`, `DerivedForms`, `LexicalScope`, `QuasiquoteMeaning` | what is parsed can be evaluated; derived forms are what they abbreviate; a form reads the names its scope leaves free; templates come to what they mean | 20 keywords on up to 3 of 16 words, templates of three levels |
| `WebPage` | `TypeOK`, `OneSession`, `FreshIsFresh`, `DisabledWhileBooting`, `EditsSurvive`, `ButtonsComeBack`, `CrashedIsReplaced` | one session is live and no other leaks, a fresh one is fresh, buttons come back, a crashed session is replaced, and programs are where they should be, whichever loads race and wherever links are opened, but for a link left unread in the URL (see the notes below the findings) | 3 loads, 2 failures, 2 reloads, 2 programs |
| `WebPage_lost` | `DefinitionsKept` | *violated*: finding 3 | 3 loads |

Why these bounds are enough. Three addresses are the smallest number for which
an object is kept only through another one while a third is garbage; the
threshold starts at 1, so that a collection happens with and without garbage.
Three frames give a run inside an evaluation inside a run, which is the only
shape in which a collection could strike while an evaluation holds pointers.
A session's second call suffices to see what the first one left behind; depth 4 makes the limit
strike in a load inside a load inside a guard. The programs of `Evaluator_meaning` are generated: each of 32
one-hole contexts around each other around six expressions that succeed, read or fail
in different ways, so that every action meets every outcome of every other; the
loops make 9 turns through each pair of tail positions with a limit of 9, so a
tail call that nested would hit it. The lists given to the library have no, one, four and ten elements:
with ten, a procedure that nested an evaluation per element would hit the limit, and nine levels are what `map` of
several lists needs. The literals of `MCNumbers` are the
integers and doubles on both sides of every limit of the model. That `size_t` is the wider
one, as on a desktop, is left to the theorem, which holds for both.

Four top-level forms are a macro, two forms that may redefine it or what it stands for, and a
use. Three expansions and six levels are met by every endless macro and by no
other program. Three words after a keyword reach every arity the parser tells apart, and
the words are chosen to be right for one form and wrong for the others. Three
levels of quotation are one more than the level that is kept and the level that
is evaluated. Two loads can overtake each other; with a third, one made for a crash overtakes one made for a
reset that itself followed a crash, and both loads of a session that crashed twice can fail: hence two failures. The second reload finds what the first one
left in the URL and in localStorage.

The lines of `Repl` open, close and break every kind of token and datum:
three of them suffice to open one thing in another, fail to close it, and see what
is left over. Limits of nesting strike at the third bracket.

Deadlock is checked where the system can always go on (heap and numbers). A
session whose host makes no further call, a program that has come to its end,
the command line and a page out of loads do stop, and those runs say `CHECK_DEADLOCK FALSE`.

Fairness. `Collector_nested` assumes that a collection in progress takes its next
step: `Ctx::collect` is a loop on the only thread there is. `Session`
assumes the same of the interpreter during a call, and that a host's callback
comes back, which is the host's part of the bargain. No fairness is assumed of
the host's decision to call. `Expander` assumes that the interpreter goes on while a form runs. `WebPage`
assumes that each load ends, well or badly: `createScheme()` settles its promise, the browser gives up on a
fetch in the end. Nothing is assumed of the user.

### Findings

1. **A promise can run twice** (`types.cpp:546`). README:183-184 says that `force`
   "evaluates it and memoizes the result, so the expression runs at most once".
   `Promise::force` assigns the value to `state` without looking whether the
   evaluation has forced the same promise meanwhile. `Evaluator_force` finds a
   promise whose body forces it again until a variable reaches 0: the inner force
   memoizes a value, and the outer one runs the rest of the body and replaces it.
   (R7RS asks for the first value to be kept.)
2. **A macro can take the process down** (`parser.cpp:574`). README:334-337 says of deep
   recursion that overflowing it "raises a catchable error rather than crashing the
   session". `top_level` calls itself for every form of a `begin`, holds no `DepthGuard` and
   starts a new count of expansions, so `(define-macro (m) '(begin (m))) (m)` recurses until
   the C++ stack ends: `Expander_crash`, with room for 40 frames; nothing else bounds it.
3. **A load that ends late throws definitions away** (`web/app.ts:176`). README:73-74 says
   "A session keeps its definitions across runs". After a crash the page loads a
   new session with the buttons enabled. `WebPage_lost`: a reset meanwhile, or a second
   crash, gives the user a session that works; the load that ends last replaces it and what
   was defined in it. The second crash of one session needs an exception raised outside `ActiveSession`,
   which would otherwise refuse the second run; the reset needs no such thing.

Noted while modelling, and checked by no run:

- `Ctx::collect` takes the macro table as a root beside the global environment;
  README:244-245 names only the latter.
- Edits can be lost to a link, although README:72 says that "the program persists in `localStorage`". A
  link in the URL of a page that has started is not read: `consume` (`app.ts:115-124`) is called by `start()`
  only (line 207), and nothing listens to `hashchange`. It gets there when the
  clipboard is denied and *Copy link* falls back on the URL, or when a shared link is opened in the tab that shows the
  page. The user goes on editing; the next reload prefers the link, shows it, and saves it over the edits. In
  the model: `ShareInURL` or `Follow`, `Edit`, `Reload`, `LoadEnds`. `EditsSurvive` excepts exactly what follows from such
  a start (`overwritten`), and holds again from the next edit.
- A rejected load leaves the page's buttons disabled until it is opened again
  (`DisabledWhileBooting`), or, after a crash, the crashed session in use.
- A named `let` makes its formals without `Formals::parse`, so it alone accepts a parameter twice.
  `DerivedForms` excludes that case.
- `stream->list` is not a loop: it takes a level for each element, so streams longer than about
  `max_depth` raise "recursion too deep". `stream-take` forces the cell after the last it takes, so taking
  everything up to a failing element fails (the last case of `OfStreams`).
- `,@` right under a `,` or `,@` that is kept is an error, though the kept form is a list.

## What is proved

Theorems hold for every value of the constants that satisfies the modules'
named assumptions. No theorem assumes a bound of the TLC runs.

| theorem | module | property |
|---|---|---|
| `TypeCorrect` | `Collector_proof` | `TypeOK` |
| `NothingDangles` | `Collector_proof` | `NoDangling` |
| `SweepIsExact` | `Collector_proof` | `SweepFreesGarbageOnly` |
| `MemoryFollowsUse` | `Collector_proof` | `HeapWithinThreshold` |
| `ImplementsIdealHeap` | `Collector_proof` | `IdealSpec` |
| `TypeCorrect`, `DepthIsBalanced`, `ActiveIsBalanced`, `CallbacksBelongToCalls`, `RefusalIsHarmless` | `Session_proof` | `TypeOK`, `DepthBalanced`, `ActiveBalanced`, `CallbackInCall`, `CallInProgressUndisturbed` |
| `SessionMeetsContract` | `SessionContract_proof` | `ContractSpec` |
| `CanonicalForm`, `Implements` | `Numbers_proof` | `AllCanonical`, `IdealSpec` |
| `DepthIsBounded` | `Evaluator_proof` | `DepthBounded` |
| `TypeCorrect` | `Evaluator_proof` | `TypeOK` |
| `CapturedStays` | `Evaluator_proof` | no step unbinds a name, moves an environment or makes a forced promise a thunk |
| `PromptsTell` | `Repl_proof` | `PromptTells` |
| `PiecesMakeTheWhole`, `StatusTells` | `Repl_proof` | `PiecesAreTheWhole`, `BatchStatus`, of any reader that keeps `ReaderLaws` |
| `ReaderKeepsLaws` | `Repl_proof` | the reader in `Reader` keeps `ReaderLaws` |
| `ProgramInPieces`, `ProgramStatus` | `Repl_proof` | `PiecesAreTheWhole`, `BatchStatus`, of that reader |
| `TypeCorrect`, `BudgetIsBalanced` | `Expander_proof` | `TypeOK`, `DepthBalanced` |
| `TypeCorrect`, `NothingLeaks`, `FreshnessHolds`, `ButtonsFollowBoots`, `EditsAreKept` | `WebPage_proof` | `TypeOK`, `OneSession`, `FreshIsFresh`, `DisabledWhileBooting`, `EditsSurvive` |

*Collector.* That nothing dangles is not inductive: a dangling pointer would be
harmless if nothing held it. The invariant says that fields of owned objects,
macros and the pointers in frames are all owned; that a frame between two forms
holds nothing and lies innermost, and that runs lie on evaluations (`FrameShape`), so
that at depth 0 there is one frame and it holds nothing; and, while marking, that
the visited and pending entities contain the roots, are closed under references
but for the pending ones, and are all reachable (`MarkInv`). When the work list
is empty the marked set is closed and contains the roots, so it is what is
reachable, and both exactness and the refinement follow. Addresses are a finite
set where cardinalities are compared. Reachability is the intersection of all
closed sets that contain the roots, not a recursion, so that it can be reasoned
about.

*Session.* The depth counter equals the number of evaluation frames only
because of where frames can lie: each kind of frame has a fixed set of kinds
below it, a call is the outermost frame, a callback the innermost. This shape of
the stack is the inductive invariant, with the balance of the depth counter, the flag and the slot as its
further conjuncts; lemmas say what pushing, popping and replacing a frame do to it and
to the number of evaluation frames.

That a call keeps the contract cannot be seen from its last state: it needs to be known at
every step what the call is going to do. The frames tell. Each frame turns what the one above it
comes to into what it comes to itself (`Comes`): a run goes on with the forms behind,
an evaluation with the builtins behind, a guard stops an error, a callback may throw.
Starting from the events so far and the exception in flight, one gets outwards to what
the call comes to, and the invariant (`Promised`) is that this is what the contract says of its
source. That table of what the frames come to is existential (`Foretold`), so that nothing recursive has to be said of
the stack, and a step moves, pushes or pops one frame of it (`PromiseMoves`, `PromisePushes`, `PromisePops`): that
the innermost frames come to the same as before is then an equation between what has
happened and what is still to come, one for each action. These equations rest on sequencing being associative
(`ThenAssociates`), on a guard leaving alone what came before its body (`GuardedThen`), and on the
equations of the contract's recursive functions. The latter are definitions by `CHOOSE`, and
`LoadsLaw` and `InOrderLaw` show, by induction over a set of numbers, that the functions exist.
`Promised` also needs to know which frame may stand on which (`Shape`): a run is loaded by a form, never by a guard.

*Numbers.* Canonical form is inductive by itself; it needs, of each operation,
that `of_i64` and `from_bigint` return canonical numbers. The refinement needs
it: that comparing a fixnum with a bignum may look at the sign alone, that a
quotient never wraps, because `INT64_MIN` is no fixnum, and that a cast to
`size_t` loses nothing. Lemmas relate truncated division to the flooring one of
the mathematical definition.

*Evaluator.* The stack is a sequence no longer than the limit: each of the ways
an action changes it (a push guarded by the limit, a replacement, a return, a
frame unwound) preserves that, and every action is one of these.

That every reference is to something allocated is true of programs the parser makes (`ProgramsParsed`,
the hypothesis of both theorems), and not inductive: an evaluation goes wrong when a frame finds fewer values than
the rest of its `Expr::eval` reads without looking, such as the first of an empty sequence (`eval_sequence`), or
something else than the promise it was to force. The invariant (`Typed`) says that there are a set of
nodes, a set of constants and a set of values, each closed under parts, that all that
is stored or waited for is made of, and that every frame is `Ready`: the innermost one now, those
below it once they get one value more. A new value adds itself to
the set of values; a new environment or promise adds the closures and promises that may refer to it. The set is
existential, so nothing has to be said of how values are built up, which would be recursive.
What `Env::lookup` finds must bind the name. It is a recursive function along the
parents, and that it satisfies its own equation (`LookupLaw`) needs an induction on the
index of an environment. No induction theorem of the library can be used here; the
lemma `Induction` says the same of a *set* of numbers, and follows from a fact of the library that has no
operator as a parameter: strict inclusion of finite sets is well-founded.

*Prompt.* A run stops at an unfinished datum with something left in the buffer,
because the empty text ends without one; that is all `PromptsTell` asks of the reader.
That a program typed in pieces is the program needs `ReaderLaws`. The invariant says that what is still to run is the unread end of the text typed, but for lines in
front of it in which nothing was found (`Left`), and that each datum run is what reading the whole text from the end of
the one before gives; a line put behind the text moves none of these ends.
The laws are proved of the reader in `Reader` (`ReaderKeepsLaws`), for any characters, texts of any length and any nesting limit, so
that nothing is assumed of reading in `ProgramInPieces` and `ProgramStatus` but that `Repl` is given this reader (`TheReader`), as it is in the run.
The argument is one about a text inside another one, followed by nothing or by the end of a line (`Follows`): at every position of the
first, a blank is skipped, a token found and a datum read as at the same place in the second, for every loop of the lexer stops at the end
of a line or goes on past it either way; but what ends unfinished may be continued in the second. A text with a line behind it is the second for the text (at its beginning)
and for the line (behind the newline). That a row of `Reads` is the same needs this of the rows
further on, so it is shown from the end of the text to its beginning, with the same induction over a set of positions (`Backwards`); so is that the recursive functions satisfy their equations,
for which a lemma each shows that they look further on only, `Reads` since a datum ends behind where it begins.

*Expander.* The depth is the number of guards on the stack: every change of the stack is one
frame pushed, replaced by one that holds a guard as the old one did, or taken away, and a lemma for each
says what it does to that number. The kinds of frames follow from the same lemmas; that at most one value is on
its way back, and that the tables keep their names, each has a lemma of its own.

*Page.* The properties are inductive together with the types. That every
other session is deleted needs no more than that `boot` disposes of the one in use
before it keeps the new one, in whatever order loads end; that a fresh session is fresh needs that
nothing reaches it without a word on the console. What the user wrote last is kept because it is always in localStorage, and what the user went to since is
still in the URL when a start looks there (`EditInv`); the step that needs care is the start that finds a link
older than what was written, after which the theorem promises nothing until the user writes or opens something.

Only model-checked: liveness (`CollectionEnds`, `CallsReturn`, `EveryFormEnds`, `ButtonsComeBack`,
`CrashedIsReplaced`), which the prover
does not support; both `ComputesMeaning`, the properties of `Syntax` and
`ReadsWhatItWrites`, whose definitions are recursive over programs and data; `NeverWaitsInVain`, which needs for every
unfinished text a line that ends it to be found; `LibraryIsRight`, since the
library's loops need an induction over lists in each of some forty programs; `LoopsInPlace`, which speaks of the programs of
its run.

## What is not modelled, and the plan

Left out for good: the wording of messages, the text of numbers, fonts and
layout of the page, replxx, libtommath and the browser (their behaviour is
assumed, and named external where a model relies on it), and the pure builtins on strings and characters.

Not modelled either: structural equality and `write` on cyclic data, which never end, and the
C++ stack that instantiating, comparing and printing deep data takes without a `DepthGuard`, since the
code says nothing of how much one level needs; the `read` builtin, which calls the modelled
reader on lines of the terminal and drops what follows the datum.

Of the page: two documents of it at once, in two tabs or with one kept in the back/forward cache, which share
`localStorage` and overwrite each other's program there.

The plan, in the order of what matters most, was: memory safety of the collector; the
session boundary; the evaluator; the numeric tower; reading and the prompt; macros; the web page;
syntax and quasiquote; the library. What could still be added:

1. `Equality`: `equals` and `render` on shared and cyclic data.
2. `read`, with its lines, in `Repl`.
