# TLA+ models of the Helix compiler

This directory holds TLA+ specifications of `helix`, the compiler in `source/`, the
TLC configurations that check them, and TLAPS proofs about them. The code is the
reference: where a comment, a doc or a test says something else, that is stated as a
property and shown to be violated.

## 1. Inventory

`helix file.hlx` runs one thread through these parts, in this order:

| part | code | state | operations |
|---|---|---|---|
| command line | `controller/source/cli.cc` | `parsed_args` | parse, refuse, print help or version and exit |
| driver | `helix.cc`, `core/compile_action.cc`, `core/compile_cxir.cc`, `core/exec_unix.cc` | exit code, `LSP_MODE`, the temporary CX-IR file, the executable | open and write the CX-IR file, run the C++ compiler, understand what it says, remove the file, report |
| compilation unit | `core/compilation_unit.cc` | `CORE_IMPORTED`, the unit's tokens, AST, imports | `pre_process`, `parse_ast`, `build_unit`, `generate_cxir`, `compile` |
| import preprocessor | `preprocessor/source/import_preprocessor.cc` | the unit's token list, `imports`, `start_pos` | `has_processable_import`, `process`, `append`, `extend`, `force_import` |
| import resolution | the same file, `private/utils.hh` | `import_dirs`, `found_paths`, four `found_helix_*` flags | `process_paths`, `final_import_normalizer`, `find_import_priority` |
| lexer | `lexer/source/lexer.cc`, `cases.def` | position, line, column, tokens | `tokenize`, `next_token`, one scanner for each kind of token |
| token list | `token/source/TokenList.cc` | the vector, a cursor with a cached end | insert, remove, slice; advance, reverse, peek |
| AST parser | `parser/ast/source/nodes/*.cc` | a cursor, the list of modifiers, the call stack | one `parse` for each node, about 70 of them |
| CX-IR generator | `generator/source/CX-IR/*.cc` | the list of output tokens | one `visit` for each node |
| test runner | `tests/test_runner.py` | the executables beside the tests, a thread for each test | start helix, run what it built, remove it, judge |
| errors | `libs/neo-panic/source/error.cc` | `HAS_ERRORED`, `ERRORS` | `Panic`, `show_error`, which may `std::exit(1)` |

The parts interact by calls, exceptions, and process globals. `build_unit` calls itself,
through `append` and `force_import`, for each imported module; `CORE_IMPORTED`,
`HAS_ERRORED`, `ERRORS` and `LSP_MODE` are shared by all units of the process. Several
processes (an editor, a build, the threads of `tests/test_runner.py`) share the file
system.

What is hard, and what makes each part correct:

* **import resolution**: state that leaks from one directory of the loop to the next,
  priorities of four kinds of files. Right when the first directory wins and nothing is
  lost without an error.
* **compilation unit**: recursion with edits of the token list by positions remembered
  from before; errors that travel by four routes (return codes, a global, exceptions,
  `std::exit`). Right when errors and modules are not lost, the text of a file is kept,
  dependencies come first, and the loop over imports ends.
* **driver**: processes that interleave on files; exits that skip destructors. Right when
  each executable is built from its own CX-IR, nothing is left behind, and the exit code
  and the last message are true.
* **test runner**: a client that trusts exit codes and files; killed runs leave files and
  processes behind. Right when a test runs what was compiled from it, and passes for its reason.
* **lexer**: cursors that move by several positions, and back. Right when it stays inside
  the text, loses nothing, counts lines, and ends.
* **parser**: a hand-written recursive descent over a cursor whose bounds tests are
  unsigned; tokens are inserted while it walks; errors come back as values that a caller
  may forget to ask for. Right when it ends, never reads outside the list, and gives an
  error or a tree that used the whole text.
* **generator**: a visitor that writes C++ from left to right and changes the tree while it
  walks it; a comma or an access label depends on what was written before; members are
  followed that the parser may have left null, as what a type is made of when it is a function
  pointer. Nobody reads the result back: it goes to the
  C++ compiler as it is. Right when nothing of the program is lost, brackets nest, every
  member keeps the access it asks for, and no null is followed.

`PROJECT.json` lists every component, with the reason for the ones that have no module, and
every hazard with its line.

## 2. Modules

| module | models | state corresponds to |
|---|---|---|
| `ImportResolver` | `process_paths`, `final_import_normalizer`, `find_import_priority` | `args` = the `-I` arguments not yet processed, `dirs` = `import_dirs`, `seen` = the `found_helix_*` flags, `entries` = `found_paths`, `foundAny` = `found_any_import` |
| `CompilationUnit` | `build_unit` and the import preprocessor | `stack` = the units on the C++ call stack, each with its tokens, its `start_pos` (`at`), the files still to append (`queue`) and the files of its `imports` |
| `HelixDriver` | `main`, `CXXCompileAction`, `CXIR_CXX`, for several processes | one `pc` per process; `temp` and `output` are the file system |
| `TestRunner` | the threads of `tests/test_runner.py`, composed with the helix processes of `HelixDriver` | `step`, `seen`, `ran`, `verdict` of each test; `round` = how often the runner was started, `killed` = it was, in the middle |
| `Lexer` | `tokenize` and the scanners | `cur` = `currentPos`, `line`, `column`; `scan` = the local variables of the scanner at work |
| `ParseSteps`, `ExprRules`, `StateRules`, `DeclRules` | the parse functions of `Exprs.cc`, `States.cc` and `Decls.cc`, each a sequence of moves | |
| `Parser` | the machine that runs them | `toks`, `cur` = the list and the cursor of `TokenListIter`, `stack` = the parse functions on the C++ call stack, each with its place (`pc`), the node it holds and what it remembers of the tokens (`tags`, `mods`) |
| `HelixParser` | what the parser with Helix's grammar promises | |
| `LeftRecursion` | which functions a grammar may call, no token taken, before a function has returned, and the assumption that it is never among them; it tells tokens apart by what an alternative sees of them (`Views`: a `::` in front of a `<` is a view of its own) | |
| `ExpressionBudget` | what a grammar's counted loops must be like for every round to take a token, and the invariant of the rounds that are left | |
| `OpenBrackets` | what each function of a grammar may owe at each of its moves, the brackets it has taken and not closed, where a `{}` behind a name may be met, and the assumption that nothing is owed at a return; with the invariants about both | |
| `UncheckedCalls` | what the calls for the names of ffi declarations must be like to fail for f-strings alone | |
| `EmitSteps`, `EmitExprs`, `EmitStates`, `EmitTypes`, `EmitDecls`, `EmitInterface` | the visit functions of `CX-IR/*.cc` and `utils.hh`, each an operator from a node to a sequence of moves | |
| `Emitter` | the machine that makes them, and `Program::visit` | `ast` = the tree, a heap of nodes; `work` = the moves still to be made, which is the C++ call stack; `out` = the list of output tokens; `status` = how it ended; `errored` = `HAS_ERRORED` |
| `HelixEmitter` | what the C++ that is written can be relied on for | |
| `Assembly` | what `build_unit` and the preprocessor are for, without tokens, positions and return codes | `open` = the files being worked on, each with the texts it has so far |
| `UnitAssembly` | that `CompilationUnit` implements `Assembly` | `open` is `stack`, seen as files and imports; `text` is `emitted` |
| `MC*` | instances for TLC | |
| `ImportResolverProofs`, `HelixDriverProofs`, `LexerProofs`, `ParserProofs`, `CompilationUnitProofs`, `AssemblyProofs`, `EmitterProofs` | theorems about the module of that name; `HelixDriverProofs` also about `TestRunner`, `EmitterProofs` about `HelixEmitter` | |
| `StackTheorems` | lemmas: pushing and popping sequences, and the least of some numbers | |

**ImportResolver.** `AddDir` is one iteration of `process_paths` over the `-I` arguments,
`ScanDir` one iteration of the directory loop of `final_import_normalizer`, `Return` what
follows that loop. The initial states choose the base directory, the working directory, the
arguments, whether a module or symbols are imported, and the set of candidate files. Only the files that exist matter, so a file is
a pair of a directory and one of the four kinds.

**CompilationUnit.** A source text is a sequence of abstract tokens: a declaration, a
semicolon, one that the parser, the generator or the lexer rejects, and an import. A foreign
import is a declaration here, unless the search for imports exits at it (`ProcessForeign`). What an
import resolves to is the constant `Resolve`; what `ImportResolver` shows of it (no files
means that an error was reported) is an assumption here. The actions are the calls: `Open`
is the beginning of `pre_process`, which for the first unit imports the core library;
`Process...` is one round of the loop of `pre_process` with one action for each way that
`process` ends; `StartAppend` and `EndAppend` are `append` and `extend`; `FinishHeader`,
`FinishErroneous`, `FinishPreprocess` are the three ways out of `pre_process`; `Parse` is
the rest of `build_unit`. C++ calls nest: a nested unit is pushed on `stack`, and the call
stack has room for `MaxDepth`.

**Assembly.** Six actions: a file is opened by one that asks for it (`Begin`), its texts are
kept by that one (`Keep`) or it is given up with a reason (`GiveUp`), an error is put on
record (`Report`), and the work ends with a text (`Succeed`) or with an error (`Fail`).
`Keep` asks that the file is complete: each file it imports is among its texts, unless an
error is on record. `UnitAssembly` gives the mapping: everything that `CompilationUnit` does
inside one unit (rounds of the loop, edits of the token list, phases) is a stutter, unless it
sets `HAS_ERRORED`.

**HelixDriver.** `BuildStops`, `BuildThrows` and `OpenTemp` are the three ways in which
`build_unit` can end, as `CompilationUnit` shows them. Writing to an open file whose name
another process removed goes nowhere, as on Unix. What the C++ compiler does is a choice:
accepts, rejects with messages that are understood or not, or says something that makes
helix exit, throw or record an error (`CxxConfuses`), whether or not it has built the executable.

**TestRunner** extends `HelixDriver`: a helix process takes steps once a test has started it, with
the options that the runner gives it, and the runner looks at its exit code and at what it
said. `Compile`, `CompileFailed`, `AskAgain`, `Answered`, `Compiled`, `Execute` and `CleanUp` are
the branches of `compile_and_execute`; `Passed` is the rest of `run_test`. `Restart` starts the
runner again, after its end or in the middle, when its helix processes go on.

**Lexer.** One step is one iteration of the loop of `tokenize` or of a scanner. Characters
are representatives of the classes of `cases.def`. A read past the terminating nul of the
string sets `wild`.

**Parser.** The parse functions are written in a handful of macros and idioms
(`IS_EXCEPTED_TOKEN`, `IS_NOT_EMPTY`, `RETURN_IF_ERROR`, `while CURRENT_TOKEN_IS`, a switch on
the current token, `make_node`), so they are given as data: `ParseSteps` names the idioms, and
`ExprRules`, `StateRules` and `DeclRules` write each parse function as the sequence of its
idioms, in the order of the code. `LiteralExpr` of `Exprs.cc` is `LiteralExpr` in
`ExprRules`, and so on; where a function branches, each branch is a sequence of its own, with
the name of what it parses. `Parser` has one action for each idiom and one for each piece of
code that only one function has (`ScopeStep`, `ScanForFn`, `SplitAngles`, `CloseParen`,
`LookBehind`, `AskProcessor`, `CollectModifiers`, `ConstOrNot`). It keeps the order of tests and
moves of the cursor, which token is stepped over by which refusal, the error that goes through every caller
down to one that does not ask (`Fails`), the null node of a `;`, and the budget of rounds of
`Expression::parse`.

What it abstracts: a token is its class, a node its kind and the few flags that later tests
ask for; an element of an f-string, which is parsed on a list of its own, is the choice
between success and error (`ParseElements`), and `Element` parses such a list; a null
reference, a caught-by-nobody exception and a step outside the list end the parse in a
status of their own (`crash`, `thrown`, `wild`).

**Emitter.** The visit functions are straight lines of macros too (`ADD_TOKEN`, `ADD_PARAM`,
`ADD_NODE_PARAM`, `PARAM_LIST`, ...), so they are written like the parse functions, as data:
an operator of the name of the visited class gives the sequence of moves that its visit makes
on the tree as it is. `Emit`, `VisitNode`, `TakeBack` (`tokens.pop_back`), `Report`
(`CODEGEN_ERROR`) and `GiveUp` (a `throw`) are the idioms; `FollowPointer` and `FollowNull`
look through a pointer that is not tested. Where a visit changes the tree and then looks at
it again, the rest of the visit is put off (`Later`, `GoOn`). The edits have an action each:
a list of children is replaced (`SetKids`), a flag set (`MarkIt`), modifiers are copied
(`AdoptModifiers`), a generic argument is added to a type (`HangOn`), the cast operator gets
its parameter (`CastParameter`), a concept gets `self` (`SelfGeneric`), and `main` a second
body that calls the first (`ForwardMain`). A node that is visited again after an edit, as
`main` and the generators are, is another one then: this is why the tree is a heap and not a
term.

A token is the text it stands for, or its class and the node it comes from; a name is a tag;
the value of a number is a flag. `forward_only`, which no caller sets, is left out.

The lines a definition stands for are in `PROJECT.json` under `map`.

## 3. Runs

| run | bounds | states | shows |
|---|---|---|---|
| `resolver` | 3 directories, 4 kinds each, one `-I` | 2.1 million | the first directory contributes, nothing is lost in silence |
| `unit` | 6 files, up to two statements of 18 kinds in the main file, one in each other | 0.4 million | insertions inside the list, no error and no module lost, dependencies first, declarations kept; `CompilationUnit` implements `Assembly` |
| `unit_live` | programs whose imports all resolve, cyclic ones too | 23 thousand | programs end, and clean ones with code 0 |
| `driver` | 2 processes, 1 output, all options | 0.4 million | whose text is built, what is left, what is said |
| `runner` | one test of each kind, a runner that is started twice and may be killed at any step | 1.7 million | which executable is run for a test, and which error tests pass |
| `lexer` | every text of 4 to 6 characters over an alphabet for each scanner | 0.3 million | bounds, tiling, lines, delimiters, termination |
| `parser` | 55 texts, each also cut at every token, without each token, and with each token replaced by `;`, `{` or `)`: 1872 | 87 thousand | brackets, the end of the list, recursion, the budget of rounds, exceptions, that good texts are accepted, termination |
| `emitter` | 3262 trees: each form of each node, alone and in each place that its visit or its parent's visit treats differently | 0.3 million | brackets nest, only commas are taken back, nulls are followed only where named, members keep their access, requirements use declared arguments, no name or literal is lost |
| `unresolved`, `file_import`, `header`, `quote` | small instances | | one disagreement between code and comment each, see section 6 |

*Why the bounds are enough.* The resolver treats directories alike and keeps four flags
between them: with three directories each flag can be set before, at and after the one
looked at. Imports nest three deep in `unit` (main, module, module), and a cycle reaches
`MaxDepth`; a second import in the main file meets the state that the first one left. Two
processes are enough for the driver because a file is named by one process or by all. Tests
have executables of their own, so one is enough for the runner; what a round leaves behind
meets the next one. The
lexer has no state beyond a scanner, so a text of one token and its neighbours exercises
each loop; `SizeMax` is 16 in place of 2^64, far from what a text of five characters can
count to, except by going below zero. The parser has no state but its call stack and the
cursor, so what a parse function does depends on the tokens in front of it and on who called
it; the texts enter every parse function, from a declaration, a statement, an element and an
import, and the damaged ones take each of its refusals, with end of file behind every token.
The parser is deterministic, but for f-strings, so each text is one long behaviour (185
steps at most). `SoundTextsParse` speaks of the undamaged ones only, which are of the forms
that the code of `tests/` and of the standard library is written in. The emitter walks
from left to right and remembers only what it wrote and what it changed in the tree, so what
it does with a node depends on the node, on its parents, and, for labels and commas, on the
sibling in front: the trees of `MCEmitter` have each class of node in each form its visit
tells apart, classes with every pair of members, and each kind of expression inside each
other one that treats it differently. They are in shapes that the parser builds; that a
parser can leave a member null is one of the forms.

*Deadlock* is checked in every run; a finished program stutters (`Done`, `Ended`).

*Fairness.* `CompilationUnit`, `Lexer` and `Parser` are one thread that never waits for anything: weak
fairness of the whole next-state relation says only that the program goes on while it can.
The emitter has no liveness property: that the run is finite, and that a walk can only end
(a deadlock is an error), says the same of its trees.
The driver has no liveness property: it would need the C++ compiler to end.

Each property has a mutant in `PROJECT.json`: a definition of the model changed the way a
plausible mistake in the code would change it, for which TLC finds the property violated.
The mutated operators stand in front of the definitions they replace and their comments
begin with "A mistake".

## 4. Proofs

TLC checks the instances above; TLAPS proves the following for every value of the constants
(any number of processes and outputs, any set of texts and operators).

**ImportResolverProofs.** `Invariance` proves `[]Inv` for any set of directories and any
list of `-I` arguments. `FirstDirectoryContributes` speaks of the end of the loop and is not
inductive; what carries it is that the flags are those of the directories scanned so far and
no others (`SeenSoFar`), that a directory has entries when a flag was set by then
(`EntriesWhenSeen`), that entries are in the order of directories (`EntriesInOrder`), and
that the earliest directory with entries has a file behind one of them (`FirstHasEntry`).
For an import of a module alone, the files that the stale flags add were found where they
were first added (`ModulesWereFound`). `PriorityIsTheChain` shows that the condensed
`FindImportPriority` of the model is the chain of sixteen tests in `utils.hh`. The corollaries are `TypeCorrect`,
`FirstDirectoryWins`, `NothingIsLostSilently` and `ModuleImportsAreReal`.

**HelixDriverProofs.** `Invariance` proves `[]Inv`. The four safety properties are not
inductive: `LeftoversMeanExit` needs to know that a process that reached `main` had its file
removed or never opened, `EditorSeesErrors` that `LSP_MODE` was set on the way to `main`
when there was an error. The parts added are `EndedStops` (`ended` says how `pc` came to
"end"), `OwnFile` (the file named after a process holds its text or nothing, and there is no
such file before it opens one or after it is through), `ErrorsKnown` (errors are recorded,
and where `LSP_MODE` is set) and `BuiltInMain`. The corollaries `TypeCorrect`,
`OutputsAreOwn`, `NothingIsLeft`, `EditorsSeeErrors` and `SuccessIsBuilt` are types and the
properties of the run `driver`.

A second section is about `TestRunner`, for any number of tests, rounds, processes and kills.
`RunnerInvariance` proves `RInv`, which says of the processes what `Inv` says of those of
`HelixDriver` (they are started by threads here and killed with them, so it is proved again),
and ties them to the threads: which process a thread has started at each of its steps, that
nobody but it works for the test, and what the file at the path of the test may be, a program
of a process of this round that is to say success, or that met a line of the C++ compiler it does
not understand, or, once a runner was killed, of such a process of an earlier one. That a
test only runs something after a return from `main` is a part of it too.
From it follow `RunnerRunsItsOwn` and `RunnerErrorTests`.

**LexerProofs.** `Invariance` proves `[]Inv` with `Inv` the conjunction of `TypeOK`,
`Sound(cur)` (the cursor is at most one past the nul and no read was wild), `ScanSound` (the
scanner began in front of the cursor, and what its locals say of the characters behind it),
`OneLine` (no newline lies behind an operator or number that may be given back: this is why
moving `currentPos` alone keeps the line right), `Tile` and `LinesAreRight`. The corollaries
are `TypeCorrect`, `StaysInBounds`, `NothingIsLost` and `LinesAreCounted`.
`DelimitersAreClosed` adds what a scanner that is over leaves behind the cursor, and that a
block comment moves past its opening at once (`ScanDelimited`). The assumptions are those of `Lexer`: texts over `Chars`, and a positive `SizeMax`.

**ParserProofs.** `TypeCorrect` proves `[]TypeOK`: for every grammar of such moves and every token list,
the cursor never leaves the list (but for the named ways, which end in `wild` before it does), the list keeps its EOF while `>>` is
split, and every function on the stack is at one of its moves. The induction needs to know
what a return finds: `StackOK` says that a function with another above it is not at its last
move, so that going on to the next is defined, and that the function at the bottom was not
called by anybody, so that an error that nobody asks for stops above it; `ListOK` that the
list ends in EOF, which no move steps over. The assumptions are those of `Parser`:
every text is a non-empty sequence of tokens (`InputsAssumption`), every function has a
last move that leaves it (`GrammarAssumption`), and moves that take a token do not take EOF and
name functions that exist (`StepsAssumption`). TLC evaluates all three for Helix's grammar.
`OnlyUncheckedThrow` adds what throws: as `value()` of a parse result throws only where the
result is an error that nobody tested, a parse that throws has on its stack a call whose result
is taken unchecked (`ThrowsUnchecked`). One lemma per shape of step shows it harmless
(`FailsHarmless` for an error that climbs to the last caller that does not ask). Which of
Helix's calls those are is what `ThrowsExplained` says, below.

`RecursionTakesTokens` proves `RecursionConsumes` for every token list. A parser that recurses on
what it has not yet read overflows the stack on a short text, and which function may do so is
decided by the whole grammar: by what each calls before it takes a token, and by which of
those always take one. `LeftRecursion` computes both from a grammar, `Firm` (for each view
of a token, the functions that never return from it without a token taken) and, for each function, those that may be entered or
gone on to under it at the token it was entered at (`EnteredUnder`, `FoundUnder`), and
`NoLeftRecursion` assumes that none is under itself. It is an assumption on the constant
`Grammar` alone, and TLC evaluates it for Helix's: with the theorem, what the run
shows for 1872 texts holds for all. The invariant (`Advances`) relates every two functions on
the stack: the upper one began behind the lower one, or is among those found under it
(`Below`); a function that waits at a call of a firm one finds it firm or behind its start
(`Asked`); one that is past a move that takes a token is past the token it began at
(`Begins`). The steps come down to four: the top turns into another frame (`StaysOn`,
`GoesOn`), calls (`CallsOnTop`), returns (`ReturnsOn`), or an error cuts the stack back
(`FailsOn`), and the two that shorten it are one lemma (`CutBack`).

`RoundsAreEnough` proves `BudgetOnlyForBraces` for every token list. `Expression::parse` counts the
rounds of its loop and gives up with the error "expression is too long" after
twice as many as tokens were left when it was entered; "a way to approx the tokens to
parse", says its comment. That this never refuses a legal expression is not plain, since a round
may take no token (the first one at a `::<`, where the primary has already been left at the
`::`; any one at `{}`, where it is idle), and since `>>`, split in the middle of a
round, makes the list longer than it was when the bound was computed. The invariant is
`Budget`: a function that may yet come to the loop has two rounds more than tokens are left, once
the cursor is behind the token it was entered at (`Enough`). The round it has begun and in which
nothing has been taken counts as its own (`Round`), and so does the token that a `>>` became two
of until the first of them is taken (`Half`). Only the function on top is exempt, where it is
about to return or at `{}`. The assumption is
`RoundsTake`, on the constant `Grammar` alone: a counted loop is the last thing its function
does, every alternative it may choose is firm at what is seen, the function has taken a
token before it unless a `::<` is seen, it is idle only at `{}`, and a `>>` is
split only where a `>` is then taken. TLC evaluates it for Helix's. One lemma per
shape of step carries the invariant: a step that leaves the stack alone or calls
(`ShapePlenty`), the beginning of a round (`RoundPlenty`), the split and the token behind
it (`SplitPlenty`, `HalfPlenty`), a return (`ReturnsPlenty`) and an error (`FailsPlenty`).

`AcceptedIsBalanced` proves `AcceptsOnlyBalanced` for every token list. Nothing in Helix looks at the
brackets of a file as a whole: each parse function closes what it has opened, and a program is
balanced if they all do. What could go wrong is in between: a `(` that is skipped if it is
there, remembered, and closed later in another function (`for`, `catch`); a node that hands
its caller the tags it collected; an operator's name, which is passed unread; a `{}` that
`parse_primary` looks back over; and a type that fails, in the middle of brackets, and is
then parsed again as an expression from wherever the failure left the cursor (`TypeBound`).
`OpenBrackets` computes from a grammar what each function may owe at each of its moves (`Owed`: the
open brackets since it was entered, and whether it remembers a parenthesis), and
`BracketsMatch` assumes, of the constant `Grammar` alone, that nothing is owed at a return,
that a bracket is skipped only where it was noted, that a function which
goes on after a failed call gets no further than a token it will not find (`Stuck`), and that
the moves that pass a `{}` unread are not reached behind a name (`Met`, `Unmet`). TLC
evaluates it for Helix's. The invariant `Straight` says that what each function on the stack has
read since it was entered, up to where the one above it was, is among what it may owe
(`Debts`), unless one of them is lost (`Lost`): has gone on after a failed call, with a token
at hand that will make it fail. `Shown` adds what the move before has shown a function of the
token at hand (`Told`), and who is above whom (`Answered`). A text without an
`op` that is `done` in `Program` then owes nothing from its first token to its last. The
lemma it rests on most is `OpenInJoins`: behind two pieces of a text, the second of them balanced,
what is open is what was open behind the first; so a call that owes nothing when it returns
leaves its caller with the debts it had.

`StringsNeverThrow` proves `ThrowsExplained` for every token list. `FFIDecl::parse` takes
`value()` of its name without a test; it has seen a string, and a literal that is a string
cannot fail, but the elements of an f-string can. `FFINamesAreStrings` states that of the grammar,
and the invariant `NamesAreStrings` that a call for such a name is on top, calls nobody, and
is at its string or one behind it. An error that climbs to such a call is then one of an
element.

**AssemblyProofs.** `AssemblyInOrder` proves that a text `Assembly` succeeds with can be read
from top to bottom (`InOrder`). Its invariant says of every open file that the texts it holds
are in order (`TextsInOrder`), and of the core library that it is on its way up or in front
(`CoreOnItsWay`, `CoreInFront`); a file is opened only by one that asks for it (`AskedFor`).
The step that matters is `Keep`: two texts in order, one behind the other, are in order, and
so is a file behind the texts of all it imports.

**CompilationUnitProofs.** `Invariant` proves `[]Inv` for any files, any
`Resolve`, any programs and any `MaxDepth`. What carries it follows an import statement from
the text of its file to the texts that are kept: `NothingForgotten` says, while no error is
on record, that each is still a token of its unit, or that the files it stands for are
waiting, are being built, or are kept. It needs that the list of a lexed unit ends in `<eof>`
and has no import in front of the place of an edit (`ListOK`), that its imports are those of
the file (`ImportsOK`), that kept texts come from clean files (`KeptClean`, `EmittedClean`),
and that the core library was imported before anything else (`CoreFirst`). Each action is one
of four shapes: the top unit goes on, calls, returns, or everything stops (`UnitGoesOn`,
`UnitCalls`, `UnitReturns`, `EverythingStops`). From `Inv` follow `TypeCorrect`,
`UnitsAreNested`, `HeadersGoInside`, and the refinement `UnitsAssemble`: every step of
`CompilationUnit` is a step of `Assembly` or a stutter. `DependenciesComeFirst` is then the
theorem of `AssemblyProofs` seen through the refinement. `SuccessIsClean` and `SuccessIsAll`
use both: the texts of a success are closed under import, and each is of a clean file.
`DeclarationsAreKept` needs its own invariant (`CodeInv`): a header is copied to nobody but a
unit whose file asks for it (`AskedBy`), and every other edit is the exchange of a statement
for its aliases, over which the declarations before and after are in bijection (`CodeStays`).
The assumptions are those of `CompilationUnit`: what the constants are sets and sequences of, that
the core library is not a header, and what `ImportResolver` shows of names that resolve to
nothing.

Two of its lemmas are of use elsewhere: `ReplaceStatement`, that removing an import and
inserting its aliases leaves every other token, and `AliasFacts`, that what is inserted is
nothing but aliases. The second is an induction over the imported names, done by least
counterexample (`LeastNatural` of `StackTheorems`), since the library's induction rules take
an operator as a parameter.

**EmitterProofs.** The theorems hold for any set of trees (`ProgramsAssumption`: each is a
non-empty heap whose nodes have their children in it), so for programs of any size, nested in
any way, and for heaps that no parser builds. What carries them is `Good`, a property of a
sequence of moves: each move names nodes of the tree, a `pop` stands directly behind a comma
that the same sequence writes, and the sequence closes the brackets it opens (`Leads`, from
one list of open brackets to another) or holds a move that makes the program end in an error
(`Doomed`). `Good` is closed under concatenation (`Join`) and under lists with separators
(`GoodCat`, `GoodCommas`: inductions over the length of the list), so that `GoodMoves`, which
is about every visit function, has one step per function. The two forms that leave a bracket
open, a module named by a path and the call operator of an interface, are let off there
(`LeftOpen`) and named in `BracketsNest`. The requirement of a variable without a type closes
one bracket too few, and is `Good` only because the loop stops there in an error
(`GoodVarRequirement`, `GoodRequirements`).

`EInv` says that there is a tree and that moves and tokens name nodes of it; that a `pop` among
the moves to come stands behind its comma, or comes first with the comma at the end of the
text (`Behind`, `Comes`). One lemma per edit shows that it leaves a tree, with every old node
of its kind (`Keeps`); one per action that it keeps `EInv`. `EmitterTypes` and `CommasOnly`
follow. `BracketsAreClosed` carries on what is open in the text and what the moves to come
close of it (`Ends`). It has a hypothesis, `[](Unclosed => []Unclosed)`: no edit makes a form
that leaves a bracket open disappear. In an arbitrary heap the operator of an interface may
also be a member of a class, and writing it there takes its `self` away, so that it no longer
counts as a call operator; a parser's trees share nothing. TLC finds no
such step from the trees of the run `emitter`.

*Only model-checked*: liveness (`CleanProgramsCompile`, `ResolvedProgramsEnd`,
`Terminates`, `ParserEnds`), which TLAPS does not do under fairness. Of the parser
`LeavesListOnlyUnbalanced`: where the type of `TypeBound` failed and an expression is parsed in
its place, `Straight` says nothing more of any frame, as nothing is accepted from there. That
expression may begin at a `{}` behind the name the failed type left, which is then passed
unread, and may hold a whole function with a `for (` that is never closed: the invariant would
have to follow each frame above the lost one by itself, with that `{}` exempted. `SoundTextsParse` is about the texts of
the run. Of the emitter `NullsExplained`, `MembersKeepTheirAccess`, `ArgumentsDeclared` and
`NothingIsLost`, which are of the trees that the parser builds: a heap in which a node has two
parents, or a class among its own members, has none of them.

## 5. Plan

1. `ImportResolver`, `CompilationUnit`, `HelixDriver`, `Lexer`, `Parser`, `Emitter` with
   their rules: done.
2. `Assembly` and the refinement of it by `CompilationUnit`, `TestRunner` as a client of
   `HelixDriver`: done.
3. Proofs of every safety property of `ImportResolver`, `HelixDriver`, `TestRunner` and
   `CompilationUnit`, of `Assembly`, of the lexer, of the types, the recursion and the budget
   of rounds of the parser, of the brackets of what it accepts and of what it throws for, and of
   the types, commas and brackets of the emitter: done.
4. Left to prove: that the parser leaves its list only in an unbalanced text; of the emitter,
   what needs that a tree is one.
5. Left to model: the composition of `HelixDriver` with the outcomes of `CompilationUnit` in
   one run.

## 6. Disagreements between the code and what is said of it

Shown by a run:

* `unresolved`: an import without a file is reported and processed again, for ever.
* `file_import`: `import "file"` dereferences a null import processor.
* `header`: a header is inserted with its `<eof>`, and the program is refused.
* `quote`: a string that ends in a quote of the other kind, such as `"'"`, is refused.

Met while modelling, without a run of their own. In the preprocessor and the driver: the
`found_helix_*` flags survive from one directory to the next (`import_preprocessor.cc:871`,
`:904`), so the resolver can return files that are not in the directory it names (`:972`); an import
without its semicolon (the grammar of `States.cc:74` asks for one) is accepted and swallows
the beginning of what follows, up to the next semicolon and another import with it; a repeated item of one kind is resolved
"libs first" in a comment and by directory in the code (`import_preprocessor.cc:1006`); the
first element of `import_dirs` is not always the working directory (`:580`); "could not
locate import" is also reported when only a library header was found (`:1099`); headers are
inlined again for every import in spite of "avoiding duplicates" (`:651`); code 2 of
`build_unit` stands for errors as well as for `--emit-ast` (`compilation_unit.cc:204`);
"compilation successful" is printed without an executable when there is no C++ compiler
(`helix.cc:58`); with `--emit-ast --lsp-mode` errors give exit code 0 and no JSON;
`--verbose --debug` processes share one file name. In the lexer: `/**/` does not close a comment; a
directive without `]` is accepted; columns drift to the right of every number or operator
that gave characters back.

In the test runner: an error test passes when there is no C++ compiler ("No output file
found" is what it takes for the error, `test_runner.py:106`), and fails when helix reports
errors and says that it aborts, which is on stdout (`:156`); a test without a valid marker
passes when it compiles (`:83`); output that stops early agrees with what was expected, and the
exit code of the program is not looked at (`:173`); after a killed run the program of that run
may be tested; and a program whose compilation helix calls an error is tested like any other, when
the error was a line of the C++ compiler's output that is no error, as a warning of the linker
(`compile_cxir.cc:182-239`): `compile` returns 0 all the same.

In the parser, all of them behaviours of the model too. The operand of a prefix operator is a
whole expression (`Exprs.cc:652-676`), where the grammar has a primary one (`:54`): `-a + b` is
compiled as `-(a + b)`, and `!a.n && !a.d` of `tests/main.hlx:217` as `!(a.n && (!a.d))`. Ends that are neither a tree nor an error: a
`for (` or `catch (` that is never closed, `op` without `fn`, and a text that begins with
`{}` leave the list (`States.cc:506`, `Decls.cc:1153`, `Exprs.cc:205`); `import a::{};`
throws `bad_expected_access` (`States.cc:1094`); `let x: ;`, `fn ;` and a path that begins
`::<` follow a null or an absent node (`Exprs.cc:224`, `:961`); an `import "file"` inside a
body has no import processor (`States.cc:1203`). Texts the grammar comments allow and the code refuses:
`for (;;) {` (`States.cc:63`), `while x == 1 {}` and other conditions in front of an empty
body ("expression is too long", `:58`), `pub enum` (`Decls.cc:72`), `static const x`, `inline
module`, function types of two parameters (`Exprs.cc:1737`), `f(1)(2)`, `a as i32 + 1`; `if x
{ y = 3; }` is read as an object initializer. Accepted where one would not expect it: an
else-if behind a plain else, a default of the first parameter in front of one without
(`Decls.cc:866`), tokens behind the expression in an f-string element or a directive,
modifiers in front of a statement, which are dropped.

In the emitter. Programs that become other C++ than they say, or none that compiles: a `let`
of several variables inside a class has nothing between its variables (`tests/mat_test.hlx:42`
has one; `CX_VarDecl.cc:53`); a module whose name is a path opens braces where it should close
them, visits its body twice and drops the last name (`CX_Decls.cc:126-149`), and
`module ::a` counts down from zero; an interface that asks for a call operator leaves a bracket open;
a generator operator is public whatever it asks for (`CX_Operator.cc:48-65`); a constant or a
type at the top of a file gets no `;`; a function nested deeper than the body of another
becomes a C++ function inside a function; the first declaration of a `?` or `!` operator has
no name (`CX_Operator.cc:81-123`), and `static_cast<T*>(nullptr;)` has a semicolon inside.
Null pointers that are followed: see `TakenForGranted` in `HelixEmitter`. A type that is a
function pointer has no value (`Exprs.cc:1761`), and the emitter crashes where it looks at that
value: at any type of an interface (`CX_Interface.cc:60`), at a type behind a `*` or `&`
(`CX_Exprs.cc:97`), so that `let f: *fn(i32) -> i32;` has no C++, and at the result of the
operators `in`, `panic` and `?` (`utils.hh:558`, `:669`, `:686`). Comments that say
otherwise: "if the body of a function/operator contains a panic statement then the return type
must be nullable" (`utils.hh:856`), but only the direct statements of the body are looked at,
and a function that panics and has no result follows a null (`utils.hh:880`); "there can not
be a function named begin" beside a generator (`CX_Class.cc:78`), which is only seen of
members in front of it; types and constants are listed as allowed in an interface
(`CX_Interface.cc:45-50`) and refused (`:179-218`). Also: `trivially_import(false)` counts as
true (`utils.hh:1062`); the error of a class that extends a function pointer or a nullable
type is made and dropped (`CX_Class.cc:230`); special members that delete are written
`= default`; two names that `generate_unique_name` makes may be equal (`utils.hh:58`).

## 7. Not modelled

`ffi "c++" import a::<` is accepted, where the code refuses it behind its import because of what
its string says (`Decls.cc:1025-1049`); for other C++ modules that test only prints a message.
The texts of messages, the printing of tokens and trees, the JSON of a language server, the
layout of the C++ text and its `#line` directives (`CXIR.cc`), whose order alone is in
`CompilationUnit`; Windows (`compile_cxir_msvc.cc`, `exec_win32.cc`); the visitors that print
a tree; the macro preprocessor, the CST and the LLVM-IR headers, which nothing calls.

Two thirds of the lines of C++ in the repository are vendored under `libs/` (JSON with its number
formatting, argument parsing, pretty printing). Helix calls them at a handful of
places, with the effect that the models give those places; their algorithms are not Helix's, and no
module is about them.

## 8. Running

    tlc -workers 2 -config MCLexer.cfg MCLexer
    tlapm LexerProofs.tla
