--------------------------- MODULE CompilationUnit ---------------------------
(***************************************************************************)
(* CompilationUnit::build_unit and the import preprocessor: the recursion   *)
(* that turns one source file, and every file it imports, into one CX-IR    *)
(* text.                                                                    *)
(*                                                                         *)
(* A unit is one CompilationUnit object; the units under construction form  *)
(* the call stack.  A module import runs build_unit on the imported file    *)
(* and keeps its CX-IR; a header import only runs pre_process and splices   *)
(* the tokens into the importing file; the core library is imported by the  *)
(* first unit of the process.  CORE_IMPORTED and HAS_ERRORED are process     *)
(* globals.                                                                 *)
(*                                                                         *)
(* A source text is a sequence of abstract tokens: `code` is a declaration  *)
(* without its semicolon, `bad` one the parser rejects, `badgen` one the    *)
(* generator rejects, `badlex` text the lexer rejects, and an import token  *)
(* stands for the words of an import statement up to its semicolon.         *)
(***************************************************************************)
EXTENDS Naturals, Sequences, FiniteSets

CONSTANTS
    Files,     \* source files, the core library among them
    Main,      \* the file on the command line
    Core,      \* <exe>/../../core/core.hlx
    Headers,   \* the .hdlx files
    Trivial,   \* files that hold #[trivially_import(true)]
    OnDisk,    \* the files that exist
    Names,     \* what a statement imports: one path, or the list of a::{b, c}
    Resolve,   \* the files this resolves to, in the order they are returned
    Reported,  \* the names for which "could not locate import" is reported
    Programs,  \* the programs to consider: functions from files to texts
    MaxDepth   \* bound: nested units the C++ call stack has room for

ASSUME FilesAssumption ==
    /\ Main \in Files /\ Core \in Files /\ Main # Core
    /\ Headers \subseteq Files \ {Main, Core}
    /\ Trivial \subseteq Files
    /\ OnDisk \subseteq Files
    /\ MaxDepth \in Nat \ {0}

ASSUME ResolveAssumption ==
    /\ Resolve \in [Names -> Seq(Files)]
    /\ Reported \subseteq Names
    /\ \A n \in Names : Resolve[n] = <<>> => n \in Reported

Plain(k)      == [t |-> k]
Import(fm, n) == [t |-> "import", form |-> fm, name |-> n]
Alias(f)      == [t |-> "alias", file |-> f]

(* The shapes of an import statement: names that are imported as they are   *)
(* or with `::*`, a statement the parser rejects, a path that ends in        *)
(* something that is no identifier, and `import "file"`.  A foreign import    *)
(* (`ffi "c++" import`, read up to its semicolon or brace) is left for the    *)
(* parser and counts as `code`; "foreign" is one that cannot be read: no      *)
(* string behind its `ffi`, or nothing that closes it.                       *)
Forms == {"plain", "wildcard", "malformed", "badpath", "file", "foreign"}

PlainTokens == {Plain(k) : k \in {"code", "semi", "bad", "badgen", "badlex", "eof"}}
Tokens ==
    PlainTokens \cup {Alias(f) : f \in Files}
        \cup [t : {"import"}, form : Forms, name : Names]

ASSUME ProgramsAssumption == Programs \subseteq [Files -> Seq(Tokens)]

VARIABLES
    src,           \* the program, fixed at the start
    lspFlag,       \* parsed_args.lsp_mode: show nothing, answer in JSON
    emitAst,       \* parsed_args.emit_ast
    stack,         \* the units under construction, the innermost first
    coreImported,  \* CORE_IMPORTED
    hasErrored,    \* error::HAS_ERRORED
    lspMode,       \* LSP_MODE
    emitted,       \* the files of the CX-IR of Main, in textual order
    result         \* how build_unit on Main ended

vars == <<src, lspFlag, emitAst, stack, coreImported, hasErrored, lspMode,
          emitted, result>>
args    == <<src, lspFlag, emitAst>>
globals == <<coreImported, hasErrored, lspMode>>

Modes   == {"root", "core", "module", "header"}
Phases  == {"open", "scan", "append", "parse"}
Unit    == [file : Files, mode : Modes, phase : Phases, toks : Seq(Tokens),
            at : Nat, queue : Seq(Files), imports : Seq(Files)]

(* "0", "1" and "2" are build_unit's return codes; "exit" is std::exit(1)   *)
(* inside it, "panic" an error::Panic thrown through it, and "crash" a       *)
(* signal or an exception nobody catches.                                   *)
Results == {"none", "0", "1", "2", "exit", "panic", "crash"}

-----------------------------------------------------------------------------
(* Tokens *)

(* An import, or an `ffi` at which the search exits.                        *)
HasImport(s) == \E n \in DOMAIN s : s[n].t = "import"

(* where has_processable_import and process stop: the first import token    *)
FirstImport(s) ==
    CHOOSE n \in DOMAIN s :
        s[n].t = "import" /\ \A m \in 1 .. n - 1 : s[m].t # "import"

SemisAfter(s, p) == {n \in DOMAIN s : n > p /\ s[n].t = "semi"}

(* A mistake: the last semicolon.                                           *)
LastSemi(s, p) == CHOOSE n \in SemisAfter(s, p) : \A m \in SemisAfter(s, p) : m <= n

(* the `end` token: the first semicolon after the import token              *)
FirstSemi(s, p) ==
    CHOOSE n \in SemisAfter(s, p) : \A m \in SemisAfter(s, p) : n <= m

Splice(s, p, ins) == SubSeq(s, 1, p - 1) \o ins \o SubSeq(s, p, Len(s))

(* A mistake: the <eof> goes too.                                           *)
RemovePastEnd(s, p) == SubSeq(s, 1, p - 1) \o SubSeq(s, FirstSemi(s, p) + 2, Len(s))

(* TokenList::remove: the tokens from the import up to, not including, end  *)
RemoveImport(s, p) == SubSeq(s, 1, p - 1) \o SubSeq(s, FirstSemi(s, p), Len(s))

Lexable(f) == \A n \in DOMAIN src[f] : src[f][n].t # "badlex"
Lexed(f)   == Append(src[f], Plain("eof"))

(* A mistake: the last declaration is not looked at.                        *)
ParsesButLast(s) == \A n \in 1 .. Len(s) - 3 : s[n].t \notin {"bad", "eof"}

(* Program::parse takes every declaration it knows, and stray semicolons;   *)
(* an <eof> that is not the last token is no declaration.                   *)
Parses(s) ==
    \A n \in DOMAIN s : s[n].t # "bad" /\ (s[n].t = "eof" => n = Len(s))

-----------------------------------------------------------------------------
(* Units *)

NewUnit(f, m) ==
    [file |-> f, mode |-> m, phase |-> "open", toks |-> <<>>, at |-> 0,
     queue |-> <<>>, imports |-> <<>>]

top  == Head(stack)
rest == Tail(stack)

Running == result = "none"

(* A mistake: a return code that compile's switch has no case for.          *)
StopWithThree(how) ==
    result' = (IF how = "2" THEN "3" ELSE how) /\ stack' = <<>> /\ UNCHANGED emitted

Stop(how) == result' = how /\ stack' = <<>> /\ UNCHANGED emitted

(* Nested units are nested C++ calls: there is room for MaxDepth of them.   *)
PushOn(units, f, m) ==
    IF Len(units) < MaxDepth
    THEN stack' = <<NewUnit(f, m)>> \o units /\ UNCHANGED <<emitted, result>>
    ELSE Stop("crash")

Update(unit) == stack' = <<unit>> \o rest /\ UNCHANGED <<emitted, result>>

(* A mistake: the text of a unit in front of its imports.                   *)
CXIRFirst(unit) == <<unit.file>> \o unit.imports

(* generate_cxir: the imports of a unit in front of its own text.           *)
CXIR(unit) == unit.imports \o <<unit.file>>

Generates(unit) == \A n \in DOMAIN unit.toks : unit.toks[n].t # "badgen"

-----------------------------------------------------------------------------

Init ==
    /\ src \in Programs
    /\ lspFlag \in BOOLEAN
    /\ emitAst \in BOOLEAN
    /\ stack = <<NewUnit(Main, "root")>>
    /\ coreImported = FALSE
    /\ hasErrored = FALSE
    /\ lspMode = FALSE
    /\ emitted = <<>>
    /\ result = "none"

(* A file that is not there.  Shown, the panic of kind CompilerError exits;  *)
(* so does normalize_path when the directory is not there either; otherwise  *)
(* the file reads as empty and process_paths throws, uncaught.              *)
OpenMissing ==
    /\ Running /\ top.phase = "open" /\ top.file \notin OnDisk
    /\ hasErrored' = TRUE
    /\ \E how \in IF lspFlag THEN {"exit", "crash"} ELSE {"exit"} : Stop(how)
    /\ UNCHANGED <<args, coreImported, lspMode>>

(* The lexer throws its panic; nothing between it and main catches it.      *)
OpenUnlexable ==
    /\ Running /\ top.phase = "open" /\ top.file \in OnDisk
    /\ ~Lexable(top.file)
    /\ hasErrored' = TRUE
    /\ Stop("panic")
    /\ UNCHANGED <<args, coreImported, lspMode>>

(* read_file and tokenize; the first unit of the process then imports core. *)
Open ==
    /\ Running /\ top.phase = "open" /\ top.file \in OnDisk
    /\ Lexable(top.file)
    /\ LET unit == [top EXCEPT !.toks = Lexed(top.file), !.phase = "scan"]
       IN IF coreImported THEN Update(unit)
          ELSE PushOn(<<unit>> \o rest, Core, "core")
    /\ coreImported' = TRUE
    /\ UNCHANGED <<args, hasErrored, lspMode>>

(* What process finds wrong with the first import of the unit.              *)
ImportAt(unit) == unit.toks[FirstImport(unit.toks)]
Scanning(unit) == unit.phase = "scan" /\ HasImport(unit.toks)

(* A mistake: the token after the semicolon is looked at.                   *)
MalformedOffByOne(unit) ==
    LET p == FirstImport(unit.toks)
    IN \/ ImportAt(unit).form = "malformed"
       \/ /\ ImportAt(unit).form = "wildcard"
          /\ p + 1 >= Len(unit.toks) \/ unit.toks[p + 2].t # "semi"

(* ImportState wants a semicolon after a wildcard, and nowhere else.        *)
Malformed(unit) ==
    LET p == FirstImport(unit.toks)
    IN \/ ImportAt(unit).form = "malformed"
       \/ /\ ImportAt(unit).form = "wildcard"
          /\ p = Len(unit.toks) \/ unit.toks[p + 1].t # "semi"

Named(unit) == ImportAt(unit).form \in {"plain", "wildcard"} /\ ~Malformed(unit)

(* The error is recorded and the statement stays where it is.               *)
ProcessMalformed ==
    /\ Running /\ Scanning(top) /\ Malformed(top)
    /\ hasErrored' = TRUE
    /\ UNCHANGED <<args, stack, coreImported, lspMode, emitted, result>>

(* The parser that process builds has no import processor, which an         *)
(* `import "file"` dereferences.                                            *)
ProcessFileImport ==
    /\ Running /\ Scanning(top) /\ ImportAt(top).form = "file"
    /\ Stop("crash")
    /\ UNCHANGED <<args, globals>>

(* normalize_scope_path exits on `import a::1;`                             *)
ProcessBadPath ==
    /\ Running /\ Scanning(top) /\ ImportAt(top).form = "badpath"
    /\ hasErrored' = TRUE
    /\ Stop("exit")
    /\ UNCHANGED <<args, coreImported, lspMode>>

(* On an `ffi` that cannot be read the search for the first import exits.    *)
ProcessForeign ==
    /\ Running /\ Scanning(top) /\ ImportAt(top).form = "foreign"
    /\ hasErrored' = TRUE
    /\ Stop("exit")
    /\ UNCHANGED <<args, coreImported, lspMode>>

(* No file: final_import_normalizer has reported it, and process returns    *)
(* before it removes the statement.                                         *)
ProcessUnresolved ==
    /\ Running /\ Scanning(top) /\ Named(top)
    /\ Resolve[ImportAt(top).name] = <<>>
    /\ hasErrored' = TRUE
    /\ UNCHANGED <<args, stack, coreImported, lspMode, emitted, result>>

(* A wildcard import reads and lexes each file to look for the              *)
(* trivially_import directive, after the statement was removed.  One that is *)
(* not there reads as empty when nothing is shown and its directory exists.  *)
ReadsFiles(unit) == ImportAt(unit).form = "wildcard"

Readable(f) == IF f \in OnDisk THEN Lexable(f) ELSE lspFlag

ProcessUnreadable ==
    /\ Running /\ Scanning(top) /\ Named(top) /\ ReadsFiles(top)
    /\ LET files == Resolve[ImportAt(top).name]
       IN \E n \in DOMAIN files :
              /\ \A m \in 1 .. n - 1 : Readable(files[m])
              /\ \/ files[n] \notin OnDisk /\ Stop("exit")
                 \/ files[n] \in OnDisk /\ ~Lexable(files[n]) /\ Stop("panic")
    /\ hasErrored' = TRUE
    /\ UNCHANGED <<args, coreImported, lspMode>>

(* TokenList::remove throws when no semicolon follows.                      *)
ProcessUnterminated ==
    /\ Running /\ Scanning(top) /\ Named(top)
    /\ Resolve[ImportAt(top).name] # <<>>
    /\ SemisAfter(top.toks, FirstImport(top.toks)) = {}
    /\ hasErrored' = (hasErrored \/ ImportAt(top).name \in Reported)
    /\ Stop("crash")
    /\ UNCHANGED <<args, coreImported, lspMode>>

(* The statement gives way to a namespace alias, or a using directive, for  *)
(* every file; each is inserted at the place of the statement, so the last  *)
(* one comes first.                                                         *)
Aliases(form, files) ==
    LET upTo[n \in 0 .. Len(files)] ==
            IF n = 0 THEN <<>>
            ELSE IF form = "wildcard" /\ files[n] \in Trivial THEN upTo[n - 1]
            ELSE <<Alias(files[n])>> \o upTo[n - 1]
    IN upTo[Len(files)]

Process ==
    /\ Running /\ Scanning(top) /\ Named(top)
    /\ LET p     == FirstImport(top.toks)
           stmt  == top.toks[p]
           files == Resolve[stmt.name]
       IN /\ files # <<>>
          /\ SemisAfter(top.toks, p) # {}
          /\ ReadsFiles(top) => \A n \in DOMAIN files : Readable(files[n])
          /\ Update([top EXCEPT
                 !.toks  = Splice(RemoveImport(@, p), p, Aliases(stmt.form, files)),
                 !.at    = p,
                 !.queue = files,
                 !.phase = "append"])
          /\ hasErrored' = \/ hasErrored \/ stmt.name \in Reported
                           \/ ReadsFiles(top) /\ \E n \in DOMAIN files : files[n] \notin OnDisk
    /\ UNCHANGED <<args, coreImported, lspMode>>

(* extend and append: one nested unit per file.                             *)
StartAppend ==
    /\ Running /\ top.phase = "append" /\ top.queue # <<>>
    /\ LET f    == Head(top.queue)
           mode == IF f \in Headers THEN "header" ELSE "module"
       IN PushOn(<<[top EXCEPT !.queue = Tail(@)]>> \o rest, f, mode)
    /\ UNCHANGED <<args, globals>>

EndAppend ==
    /\ Running /\ top.phase = "append" /\ top.queue = <<>>
    /\ Update([top EXCEPT !.phase = "scan"])
    /\ UNCHANGED <<args, globals>>

-----------------------------------------------------------------------------

(* pre_process of a header ends: its tokens go into the importing unit,     *)
(* unless any error was recorded, by whomever.  Its `imports` are dropped   *)
(* with its unit.                                                           *)
FinishHeader ==
    /\ Running /\ top.mode = "header"
    /\ top.phase = "scan" /\ ~HasImport(top.toks)
    /\ LET parent == Head(rest)
           toks   == IF hasErrored THEN <<>> ELSE top.toks
       IN stack' = <<[parent EXCEPT !.toks = Splice(@, parent.at, toks)]>> \o Tail(rest)
    /\ UNCHANGED <<args, globals, emitted, result>>

(* A mistake: the unit is not given up.                                     *)
FinishErroneousNever ==
    /\ Running /\ top.mode # "header"
    /\ top.phase = "scan" /\ ~HasImport(top.toks) /\ hasErrored
    /\ UNCHANGED vars

(* pre_process of any other unit returns no tokens after an error, and      *)
(* build_unit returns 1: a module is skipped by whoever imports it.         *)
FinishErroneous ==
    /\ Running /\ top.mode # "header"
    /\ top.phase = "scan" /\ ~HasImport(top.toks) /\ hasErrored
    /\ IF top.mode = "root" THEN Stop("1")
       ELSE stack' = rest /\ UNCHANGED <<emitted, result>>
    /\ UNCHANGED <<args, globals>>

FinishPreprocess ==
    /\ Running /\ top.mode # "header"
    /\ top.phase = "scan" /\ ~HasImport(top.toks) /\ ~hasErrored
    /\ Update([top EXCEPT !.phase = "parse"])
    /\ UNCHANGED <<args, globals>>

(* A mistake: what the module imported is not kept.                         *)
KeepOwnText ==
    LET parent == Head(rest)
    IN /\ stack' = <<[parent EXCEPT !.imports = Append(@, top.file)]>> \o Tail(rest)
       /\ UNCHANGED <<emitted, result>>

(* A module whose build_unit returned 0 or 2 is generated and kept.         *)
KeepModule ==
    LET parent == Head(rest)
    IN /\ stack' = <<[parent EXCEPT !.imports = @ \o CXIR(top)]>> \o Tail(rest)
       /\ UNCHANGED <<emitted, result>>

(* parse_ast and what build_unit does with its outcome: in LSP mode          *)
(* --emit-ast ends the unit with code 2 before the errors are looked at.    *)
(* Code 0 of a nested unit comes before any generation, its importer then   *)
(* generates; the unit of Main generates, then looks at the errors again.   *)
Parse ==
    /\ Running /\ top.phase = "parse"
    /\ LET failed == hasErrored \/ ~Parses(top.toks)
           early  == emitAst /\ lspFlag
           broken == failed \/ ~Generates(top)
       IN IF top.mode = "root"
          THEN IF early \/ failed
               THEN Stop("2") /\ hasErrored' = failed
               ELSE /\ hasErrored' = broken
                    /\ result' = IF broken THEN "1" ELSE "0"
                    /\ emitted' = CXIR(top)
                    /\ stack' = <<>>
          ELSE KeepModule /\ hasErrored' = broken
    /\ lspMode' = IF ~(emitAst /\ lspFlag) /\ (hasErrored \/ ~Parses(top.toks))
                  THEN lspFlag ELSE lspMode
    /\ UNCHANGED <<args, coreImported>>

Done == ~Running /\ UNCHANGED vars

Next ==
    \/ OpenMissing \/ OpenUnlexable \/ Open
    \/ ProcessMalformed \/ ProcessFileImport \/ ProcessBadPath \/ ProcessForeign
    \/ ProcessUnresolved \/ ProcessUnreadable \/ ProcessUnterminated \/ Process
    \/ StartAppend \/ EndAppend
    \/ FinishHeader \/ FinishErroneous \/ FinishPreprocess \/ Parse
    \/ Done

Spec == Init /\ [][Next]_vars

(* The compiler is one thread that never waits: it goes on while it can.    *)
FairSpec == Spec /\ WF_vars(Next)

-----------------------------------------------------------------------------

TypeOK ==
    /\ src \in [Files -> Seq(Tokens)]
    /\ lspFlag \in BOOLEAN /\ emitAst \in BOOLEAN
    /\ stack \in Seq(Unit)
    /\ coreImported \in BOOLEAN /\ hasErrored \in BOOLEAN /\ lspMode \in BOOLEAN
    /\ emitted \in Seq(Files)
    /\ result \in Results

(* The recursion is well nested: while a unit is being built the unit of     *)
(* Main is at the bottom, whoever waits above it waits in append for a       *)
(* module or a header, or before its own scan for core, and nobody waits     *)
(* once its own imports are finished.                                       *)
WellNested ==
    Running =>
        /\ stack # <<>>
        /\ \A n \in DOMAIN stack :
               /\ stack[n].mode = "root" <=> n = Len(stack)
               /\ n > 1 => stack[n].phase =
                      (IF stack[n - 1].mode = "core" THEN "scan" ELSE "append")

(* The position remembered before the import was removed, and aliases and    *)
(* headers inserted, is still inside the list when a header is inserted      *)
(* there (start_pos in append), so no token is inserted past the <eof>.      *)
InsertsInside ==
    \A n \in DOMAIN stack :
        stack[n].phase = "append" => stack[n].at \in 1 .. Len(stack[n].toks)

ImportTokens(f) == {n \in DOMAIN src[f] : src[f][n].t = "import"}

ImportsOf(f) ==
    UNION {{Resolve[src[f][n].name][m] : m \in DOMAIN Resolve[src[f][n].name]} :
              n \in ImportTokens(f)}

(* What the program is made of: Main, core, and all they import.            *)
Closed(S) == {Main, Core} \subseteq S /\ \A f \in S : ImportsOf(f) \subseteq S

Reachable == {f \in Files : \A S \in SUBSET Files : Closed(S) => f \in S}

Terminated(f) ==
    \A n \in ImportTokens(f) : n < Len(src[f]) /\ src[f][n + 1].t = "semi"

(* Nothing in the file is an error.                                         *)
Clean(f) ==
    /\ f \in OnDisk
    /\ \A n \in DOMAIN src[f] :
          /\ src[f][n].t \notin {"bad", "badgen", "badlex"}
          /\ src[f][n].t = "import" =>
                 /\ src[f][n].form \in {"plain", "wildcard"}
                 /\ src[f][n].name \notin Reported

(* Code 0 means that there was nothing to complain about in any file that    *)
(* was imported, however deep, provided every import ends in a semicolon:    *)
(* no error of a nested unit, of core or of the generator gets lost on the   *)
(* way through the return codes of append and build_unit.                    *)
SuccessMeansClean ==
    result = "0" /\ (\A f \in Reachable : Terminated(f)) =>
        ~hasErrored /\ \A f \in Reachable : Clean(f)

(* Code 0 means that the CX-IR holds the file, core and every file that was  *)
(* imported, and nothing else: none is skipped (ec == 1 in append).          *)
SuccessIsComplete ==
    result = "0" /\ (\A f \in Reachable : Terminated(f)) =>
        {emitted[n] : n \in DOMAIN emitted} = Reachable

(* The files come after what they import, core before all of them, although  *)
(* each is emitted again for each importer: the include guards keep the      *)
(* first copy, which must be able to stand where it is.                      *)
DependenciesFirst ==
    result = "0" =>
        /\ Head(emitted) = Core \/ ImportsOf(Core) # {}
        /\ \A n \in DOMAIN emitted : \A f \in ImportsOf(emitted[n]) :
              Terminated(emitted[n]) => \E m \in 1 .. n - 1 : emitted[m] = f

CodeIn(s) == Cardinality({n \in DOMAIN s : s[n].t \in {"code", "bad", "badgen"}})

(* Preprocessing replaces import statements and nothing else: what is left   *)
(* to parse has all the declarations of the file, when each import is        *)
(* closed by a semicolon of its own and no header is involved.               *)
CodeKept ==
    \A n \in DOMAIN stack :
        LET unit == stack[n]
        IN /\ unit.phase # "open"
           /\ Terminated(unit.file)
           /\ ImportsOf(unit.file) \cap Headers = {}
           => CodeIn(unit.toks) = CodeIn(src[unit.file])

(* No file imports itself, directly or not.                                 *)
Acyclic ==
    \A f \in Files :
        LET below[k \in Nat] ==
                IF k = 0 THEN ImportsOf(f)
                ELSE below[k - 1] \cup UNION {ImportsOf(g) : g \in below[k - 1]}
        IN f \notin below[Cardinality(Files)]

(* A program without errors, headers and cycles is compiled: the loop that   *)
(* processes one import after the other comes to its end in every unit, and  *)
(* then the code is 0 (2 for a language server that asked for the AST).      *)
CleanProgramsCompile ==
    /\ Acyclic
    /\ \A f \in Reachable : Clean(f) /\ Terminated(f) /\ f \notin Headers
    => <>(result = IF emitAst /\ lspFlag THEN "2" ELSE "0")

(* Whatever happened, the compiler comes to an end if each import finds a    *)
(* file, is well formed, and has no cycle in it.                             *)
ResolvedProgramsEnd ==
    /\ Acyclic
    /\ \A f \in Reachable : \A n \in ImportTokens(f) :
          /\ src[f][n].form \in {"plain", "wildcard"} /\ Terminated(f)
          /\ Resolve[src[f][n].name] # <<>>
    => <>(result # "none")

-----------------------------------------------------------------------------
(* What the comments say and the code does not do.                          *)

(* "after all this if we cant find any path error out"                       *)
(* (import_preprocessor.cc:609): an import without a file ends the compiler. *)
UnresolvedErrorsOut ==
    (\E n \in ImportTokens(Main) : Resolve[src[Main][n].name] = <<>>)
        => <>(result # "none")

(* "we directly look for the specified file" (import_preprocessor.cc:603):    *)
(* the string form of import is handled.                                    *)
FileImportsHandled ==
    result = "crash" =>
        ~\E n \in ImportTokens(Main) : src[Main][n].form = "file"

(* ".hdlx files ... are tokenized and copied" (import_preprocessor.cc:650):    *)
(* a program with a header compiles when there is nothing wrong with it.    *)
HeadersCompile ==
    result \notin {"none", "0"} =>
        \/ ~Acyclic
        \/ emitAst /\ lspFlag
        \/ \E f \in Reachable : ~(Clean(f) /\ Terminated(f))

=============================================================================
