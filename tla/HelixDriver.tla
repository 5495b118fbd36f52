----------------------------- MODULE HelixDriver -----------------------------
(***************************************************************************)
(* The helix program around build_unit: the command line, the temporary      *)
(* CX-IR file of a CXXCompileAction, the C++ compiler, the exit code and the  *)
(* last message.  Several processes run at once (an editor, a build, the     *)
(* threads of tests/test_runner.py) and share the file system: Unix build.   *)
(*                                                                         *)
(* How build_unit ends is an input here: CompilationUnit models it.         *)
(***************************************************************************)
EXTENDS Naturals

CONSTANTS
    Procs,    \* processes, each one run of helix
    Outputs   \* the names given with -o

ASSUME ProcsAssumption == Procs # {} /\ Outputs # {}

None     == "none"                             \* there is no such file
NotBuilt == [by |-> "none", text |-> "none"]   \* or no such executable

ASSUME NamesAssumption ==
    Procs \cap {"none", "empty", "IR.temp.debug.verbose.helix-compiler.cxir"} = {}

(* cc_source: two letters and six random ones from 48 in the temporary       *)
(* directory, taken to be different for every process; or a fixed name in    *)
(* the current directory, with --verbose --debug.                           *)
FixedName == "IR.temp.debug.verbose.helix-compiler.cxir"
Paths     == Procs \cup {FixedName}

(* mode: "quiet" and "lsp" show no errors.  verboseDebug is --verbose         *)
(* --debug, which the command line refuses together with --quiet.           *)
Options ==
    [mode : {"plain", "quiet", "lsp"}, emitIr : BOOLEAN, emitAst : BOOLEAN,
     verboseDebug : BOOLEAN, out : Outputs]

VARIABLES
    opts,      \* parsed_args
    pc,        \* where the process is
    ended,     \* how it ended: by return from main, std::exit or abort
    code,      \* its exit code
    said,      \* the last line it printed
    result,    \* compile's return value, for main
    errored,   \* error::HAS_ERRORED
    recorded,  \* error::ERRORS is not empty
    lspMode,   \* LSP_MODE
    cxx,       \* how the C++ compiler did
    temp,      \* whose CX-IR is in a file; "none": no file, "empty": no text
    output     \* the executables: who built it last, and from whose CX-IR

vars == <<opts, pc, ended, code, said, result, errored, recorded, lspMode, cxx,
          temp, output>>
outcome == <<ended, code, said>>
errors  == <<errored, recorded>>
files   == <<temp, output>>

(* A mistake: always the fixed name.                                        *)
SourceIsFixed(p) == FixedName

SourceOf(p) == IF opts[p].verboseDebug THEN FixedName ELSE p

Shows(p) == opts[p].mode = "plain"
Lsp(p)   == opts[p].mode = "lsp"

Goto(p, l) == pc' = [pc EXCEPT ![p] = l]

End(p, how, c) ==
    /\ Goto(p, "end")
    /\ ended' = [ended EXCEPT ![p] = how]
    /\ code' = [code EXCEPT ![p] = c]

(* std::exit and abort run no destructor of a local object.                 *)
Exit(p, c) == End(p, "exit", c) /\ UNCHANGED said
Abort(p)   == End(p, "abort", 134) /\ UNCHANGED said

(* a panic: recorded, and an error unless it is a warning or a note          *)
Panic(p, isError) ==
    /\ recorded' = [recorded EXCEPT ![p] = TRUE]
    /\ errored' = [errored EXCEPT ![p] = @ \/ isError]

ReturnFromCompile(p, r) ==
    Goto(p, "main") /\ result' = [result EXCEPT ![p] = r] /\ UNCHANGED outcome

-----------------------------------------------------------------------------

Init ==
    /\ opts \in [Procs -> Options]
    /\ pc = [p \in Procs |-> "cli"]
    /\ ended = [p \in Procs |-> "no"]
    /\ code = [p \in Procs |-> 0]
    /\ said = [p \in Procs |-> "nothing"]
    /\ result = [p \in Procs |-> 1]
    /\ errored = [p \in Procs |-> FALSE]
    /\ recorded = [p \in Procs |-> FALSE]
    /\ lspMode = [p \in Procs |-> FALSE]
    /\ cxx = [p \in Procs |-> "none"]
    /\ temp = [f \in Paths |-> None]
    /\ output = [o \in Outputs |-> NotBuilt]

(* CLIArgs and check_exit: help, version, license and no file exit with 0,   *)
(* what cannot be parsed and --verbose with --quiet with 1.                  *)
CommandLine(p) ==
    /\ pc[p] = "cli"
    /\ \/ Exit(p, 0)
       \/ Exit(p, 1)
       \/ /\ ~(opts[p].verboseDebug /\ opts[p].mode = "quiet")
          /\ Goto(p, "build") /\ UNCHANGED outcome
    /\ UNCHANGED <<opts, result, errors, lspMode, cxx, files>>

(* A mistake: LSP_MODE is not set when there are errors.                    *)
BuildStopsSilently(p) ==
    /\ pc[p] = "build" /\ Panic(p, TRUE)
    /\ \E r \in {0, 1} : ReturnFromCompile(p, r)
    /\ UNCHANGED <<opts, lspMode, cxx, files>>

(* build_unit ends before there is anything to compile.  In LSP mode          *)
(* --emit-ast ends with code 2 and does not set LSP_MODE.                    *)
BuildStops(p) ==
    /\ pc[p] = "build"
    /\ \/ /\ ReturnFromCompile(p, 1) /\ Panic(p, TRUE)
          /\ UNCHANGED lspMode
       \/ /\ ~(Lsp(p) /\ opts[p].emitAst)
          /\ ReturnFromCompile(p, 0) /\ Panic(p, TRUE)
          /\ lspMode' = [lspMode EXCEPT ![p] = Lsp(p)]
       \/ /\ Lsp(p) /\ opts[p].emitAst
          /\ ReturnFromCompile(p, 0)
          /\ Panic(p, TRUE) \/ UNCHANGED errors
          /\ UNCHANGED lspMode
    /\ UNCHANGED <<opts, cxx, files>>

(* std::exit(1), a panic that main catches, or another exception.           *)
BuildThrows(p) ==
    /\ pc[p] = "build"
    /\ Panic(p, TRUE)
    /\ \/ Exit(p, 1) /\ UNCHANGED result
       \/ ReturnFromCompile(p, 1)
       \/ Abort(p) /\ UNCHANGED result
    /\ UNCHANGED <<opts, lspMode, cxx, files>>

(* Code 0: CXXCompileAction::init opens its file, and writes nothing if that *)
(* fails.  Warnings may have been recorded.                                 *)
OpenTemp(p) ==
    /\ pc[p] = "build" /\ ~(Lsp(p) /\ opts[p].emitAst)
    /\ Panic(p, FALSE) \/ UNCHANGED errors
    /\ \/ temp' = [temp EXCEPT ![SourceOf(p)] = "empty"] /\ Goto(p, "write")
       \/ UNCHANGED temp /\ Goto(p, "compile")
    /\ UNCHANGED <<opts, outcome, result, lspMode, cxx, output>>

(* The text goes to the open file; if another process has removed the name   *)
(* in the meantime, it goes nowhere.                                        *)
WriteTemp(p) ==
    /\ pc[p] = "write"
    /\ temp' = [temp EXCEPT ![SourceOf(p)] = IF @ = None THEN @ ELSE p]
    /\ Goto(p, "compile")
    /\ UNCHANGED <<opts, outcome, result, errors, lspMode, cxx, output>>

(* compile: in LSP mode nothing is left to do unless the IR was asked for.   *)
SkipCxx(p) ==
    /\ pc[p] = "compile" /\ Lsp(p) /\ ~opts[p].emitIr
    /\ lspMode' = [lspMode EXCEPT ![p] = TRUE]
    /\ Goto(p, "cleanup")
    /\ UNCHANGED <<opts, outcome, result, errors, cxx, files>>

StartCxx(p) ==
    /\ pc[p] = "compile" /\ (Lsp(p) => opts[p].emitIr)
    /\ lspMode' = [lspMode EXCEPT ![p] = Lsp(p)]
    /\ \/ Goto(p, "run") /\ UNCHANGED cxx
       \/ Goto(p, "cleanup") /\ cxx' = [cxx EXCEPT ![p] = "missing"]
    /\ UNCHANGED <<opts, outcome, result, errors, files>>

(* The C++ compiler builds the executable from the CX-IR file; in a dry run   *)
(* it only checks the syntax.                                               *)
Links(p) ==
    IF lspMode[p] THEN output
    ELSE [output EXCEPT ![opts[p].out] = [by |-> p, text |-> temp[SourceOf(p)]]]

(* It does so when there is a source and it likes it.                        *)
CxxAccepts(p) ==
    /\ pc[p] = "run" /\ temp[SourceOf(p)] # None
    /\ cxx' = [cxx EXCEPT ![p] = "ok"]
    /\ output' = Links(p)
    /\ Panic(p, FALSE) \/ UNCHANGED errors
    /\ Goto(p, "cleanup")
    /\ UNCHANGED <<opts, outcome, result, lspMode, temp>>

(* It fails: "said", on lines that start with a slash and are understood;    *)
(* "silent", on other lines (a missing source, the linker, a driver that is   *)
(* not recognised), which nobody records.                                   *)
CxxRejects(p) ==
    /\ pc[p] = "run"
    /\ \/ /\ temp[SourceOf(p)] # None
          /\ cxx' = [cxx EXCEPT ![p] = "said"]
          /\ Panic(p, TRUE)
       \/ cxx' = [cxx EXCEPT ![p] = "silent"] /\ UNCHANGED errors
    /\ Goto(p, "cleanup")
    /\ UNCHANGED <<opts, outcome, result, lspMode, files>>

(* It says what helix does not understand, and its lines are read also when   *)
(* it has built the executable (as with a warning of the linker): of a file   *)
(* that does not exist, a CompilerError, which exits when errors are shown;   *)
(* something that is no error, warning or note, which is taken for an error;  *)
(* or a line whose parts are not found, which throws.                        *)
CxxConfuses(p) ==
    /\ pc[p] = "run" /\ temp[SourceOf(p)] # None
    /\ cxx' = [cxx EXCEPT ![p] = "confusing"]
    /\ output' \in {output, Links(p)}
    /\ \/ /\ Panic(p, TRUE)
          /\ \/ Shows(p) /\ Exit(p, 1)
             \/ Goto(p, "cleanup") /\ UNCHANGED outcome
       \/ /\ Abort(p)
          /\ UNCHANGED errors \/ \E isError \in BOOLEAN : Panic(p, isError)
    /\ UNCHANGED <<opts, result, lspMode, temp>>

(* A mistake: the file stays when there is no C++ compiler.                 *)
CleanupAfterCxx(p) ==
    /\ pc[p] = "cleanup"
    /\ temp' = IF cxx[p] = "missing" THEN temp ELSE [temp EXCEPT ![SourceOf(p)] = None]
    /\ ReturnFromCompile(p, 0)
    /\ UNCHANGED <<opts, errors, lspMode, cxx, output>>

(* compile returns 0 whatever the C++ compiler did, and the action's           *)
(* destructor removes the file.                                             *)
Cleanup(p) ==
    /\ pc[p] = "cleanup"
    /\ temp' = [temp EXCEPT ![SourceOf(p)] = None]
    /\ ReturnFromCompile(p, 0)
    /\ UNCHANGED <<opts, errors, lspMode, cxx, output>>

(* A mistake: only compile's return value is looked at.                     *)
MainTrustsResult(p) ==
    /\ pc[p] = "main"
    /\ LET json == lspMode[p] /\ recorded[p]
       IN /\ End(p, "return", IF json THEN 1 ELSE result[p])
          /\ said' = [said EXCEPT ![p] =
                 IF json THEN "json" ELSE IF lspMode[p] THEN "nothing"
                 ELSE IF result[p] # 0 THEN "aborting" ELSE "success"]
    /\ UNCHANGED <<opts, result, errors, lspMode, cxx, files>>

(* The end of main.                                                         *)
Main(p) ==
    /\ pc[p] = "main"
    /\ LET json == lspMode[p] /\ recorded[p]
       IN /\ End(p, "return", IF json THEN 1 ELSE result[p])
          /\ said' = [said EXCEPT ![p] =
                 IF json THEN "json"
                 ELSE IF lspMode[p] THEN "nothing"
                 ELSE IF result[p] # 0 \/ errored[p] THEN "aborting"
                 ELSE "success"]
    /\ UNCHANGED <<opts, result, errors, lspMode, cxx, files>>

Step(p) ==
    \/ CommandLine(p) \/ BuildStops(p) \/ BuildThrows(p)
    \/ OpenTemp(p) \/ WriteTemp(p) \/ SkipCxx(p) \/ StartCxx(p)
    \/ CxxAccepts(p) \/ CxxRejects(p) \/ CxxConfuses(p)
    \/ Cleanup(p) \/ Main(p)

Done == (\A p \in Procs : pc[p] = "end") /\ UNCHANGED vars

Next == (\E p \in Procs : Step(p)) \/ Done

Spec == Init /\ [][Next]_vars

-----------------------------------------------------------------------------

Labels == {"cli", "build", "write", "compile", "run", "cleanup", "main", "end"}

TypeOK ==
    /\ opts \in [Procs -> Options]
    /\ pc \in [Procs -> Labels]
    /\ ended \in [Procs -> {"no", "return", "exit", "abort"}]
    /\ code \in [Procs -> {0, 1, 134}]
    /\ said \in [Procs -> {"nothing", "success", "aborting", "json"}]
    /\ result \in [Procs -> {0, 1}]
    /\ errored \in [Procs -> BOOLEAN]
    /\ recorded \in [Procs -> BOOLEAN]
    /\ lspMode \in [Procs -> BOOLEAN]
    /\ cxx \in [Procs -> {"none", "missing", "ok", "said", "silent", "confusing"}]
    /\ temp \in [Paths -> Procs \cup {None, "empty"}]
    /\ output \in [Outputs -> [by : Procs \cup {None}, text : Procs \cup {None, "empty"}]]

(* An executable is built from the CX-IR of the process that built it, while *)
(* other processes compile at the same time, open, truncate and remove       *)
(* files; --verbose --debug, whose file name is shared, is the exception.    *)
OwnText ==
    \A o \in Outputs :
        LET p == output[o].by
        IN output[o] # NotBuilt => opts[p].verboseDebug \/ output[o].text = p

(* A CX-IR file that is there belongs to a process that still needs it, or   *)
(* to one that ended by std::exit or abort while it had the file: a return   *)
(* from main, with or without a C++ compiler, never leaves one behind.       *)
LeftoversMeanExit ==
    \A f \in Paths :
        temp[f] # None =>
            \E p \in Procs :
                /\ SourceOf(p) = f
                /\ \/ pc[p] \in {"write", "compile", "run", "cleanup"}
                   \/ ended[p] \in {"exit", "abort"}

(* A language server whose run met an error, in whichever phase, gets exit    *)
(* code 1 (and not 0, as everybody else may), unless it asked for the AST.    *)
EditorSeesErrors ==
    \A p \in Procs :
        ended[p] = "return" /\ Lsp(p) /\ ~opts[p].emitAst /\ errored[p] => code[p] = 1

(* "compilation successful" is said when the C++ compiler was content and    *)
(* the executable is there, except when there was no C++ compiler or core    *)
(* header, it failed in silence, or the AST was asked for in LSP mode.       *)
SuccessMeansBuilt ==
    \A p \in Procs :
        said[p] = "success" /\ cxx[p] \notin {"missing", "silent"} =>
            \/ Lsp(p) /\ opts[p].emitAst
            \/ cxx[p] = "ok" /\ output[opts[p].out] # NotBuilt

=============================================================================
