-------------------------- MODULE HelixDriverProofs --------------------------
(***************************************************************************)
(* Proofs about HelixDriver, for any number of processes, and about           *)
(* TestRunner, its client, for any number of tests and rounds.              *)
(*                                                                         *)
(* Inv is inductive.  Beside the types it says which processes have ended,   *)
(* what the private CX-IR file holds at each place, that errors are         *)
(* recorded and reach main, and what is known of the executable there.      *)
(*                                                                         *)
(* RInv is inductive for the runner.  It keeps Inv's parts on processes and   *)
(* says who was started when, that whoever built an executable is on the way *)
(* to say success or stumbles over what the C++ compiler says, that an        *)
(* executable is of a builder of its own test, of this round's if nobody was  *)
(* killed, and what silence on stdout means.                                *)
(***************************************************************************)
EXTENDS TestRunner, TLAPS

(* A process has ended exactly when it is at its end.                       *)
EndedStops == \A p \in Procs : pc[p] = "end" <=> ended[p] # "no"

(* A private file is not there before its process opens it, and holds that   *)
(* process's text, if anything, once it was written.                        *)
OwnFile ==
    \A p \in Procs :
        ~opts[p].verboseDebug =>
            /\ pc[p] \in {"cli", "build"} => temp[p] = None
            /\ pc[p] \in {"compile", "run"} => temp[p] \in {p, None}

(* An error is recorded, comes with code 1 or leads to main in LSP mode, and  *)
(* LSP_MODE is what was asked for once the C++ compiler has its turn.        *)
ErrorsKnown ==
    \A p \in Procs :
        /\ errored[p] => recorded[p]
        /\ pc[p] \in {"cli", "build", "write", "compile", "run"} => ~errored[p]
        /\ pc[p] \in {"run", "cleanup"} => lspMode[p] = Lsp(p)
        /\ pc[p] = "main" /\ Lsp(p) /\ ~opts[p].emitAst /\ errored[p] =>
              result[p] = 1 \/ lspMode[p]

(* Without an error the C++ compiler was content, or nobody noticed.        *)
Built(p) ==
    \/ cxx[p] \in {"missing", "silent"}
    \/ cxx[p] = "ok" /\ output[opts[p].out] # NotBuilt

BuiltInMain ==
    \A p \in Procs :
        /\ pc[p] = "cleanup" /\ ~errored[p] /\ ~lspMode[p] => Built(p)
        /\ pc[p] = "main" /\ ~errored[p] /\ ~lspMode[p] /\ result[p] = 0 =>
              Built(p) \/ (Lsp(p) /\ opts[p].emitAst)
        /\ said[p] = "success" => pc[p] = "end"

-----------------------------------------------------------------------------

(* The helpers keep the variables they assign in their types.               *)
LEMMA GotoTyped ==
    ASSUME TypeOK, NEW p \in Procs, NEW l \in Labels, Goto(p, l)
    PROVE  pc' \in [Procs -> Labels]
BY DEF TypeOK, Goto

(* A process that ends gets one of the three ways to end and a code.        *)
LEMMA EndTyped ==
    ASSUME TypeOK, NEW p \in Procs, NEW how \in {"return", "exit", "abort"},
           NEW c \in {0, 1, 134}, End(p, how, c)
    PROVE  /\ pc' \in [Procs -> Labels]
           /\ ended' \in [Procs -> {"no", "return", "exit", "abort"}]
           /\ code' \in [Procs -> {0, 1, 134}]
<1>1. "end" \in Labels  BY DEF Labels
<1>2. pc' \in [Procs -> Labels]  BY <1>1, GotoTyped DEF End
<1>3. ended' \in [Procs -> {"no", "return", "exit", "abort"}]  BY DEF TypeOK, End
<1>4. code' \in [Procs -> {0, 1, 134}]  BY DEF TypeOK, End
<1>5. QED BY <1>2, <1>3, <1>4

OutcomeTyped ==
    /\ pc \in [Procs -> Labels]
    /\ ended \in [Procs -> {"no", "return", "exit", "abort"}]
    /\ code \in [Procs -> {0, 1, 134}]
    /\ said \in [Procs -> {"nothing", "success", "aborting", "json"}]

(* The same for std::exit and abort.                                        *)
LEMMA ExitTyped ==
    ASSUME TypeOK, NEW p \in Procs
    PROVE  /\ \A c \in {0, 1} : Exit(p, c) => OutcomeTyped'
           /\ Abort(p) => OutcomeTyped'
<1>1. ASSUME NEW c \in {0, 1}, Exit(p, c)  PROVE OutcomeTyped'
  BY <1>1, EndTyped DEF Exit, OutcomeTyped, TypeOK
<1>2. ASSUME Abort(p)  PROVE OutcomeTyped'
  BY <1>2, EndTyped DEF Abort, OutcomeTyped, TypeOK
<1>3. QED BY <1>1, <1>2

(* A jump that ends nothing leaves the outcome alone.                       *)
LEMMA JumpTyped ==
    ASSUME TypeOK, NEW p \in Procs, NEW l \in Labels, Goto(p, l), UNCHANGED outcome
    PROVE  OutcomeTyped'
BY GotoTyped DEF outcome, OutcomeTyped, TypeOK

(* compile returns 0 or 1 to main.                                          *)
LEMMA ReturnTyped ==
    ASSUME TypeOK, NEW p \in Procs, NEW r \in {0, 1}, ReturnFromCompile(p, r)
    PROVE  OutcomeTyped' /\ result' \in [Procs -> {0, 1}]
<1>1. "main" \in Labels  BY DEF Labels
<1>2. OutcomeTyped'  BY <1>1, JumpTyped DEF ReturnFromCompile
<1>3. QED BY <1>2 DEF ReturnFromCompile, TypeOK

ErrorsTyped == errored \in [Procs -> BOOLEAN] /\ recorded \in [Procs -> BOOLEAN]

(* A panic only touches the two error flags.                                *)
LEMMA PanicTyped ==
    ASSUME TypeOK, NEW p \in Procs, NEW e \in BOOLEAN, Panic(p, e)
    PROVE  ErrorsTyped'
<1>1. recorded' \in [Procs -> BOOLEAN]  BY DEF TypeOK, Panic
<1>2. errored[p] \/ e \in BOOLEAN  OBVIOUS
<1>3. errored' \in [Procs -> BOOLEAN]  BY <1>2 DEF TypeOK, Panic
<1>4. QED BY <1>1, <1>3 DEF ErrorsTyped

(* A step of one process keeps every variable in its type.                   *)
LEMMA TypeStep ==
    ASSUME NEW p \in Procs, Step(p), TypeOK
    PROVE  TypeOK'
<1> DEFINE Rest == /\ opts' \in [Procs -> Options]
                   /\ lspMode' \in [Procs -> BOOLEAN]
                   /\ cxx' \in [Procs -> {"none", "missing", "ok", "said", "silent", "confusing"}]
                   /\ temp' \in [Paths -> Procs \cup {None, "empty"}]
                   /\ output' \in [Outputs -> [by : Procs \cup {None},
                                              text : Procs \cup {None, "empty"}]]
           Results == result' \in [Procs -> {0, 1}]
<1>0. "write" \in Labels /\ "build" \in Labels /\ "compile" \in Labels
      /\ "run" \in Labels /\ "cleanup" \in Labels
  BY DEF Labels
<1>a. SourceOf(p) \in Paths /\ Lsp(p) \in BOOLEAN /\ opts[p].out \in Outputs
  BY DEF SourceOf, Paths, Lsp, TypeOK, Options
<1>b. TypeOK /\ OutcomeTyped' /\ ErrorsTyped' /\ Results /\ Rest => TypeOK'
  BY DEF TypeOK, OutcomeTyped, ErrorsTyped
<1> HIDE DEF Rest, Results
<1>1. CASE CommandLine(p)
  <2>1. OutcomeTyped'  BY <1>0, <1>1, ExitTyped, JumpTyped DEF CommandLine, OutcomeTyped, TypeOK
  <2>2. ErrorsTyped'  BY <1>1, ExitTyped, JumpTyped DEF CommandLine, errors, ErrorsTyped, TypeOK
  <2>3. Results  BY <1>1, ExitTyped, JumpTyped DEF CommandLine, Results, TypeOK
  <2>4. Rest  BY <1>a, <1>1 DEF CommandLine, Rest, TypeOK, files
  <2>5. QED BY <1>b, <2>1, <2>2, <2>3, <2>4
<1>2. CASE BuildStops(p)
  <2>1. OutcomeTyped'  BY <1>0, <1>2, ReturnTyped, PanicTyped DEF BuildStops, OutcomeTyped, TypeOK
  <2>2. ErrorsTyped'  BY <1>2, ReturnTyped, PanicTyped DEF BuildStops, errors, ErrorsTyped, TypeOK
  <2>3. Results  BY <1>2, ReturnTyped, PanicTyped DEF BuildStops, Results, TypeOK
  <2>4. Rest  BY <1>a, <1>2 DEF BuildStops, Rest, TypeOK, files
  <2>5. QED BY <1>b, <2>1, <2>2, <2>3, <2>4
<1>3. CASE BuildThrows(p)
  <2>1. OutcomeTyped'  BY <1>0, <1>3, ExitTyped, ReturnTyped, PanicTyped
    DEF BuildThrows, OutcomeTyped, TypeOK
  <2>2. ErrorsTyped'  BY <1>3, ExitTyped, ReturnTyped, PanicTyped
    DEF BuildThrows, errors, ErrorsTyped, TypeOK
  <2>3. Results  BY <1>3, ExitTyped, ReturnTyped, PanicTyped DEF BuildThrows, Results, TypeOK
  <2>4. Rest  BY <1>a, <1>3 DEF BuildThrows, Rest, TypeOK, files
  <2>5. QED BY <1>b, <2>1, <2>2, <2>3, <2>4
<1>4. CASE OpenTemp(p)
  <2>1. OutcomeTyped'  BY <1>0, <1>4, JumpTyped, PanicTyped DEF OpenTemp, OutcomeTyped, TypeOK
  <2>2. ErrorsTyped'  BY <1>4, JumpTyped, PanicTyped DEF OpenTemp, errors, ErrorsTyped, TypeOK
  <2>3. Results  BY <1>4, JumpTyped, PanicTyped DEF OpenTemp, Results, TypeOK
  <2>4. Rest  BY <1>a, <1>4 DEF OpenTemp, Rest, TypeOK, files
  <2>5. QED BY <1>b, <2>1, <2>2, <2>3, <2>4
<1>5. CASE WriteTemp(p)
  <2>1. OutcomeTyped'  BY <1>0, <1>5, JumpTyped DEF WriteTemp, OutcomeTyped, TypeOK
  <2>2. ErrorsTyped'  BY <1>5, JumpTyped DEF WriteTemp, errors, ErrorsTyped, TypeOK
  <2>3. Results  BY <1>5, JumpTyped DEF WriteTemp, Results, TypeOK
  <2>4. Rest  BY <1>a, <1>5 DEF WriteTemp, Rest, TypeOK, files
  <2>5. QED BY <1>b, <2>1, <2>2, <2>3, <2>4
<1>6. CASE SkipCxx(p)
  <2>1. OutcomeTyped'  BY <1>0, <1>6, JumpTyped DEF SkipCxx, OutcomeTyped, TypeOK
  <2>2. ErrorsTyped'  BY <1>6, JumpTyped DEF SkipCxx, errors, ErrorsTyped, TypeOK
  <2>3. Results  BY <1>6, JumpTyped DEF SkipCxx, Results, TypeOK
  <2>4. Rest  BY <1>a, <1>6 DEF SkipCxx, Rest, TypeOK, files
  <2>5. QED BY <1>b, <2>1, <2>2, <2>3, <2>4
<1>7. CASE StartCxx(p)
  <2>1. OutcomeTyped'  BY <1>0, <1>7, JumpTyped DEF StartCxx, OutcomeTyped, TypeOK
  <2>2. ErrorsTyped'  BY <1>7, JumpTyped DEF StartCxx, errors, ErrorsTyped, TypeOK
  <2>3. Results  BY <1>7, JumpTyped DEF StartCxx, Results, TypeOK
  <2>4. Rest  BY <1>a, <1>7 DEF StartCxx, Rest, TypeOK, files
  <2>5. QED BY <1>b, <2>1, <2>2, <2>3, <2>4
<1>8. CASE CxxAccepts(p)
  <2>1. OutcomeTyped'  BY <1>0, <1>8, JumpTyped, PanicTyped DEF CxxAccepts, OutcomeTyped, TypeOK
  <2>2. ErrorsTyped'  BY <1>8, JumpTyped, PanicTyped DEF CxxAccepts, errors, ErrorsTyped, TypeOK
  <2>3. Results  BY <1>8, JumpTyped, PanicTyped DEF CxxAccepts, Results, TypeOK
  <2>4. Rest  BY <1>a, <1>8 DEF CxxAccepts, Links, Rest, TypeOK, None
  <2>5. QED BY <1>b, <2>1, <2>2, <2>3, <2>4
<1>9. CASE CxxRejects(p)
  <2>1. OutcomeTyped'  BY <1>0, <1>9, JumpTyped, PanicTyped DEF CxxRejects, OutcomeTyped, TypeOK
  <2>2. ErrorsTyped'  BY <1>9, JumpTyped, PanicTyped DEF CxxRejects, errors, ErrorsTyped, TypeOK
  <2>3. Results  BY <1>9, JumpTyped, PanicTyped DEF CxxRejects, Results, TypeOK
  <2>4. Rest  BY <1>a, <1>9 DEF CxxRejects, Rest, TypeOK, files
  <2>5. QED BY <1>b, <2>1, <2>2, <2>3, <2>4
<1>10. CASE CxxConfuses(p)
  <2>1. OutcomeTyped'  BY <1>0, <1>10, ExitTyped, JumpTyped, PanicTyped
    DEF CxxConfuses, OutcomeTyped, TypeOK
  <2>2. ErrorsTyped'  BY <1>10, ExitTyped, JumpTyped, PanicTyped
    DEF CxxConfuses, errors, ErrorsTyped, TypeOK
  <2>3. Results  BY <1>10, ExitTyped, JumpTyped, PanicTyped DEF CxxConfuses, Results, TypeOK
  <2>4. Rest  BY <1>a, <1>10 DEF CxxConfuses, Links, Rest, TypeOK, None
  <2>5. QED BY <1>b, <2>1, <2>2, <2>3, <2>4
<1>11. CASE Cleanup(p)
  <2>1. OutcomeTyped'  BY <1>0, <1>11, ReturnTyped DEF Cleanup, OutcomeTyped, TypeOK
  <2>2. ErrorsTyped'  BY <1>11, ReturnTyped DEF Cleanup, errors, ErrorsTyped, TypeOK
  <2>3. Results  BY <1>11, ReturnTyped DEF Cleanup, Results, TypeOK
  <2>4. Rest  BY <1>a, <1>11 DEF Cleanup, Rest, TypeOK, files
  <2>5. QED BY <1>b, <2>1, <2>2, <2>3, <2>4
<1>12. CASE Main(p)
  <2>1. OutcomeTyped'  BY <1>0, <1>12, EndTyped DEF Main, OutcomeTyped, TypeOK
  <2>2. ErrorsTyped'  BY <1>12, EndTyped DEF Main, errors, ErrorsTyped, TypeOK
  <2>3. Results  BY <1>12, EndTyped DEF Main, Results, TypeOK
  <2>4. Rest  BY <1>a, <1>12 DEF Main, Rest, TypeOK, files
  <2>5. QED BY <1>b, <2>1, <2>2, <2>3, <2>4
<1>13. QED
  BY <1>1, <1>2, <1>3, <1>4, <1>5, <1>6, <1>7, <1>8, <1>9, <1>10, <1>11, <1>12 DEF Step

(* Only the step that ends a process sets how it ended.                      *)
LEMMA EndedStep ==
    ASSUME NEW p \in Procs, Step(p), TypeOK, EndedStops
    PROVE  EndedStops'
<1> USE DEF TypeOK, EndedStops, Exit, Abort, End, Goto, ReturnFromCompile, outcome
<1>1. CASE CommandLine(p)  BY <1>1 DEF CommandLine
<1>2. CASE BuildStops(p)  BY <1>2 DEF BuildStops
<1>3. CASE BuildThrows(p)  BY <1>3 DEF BuildThrows
<1>4. CASE OpenTemp(p)  BY <1>4 DEF OpenTemp
<1>5. CASE WriteTemp(p)  BY <1>5 DEF WriteTemp
<1>6. CASE SkipCxx(p)  BY <1>6 DEF SkipCxx
<1>7. CASE StartCxx(p)  BY <1>7 DEF StartCxx
<1>8. CASE CxxAccepts(p)  BY <1>8 DEF CxxAccepts
<1>9. CASE CxxRejects(p)  BY <1>9 DEF CxxRejects
<1>10. CASE CxxConfuses(p)  BY <1>10 DEF CxxConfuses, Shows, Panic, errors, files
<1>11. CASE Cleanup(p)  BY <1>11 DEF Cleanup
<1>12. CASE Main(p)  BY <1>12 DEF Main
<1>13. QED
  BY <1>1, <1>2, <1>3, <1>4, <1>5, <1>6, <1>7, <1>8, <1>9, <1>10, <1>11, <1>12 DEF Step

(* Nobody else touches a private file.                                       *)
LEMMA OwnFileStep ==
    ASSUME NEW p \in Procs, Step(p), TypeOK, OwnFile
    PROVE  OwnFile'
<1> USE NamesAssumption DEF TypeOK, OwnFile, Exit, Abort, End, Goto, ReturnFromCompile,
            SourceOf, files, Paths, FixedName, None
<1>1. CASE CommandLine(p)  BY <1>1 DEF CommandLine
<1>2. CASE BuildStops(p)  BY <1>2 DEF BuildStops
<1>3. CASE BuildThrows(p)  BY <1>3 DEF BuildThrows
<1>4. CASE OpenTemp(p)  BY <1>4 DEF OpenTemp
<1>5. CASE WriteTemp(p)  BY <1>5 DEF WriteTemp
<1>6. CASE SkipCxx(p)  BY <1>6 DEF SkipCxx
<1>7. CASE StartCxx(p)  BY <1>7 DEF StartCxx
<1>8. CASE CxxAccepts(p)  BY <1>8 DEF CxxAccepts
<1>9. CASE CxxRejects(p)  BY <1>9 DEF CxxRejects
<1>10. CASE CxxConfuses(p)  BY <1>10 DEF CxxConfuses, Shows, Panic, errors, outcome
<1>11. CASE Cleanup(p)  BY <1>11 DEF Cleanup
<1>12. CASE Main(p)  BY <1>12 DEF Main
<1>13. QED
  BY <1>1, <1>2, <1>3, <1>4, <1>5, <1>6, <1>7, <1>8, <1>9, <1>10, <1>11, <1>12 DEF Step

(* Errors stay known on every way to main.                                   *)
LEMMA ErrorsStep ==
    ASSUME NEW p \in Procs, Step(p), TypeOK, ErrorsKnown
    PROVE  ErrorsKnown'
<1> USE DEF TypeOK, ErrorsKnown, Exit, Abort, End, Goto, ReturnFromCompile, Panic, Lsp,
            errors
<1>1. CASE CommandLine(p)  BY <1>1 DEF CommandLine
<1>2. CASE BuildStops(p)  BY <1>2 DEF BuildStops
<1>3. CASE BuildThrows(p)  BY <1>3 DEF BuildThrows
<1>4. CASE OpenTemp(p)  BY <1>4 DEF OpenTemp
<1>5. CASE WriteTemp(p)  BY <1>5 DEF WriteTemp
<1>6. CASE SkipCxx(p)  BY <1>6 DEF SkipCxx
<1>7. CASE StartCxx(p)  BY <1>7 DEF StartCxx
<1>8. CASE CxxAccepts(p)  BY <1>8 DEF CxxAccepts
<1>9. CASE CxxRejects(p)  BY <1>9 DEF CxxRejects
<1>10. CASE CxxConfuses(p)  BY <1>10 DEF CxxConfuses
<1>11. CASE Cleanup(p)  BY <1>11 DEF Cleanup
<1>12. CASE Main(p)  BY <1>12 DEF Main
<1>13. QED
  BY <1>1, <1>2, <1>3, <1>4, <1>5, <1>6, <1>7, <1>8, <1>9, <1>10, <1>11, <1>12 DEF Step

(* A process changes nobody else's variables.                                *)
LEMMA OthersStep ==
    ASSUME NEW p \in Procs, NEW q \in Procs, p # q, Step(p), TypeOK
    PROVE  /\ opts'[q] = opts[q] /\ pc'[q] = pc[q] /\ said'[q] = said[q]
           /\ result'[q] = result[q] /\ errored'[q] = errored[q]
           /\ lspMode'[q] = lspMode[q] /\ cxx'[q] = cxx[q]
<1> USE DEF TypeOK, Exit, Abort, End, Goto, Panic, ReturnFromCompile, outcome, errors
<1>1. CASE CommandLine(p)  BY <1>1 DEF CommandLine
<1>2. CASE BuildStops(p)  BY <1>2 DEF BuildStops
<1>3. CASE BuildThrows(p)  BY <1>3 DEF BuildThrows
<1>4. CASE OpenTemp(p)  BY <1>4 DEF OpenTemp
<1>5. CASE WriteTemp(p)  BY <1>5 DEF WriteTemp
<1>6. CASE SkipCxx(p)  BY <1>6 DEF SkipCxx
<1>7. CASE StartCxx(p)  BY <1>7 DEF StartCxx
<1>8. CASE CxxAccepts(p)  BY <1>8 DEF CxxAccepts
<1>9. CASE CxxRejects(p)  BY <1>9 DEF CxxRejects
<1>10. CASE CxxConfuses(p)  BY <1>10 DEF CxxConfuses
<1>11. CASE Cleanup(p)  BY <1>11 DEF Cleanup
<1>12. CASE Main(p)  BY <1>12 DEF Main
<1>13. QED
  BY <1>1, <1>2, <1>3, <1>4, <1>5, <1>6, <1>7, <1>8, <1>9, <1>10, <1>11, <1>12 DEF Step

(* An executable, once there, stays.                                         *)
LEMMA OutputStays ==
    ASSUME NEW p \in Procs, NEW o \in Outputs, Step(p), TypeOK, NamesAssumption,
           output[o] # NotBuilt
    PROVE  output'[o] # NotBuilt
<1>1. CASE CxxAccepts(p) \/ CxxConfuses(p)
  <2>1. p # "none"  BY NamesAssumption
  <2>2. [by |-> p, text |-> temp[SourceOf(p)]] # NotBuilt  BY <2>1 DEF NotBuilt
  <2>3. output' \in {output, Links(p)}  BY <1>1 DEF CxxAccepts, CxxConfuses
  <2>4. QED BY <2>2, <2>3 DEF Links, TypeOK
<1>2. CASE ~(CxxAccepts(p) \/ CxxConfuses(p))
  <2>1. output' = output
    BY <1>2 DEF Step, CommandLine, BuildStops, BuildThrows, OpenTemp, WriteTemp, SkipCxx,
                StartCxx, CxxRejects, Cleanup, Main, files
  <2>2. QED BY <2>1
<1>3. QED BY <1>1, <1>2

(* What is known of the executable is known again after a step: of the other *)
(* processes because it stays, of the one that moves because of what it did. *)
LEMMA BuiltStep ==
    ASSUME NEW p \in Procs, Step(p), TypeOK, ErrorsKnown, BuiltInMain
    PROVE  BuiltInMain'
<1> DEFINE Here(q) ==
        /\ pc[q] = "cleanup" /\ ~errored[q] /\ ~lspMode[q] => Built(q)
        /\ pc[q] = "main" /\ ~errored[q] /\ ~lspMode[q] /\ result[q] = 0 =>
              Built(q) \/ (Lsp(q) /\ opts[q].emitAst)
        /\ said[q] = "success" => pc[q] = "end"
<1>1. ASSUME NEW q \in Procs, q # p  PROVE Here(q)'
  <2>1. opts[q].out \in Outputs  BY DEF TypeOK, Options
  <2>2. Built(q) => Built(q)'  BY <1>1, <2>1, OthersStep, OutputStays, NamesAssumption DEF Built
  <2>3. Here(q)  BY DEF BuiltInMain
  <2>4. QED BY <1>1, <2>2, <2>3, OthersStep DEF Lsp
<1>2. Here(p)'
  <2>a. /\ pc \in [Procs -> Labels]
        /\ cxx \in [Procs -> {"none", "missing", "ok", "said", "silent", "confusing"}]
        /\ result \in [Procs -> {0, 1}] /\ DOMAIN errored = Procs /\ DOMAIN lspMode = Procs
        /\ opts \in [Procs -> Options]
        /\ output \in [Outputs -> [by : Procs \cup {None}, text : Procs \cup {None, "empty"}]]
    BY DEF TypeOK
  <2>b. Here(p)  BY DEF BuiltInMain
  <2> USE <2>a, <2>b DEF Exit, Abort, End, Goto, ReturnFromCompile, outcome, files
  <2>1. CASE CommandLine(p)  BY <2>1 DEF CommandLine, Panic, errors
  <2>2. CASE BuildStops(p)
    <3>1. pc'[p] = "main" /\ said'[p] = said[p] /\ opts' = opts /\ pc[p] = "build"
      BY <2>2 DEF BuildStops
    <3>2. Panic(p, TRUE) => errored'[p]  BY DEF Panic
    <3>3. errored'[p] \/ (Lsp(p) /\ opts[p].emitAst)  BY <2>2, <3>2, Zenon DEF BuildStops
    <3>4. QED BY <3>1, <3>3 DEF Lsp
  <2>3. CASE BuildThrows(p)  BY <2>3 DEF BuildThrows, Panic, errors
  <2>4. CASE OpenTemp(p)  BY <2>4 DEF OpenTemp, Panic, errors
  <2>5. CASE WriteTemp(p)  BY <2>5 DEF WriteTemp, Panic, errors
  <2>6. CASE SkipCxx(p)
    <3>1. pc'[p] = "cleanup" /\ said'[p] = said[p] /\ pc[p] = "compile"
      BY <2>6 DEF SkipCxx
    <3>2. lspMode'[p]  BY <2>6 DEF SkipCxx
    <3>3. QED BY <3>1, <3>2
  <2>7. CASE StartCxx(p)
    <3>1. /\ pc[p] = "compile" /\ said'[p] = said[p]
          /\ pc'[p] = "run" \/ (pc'[p] = "cleanup" /\ cxx'[p] = "missing")
      BY <2>7 DEF StartCxx
    <3>2. QED BY <3>1 DEF Built
  <2>8. CASE CxxAccepts(p)
    <3>1. /\ pc[p] = "run" /\ pc'[p] = "cleanup" /\ said'[p] = said[p]
          /\ cxx'[p] = "ok" /\ opts' = opts /\ lspMode' = lspMode
      BY <2>8 DEF CxxAccepts
    <3>2. p # "none" /\ opts[p].out \in Outputs  BY NamesAssumption DEF Options
    <3>3. [by |-> p, text |-> temp[SourceOf(p)]] # NotBuilt  BY <3>2 DEF NotBuilt
    <3>4. ~lspMode[p] => output'[opts[p].out] # NotBuilt
      BY <2>8, <3>2, <3>3 DEF CxxAccepts, Links
    <3>5. QED BY <3>1, <3>4 DEF Built
  <2>9. CASE CxxRejects(p)
    <3>1. /\ pc[p] = "run" /\ pc'[p] = "cleanup" /\ said'[p] = said[p]
          /\ Panic(p, TRUE) \/ cxx'[p] = "silent"
      BY <2>9 DEF CxxRejects
    <3>2. Panic(p, TRUE) => errored'[p]  BY DEF Panic
    <3>3. QED BY <3>1, <3>2 DEF Built
  <2>10. CASE CxxConfuses(p)
    <3>1. /\ pc[p] = "run" /\ said'[p] = said[p]
          /\ pc'[p] = "end" \/ (pc'[p] = "cleanup" /\ Panic(p, TRUE))
      BY <2>10 DEF CxxConfuses
    <3>2. Panic(p, TRUE) => errored'[p]  BY DEF Panic
    <3>3. QED BY <3>1, <3>2
  <2>11. CASE Cleanup(p)
    <3>1. /\ pc[p] = "cleanup" /\ pc'[p] = "main" /\ said'[p] = said[p]
          /\ errored' = errored /\ lspMode' = lspMode /\ cxx' = cxx
          /\ output' = output /\ opts' = opts
      BY <2>11 DEF Cleanup, errors
    <3>2. QED BY <3>1 DEF Built
  <2>12. CASE Main(p)  BY <2>12 DEF Main, Panic, errors
  <2>13. QED
    BY <2>1, <2>2, <2>3, <2>4, <2>5, <2>6, <2>7, <2>8, <2>9, <2>10, <2>11, <2>12 DEF Step
<1>3. QED BY <1>1, <1>2 DEF BuiltInMain

(* What is built is built from the file of the process.                      *)
LEMMA OwnTextStep ==
    ASSUME NEW p \in Procs, Step(p), TypeOK, OwnFile, OwnText
    PROVE  OwnText'
<1> USE NamesAssumption DEF TypeOK, OwnFile, OwnText, NotBuilt, None, SourceOf, files
<1>1. CASE CommandLine(p)  BY <1>1 DEF CommandLine
<1>2. CASE BuildStops(p)  BY <1>2 DEF BuildStops
<1>3. CASE BuildThrows(p)  BY <1>3 DEF BuildThrows
<1>4. CASE OpenTemp(p)  BY <1>4 DEF OpenTemp
<1>5. CASE WriteTemp(p)  BY <1>5 DEF WriteTemp
<1>6. CASE SkipCxx(p)  BY <1>6 DEF SkipCxx
<1>7. CASE StartCxx(p)  BY <1>7 DEF StartCxx
<1>8. CASE CxxAccepts(p)  BY <1>8 DEF CxxAccepts, Links
<1>9. CASE CxxRejects(p)  BY <1>9 DEF CxxRejects
<1>10. CASE CxxConfuses(p)  BY <1>10 DEF CxxConfuses, Links
<1>11. CASE Cleanup(p)  BY <1>11 DEF Cleanup
<1>12. CASE Main(p)  BY <1>12 DEF Main
<1>13. QED
  BY <1>1, <1>2, <1>3, <1>4, <1>5, <1>6, <1>7, <1>8, <1>9, <1>10, <1>11, <1>12 DEF Step

(* Whoever removes a file or ends leaves the others their files.             *)
LEMMA LeftoversStep ==
    ASSUME NEW p \in Procs, Step(p), TypeOK, EndedStops, LeftoversMeanExit
    PROVE  LeftoversMeanExit'
<1> USE DEF TypeOK, EndedStops, LeftoversMeanExit, None, Exit, Abort, End, Goto,
            ReturnFromCompile, SourceOf, outcome, files
<1>1. CASE CommandLine(p)  BY <1>1 DEF CommandLine
<1>2. CASE BuildStops(p)  BY <1>2 DEF BuildStops, Lsp, Panic, ReturnFromCompile, errors
<1>3. CASE BuildThrows(p)  BY <1>3 DEF BuildThrows
<1>4. CASE OpenTemp(p)  BY <1>4 DEF OpenTemp
<1>5. CASE WriteTemp(p)  BY <1>5 DEF WriteTemp
<1>6. CASE SkipCxx(p)  BY <1>6 DEF SkipCxx
<1>7. CASE StartCxx(p)  BY <1>7 DEF StartCxx
<1>8. CASE CxxAccepts(p)  BY <1>8 DEF CxxAccepts
<1>9. CASE CxxRejects(p)  BY <1>9 DEF CxxRejects
<1>10. CASE CxxConfuses(p)  BY <1>10 DEF CxxConfuses, Shows, Exit, Abort, End, Goto, Panic, errors, outcome, Lsp
<1>11. CASE Cleanup(p)  BY <1>11 DEF Cleanup
<1>12. CASE Main(p)  BY <1>12 DEF Main
<1>13. QED
  BY <1>1, <1>2, <1>3, <1>4, <1>5, <1>6, <1>7, <1>8, <1>9, <1>10, <1>11, <1>12 DEF Step

(* The exit code is decided in main.                                         *)
LEMMA EditorStep ==
    ASSUME NEW p \in Procs, Step(p), TypeOK, EndedStops, ErrorsKnown, EditorSeesErrors
    PROVE  EditorSeesErrors'
<1> USE DEF TypeOK, EndedStops, ErrorsKnown, EditorSeesErrors, Exit, Abort, End, Goto,
            ReturnFromCompile, Panic, Lsp, outcome, errors
<1>1. CASE CommandLine(p)  BY <1>1 DEF CommandLine
<1>2. CASE BuildStops(p)  BY <1>2 DEF BuildStops
<1>3. CASE BuildThrows(p)  BY <1>3 DEF BuildThrows
<1>4. CASE OpenTemp(p)  BY <1>4 DEF OpenTemp
<1>5. CASE WriteTemp(p)  BY <1>5 DEF WriteTemp
<1>6. CASE SkipCxx(p)  BY <1>6 DEF SkipCxx
<1>7. CASE StartCxx(p)  BY <1>7 DEF StartCxx
<1>8. CASE CxxAccepts(p)  BY <1>8 DEF CxxAccepts
<1>9. CASE CxxRejects(p)  BY <1>9 DEF CxxRejects
<1>10. CASE CxxConfuses(p)  BY <1>10 DEF CxxConfuses
<1>11. CASE Cleanup(p)  BY <1>11 DEF Cleanup
<1>12. CASE Main(p)  BY <1>12 DEF Main
<1>13. QED
  BY <1>1, <1>2, <1>3, <1>4, <1>5, <1>6, <1>7, <1>8, <1>9, <1>10, <1>11, <1>12 DEF Step

(* So is the last line.                                                      *)
LEMMA SuccessStep ==
    ASSUME NEW p \in Procs, Step(p), TypeOK, EndedStops, ErrorsKnown, BuiltInMain, SuccessMeansBuilt
    PROVE  SuccessMeansBuilt'
<1>0. ASSUME CxxAccepts(p) \/ CxxRejects(p) \/ CxxConfuses(p)
      PROVE  SuccessMeansBuilt'
  <2>1. pc[p] = "run" /\ said' = said /\ opts' = opts
    BY <1>0 DEF CxxAccepts, CxxRejects, CxxConfuses, Exit, Abort, End, outcome
  <2>2. ASSUME NEW q \in Procs, said[q] = "success", cxx'[q] \notin {"missing", "silent"}
        PROVE  \/ Lsp(q) /\ opts[q].emitAst
               \/ cxx'[q] = "ok" /\ output'[opts[q].out] # NotBuilt
    <3>1. q # p
      BY <2>1, <2>2 DEF BuiltInMain
    <3>2. cxx'[q] = cxx[q]
      BY <3>1, OthersStep
    <3>3. opts[q].out \in Outputs
      BY DEF TypeOK, Options
    <3>4. output[opts[q].out] # NotBuilt => output'[opts[q].out] # NotBuilt
      BY <3>3, OutputStays, NamesAssumption
    <3>5. QED BY <2>2, <3>2, <3>4 DEF SuccessMeansBuilt
  <2>3. QED BY <2>1, <2>2 DEF SuccessMeansBuilt, Lsp
<1> USE NamesAssumption DEF TypeOK, EndedStops, ErrorsKnown, BuiltInMain, SuccessMeansBuilt,
            Built, NotBuilt, Exit, Abort, End, Goto, ReturnFromCompile, Lsp, outcome, files
<1>1. CASE CommandLine(p)  BY <1>1 DEF CommandLine
<1>2. CASE BuildStops(p)  BY <1>2 DEF BuildStops
<1>3. CASE BuildThrows(p)  BY <1>3 DEF BuildThrows
<1>4. CASE OpenTemp(p)  BY <1>4 DEF OpenTemp
<1>5. CASE WriteTemp(p)  BY <1>5 DEF WriteTemp
<1>6. CASE SkipCxx(p)  BY <1>6 DEF SkipCxx
<1>7. CASE StartCxx(p)  BY <1>7 DEF StartCxx
<1>8. CASE Cleanup(p)  BY <1>8 DEF Cleanup
<1>9. CASE Main(p)  BY <1>9 DEF Main
<1>10. QED
  BY <1>0, <1>1, <1>2, <1>3, <1>4, <1>5, <1>6, <1>7, <1>8, <1>9 DEF Step

-----------------------------------------------------------------------------

Inv ==
    /\ TypeOK /\ EndedStops /\ OwnFile /\ ErrorsKnown /\ BuiltInMain
    /\ OwnText /\ LeftoversMeanExit /\ EditorSeesErrors /\ SuccessMeansBuilt

(* At the start nobody has ended, nothing is recorded and no file is there.  *)
LEMMA InitInv == Init => Inv
<1> SUFFICES ASSUME Init  PROVE Inv
  OBVIOUS
<1>1. TypeOK  BY DEF Init, TypeOK, Labels, NotBuilt, None
<1>2. EndedStops /\ OwnFile /\ LeftoversMeanExit
  BY DEF Init, EndedStops, OwnFile, LeftoversMeanExit, Paths, None
<1>3. ErrorsKnown /\ BuiltInMain  BY DEF Init, ErrorsKnown, BuiltInMain
<1>4. OwnText /\ EditorSeesErrors /\ SuccessMeansBuilt
  BY DEF Init, OwnText, EditorSeesErrors, SuccessMeansBuilt
<1>5. QED BY <1>1, <1>2, <1>3, <1>4 DEF Inv

(* Every step of every process keeps all of it.                              *)
LEMMA NextInv == Inv /\ [Next]_vars => Inv'
<1> SUFFICES ASSUME Inv, [Next]_vars  PROVE Inv'
  OBVIOUS
<1> USE DEF Inv
<1>1. ASSUME NEW p \in Procs, Step(p)  PROVE Inv'
  BY <1>1, TypeStep, EndedStep, OwnFileStep, ErrorsStep, BuiltStep, OwnTextStep,
     LeftoversStep, EditorStep, SuccessStep
<1>2. CASE UNCHANGED vars
  BY <1>2 DEF vars, TypeOK, EndedStops, OwnFile, ErrorsKnown, BuiltInMain, Built, OwnText,
              LeftoversMeanExit, EditorSeesErrors, SuccessMeansBuilt, Lsp, SourceOf
<1>3. QED BY <1>1, <1>2 DEF Next, Done

(* Inv is an invariant of every number of processes and outputs.            *)
THEOREM Invariance == Spec => []Inv
BY InitInv, NextInv, PTL DEF Spec

(* Every variable keeps its type, for any number of processes and outputs.   *)
THEOREM TypeCorrect == Spec => []TypeOK
<1>1. Inv => TypeOK  BY DEF Inv
<1>2. QED BY <1>1, Invariance, PTL

(* CXXCompileAction: the executable of a process without --verbose --debug   *)
(* is built from its own CX-IR, whatever the other processes do meanwhile.   *)
THEOREM OutputsAreOwn == Spec => []OwnText
<1>1. Inv => OwnText  BY DEF Inv
<1>2. QED BY <1>1, Invariance, PTL

(* The destructor of CXXCompileAction: only std::exit and abort leave a       *)
(* CX-IR file behind.                                                       *)
THEOREM NothingIsLeft == Spec => []LeftoversMeanExit
<1>1. Inv => LeftoversMeanExit  BY DEF Inv
<1>2. QED BY <1>1, Invariance, PTL

(* main and build_unit in LSP mode: a run that met an error ends with code 1.*)
THEOREM EditorsSeeErrors == Spec => []EditorSeesErrors
<1>1. Inv => EditorSeesErrors  BY DEF Inv
<1>2. QED BY <1>1, Invariance, PTL

(* The last line of main: it says success only of what was built, but for     *)
(* the C++ compilers that fail without a word.                               *)
THEOREM SuccessIsBuilt == Spec => []SuccessMeansBuilt
<1>1. Inv => SuccessMeansBuilt  BY DEF Inv
<1>2. QED BY <1>1, Invariance, PTL

-----------------------------------------------------------------------------

(* The runner of the tests.                                                 *)
Steps == {"start", "compiling", "asking", "running", "cleaning", "done"}
Executables == [by : Procs \cup {None}, text : Procs \cup {None, "empty"}]

RunnerTypeOK ==
    /\ TypeOK
    /\ round \in Rounds /\ killed \in BOOLEAN /\ started \subseteq Procs
    /\ step \in [Tests -> Steps]
    /\ seen \in [Tests -> [stdout : {"blank", "expected", "other"},
                           stderr : Stderrs \cup {"blank"}, compiled : BOOLEAN]]
    /\ ran \in [Tests -> Executables]
    /\ verdict \in [Tests -> {"none", "pass", "fail"}]

(* The command lines of run_test.                                           *)
CommandsKnown ==
    \A t \in Tests, r \in Rounds :
        /\ LET o == opts[Builder[t][r]]
           IN o.out = Executable[t] /\ o.mode = "plain" /\ ~o.verboseDebug /\ ~o.emitAst
        /\ LET o == opts[Checker[t][r]]
           IN o.out = Executable[t] /\ o.mode = "lsp" /\ ~o.verboseDebug /\ ~o.emitAst

(* A process waits for its test, and a test for its processes.               *)
StartedInTurn ==
    /\ \A p \in started : \E t \in Tests, r \in Rounds :
          r <= round /\ p \in {Builder[t][r], Checker[t][r]}
    /\ \A p \in Procs : p \notin started => pc[p] = "cli" /\ ended[p] = "no"
    /\ \A t \in Tests : \A r \in Rounds :
          /\ Builder[t][r] \in started <=> (r < round \/ (r = round /\ step[t] # "start"))
          /\ Checker[t][r] \in started => r <= round
    /\ \A t \in Tests :
          /\ step[t] \in {"running", "asking", "cleaning", "done"} => Ended(MyBuilder(t))
          /\ step[t] = "asking" => MyChecker(t) \in started

(* How a process of the runner ends: LSP_MODE is for those who asked for it,  *)
(* whoever returns from main without it says something, and only a return    *)
(* has code 0.                                                              *)
EndsKnown ==
    \A p \in Procs :
        /\ lspMode[p] => Lsp(p)
        /\ ended[p] = "return" /\ ~Lsp(p) => said[p] # "nothing"
        /\ p \in started /\ ended[p] \in {"exit", "abort"} => code[p] # 0

(* Who built an executable is on the way to say success, without an error,   *)
(* or it met a line of the C++ compiler that it does not understand.         *)
Linked(p) ==
    /\ ~lspMode[p]
    /\ \/ cxx[p] = "confusing" /\ pc[p] \in {"cleanup", "main", "end"}
       \/ /\ ~errored[p]
          /\ \/ pc[p] = "cleanup"
             \/ pc[p] = "main" /\ result[p] = 0
             \/ pc[p] = "end" /\ said[p] = "success"

(* An executable is of a builder of its own test, also the one that was run. *)
Own(t, e) ==
    e # NotBuilt =>
        /\ e.by \in Procs /\ e.text = e.by /\ Linked(e.by)
        /\ \E r \in 1 .. round : e.by = Builder[t][r]
ExecutablesOwn == \A t \in Tests : Own(t, output[Executable[t]]) /\ Own(t, ran[t])

(* As long as nobody was killed, the rounds before have left nothing behind.  *)
(* A program is only run after a return from main.                          *)
RoundsApart ==
    /\ ~killed =>
        \A t \in Tests :
            /\ \A r \in Rounds : r < round => Ended(Builder[t][r])
            /\ step[t] \in {"start", "done"} => output[Executable[t]] = NotBuilt
            /\ output[Executable[t]] # NotBuilt => output[Executable[t]].by = MyBuilder(t)
            /\ ran[t] # NotBuilt => ran[t].by = MyBuilder(t)
    /\ \A t \in Tests :
          /\ step[t] = "running" => Exists(t)
          /\ ran[t] # NotBuilt => step[t] \in {"cleaning", "done"}
          /\ step[t] = "running" \/ ran[t] # NotBuilt => ended[MyBuilder(t)] = "return"

(* What a test has seen when nothing stood in stdout.                        *)
Explained(t) ==
    LET b == MyBuilder(t)
        c == MyChecker(t)
    IN \/ ended[b] \in {"exit", "abort"}
       \/ c \in started /\ ended[c] = "return" /\ code[c] = 0
       \/ ran[t] # NotBuilt
SilenceExplained ==
    \A t \in Tests :
        /\ step[t] \in {"cleaning", "done"} /\ seen[t].stdout = "blank" => Explained(t)
        /\ verdict[t] = "pass" => step[t] = "done" /\ Passed(want[t], seen[t])

RInv ==
    /\ RunnerTypeOK /\ CommandsKnown /\ EndedStops /\ OwnFile /\ ErrorsKnown
    /\ StartedInTurn /\ EndsKnown /\ ExecutablesOwn /\ RoundsApart /\ SilenceExplained

-----------------------------------------------------------------------------

(* A process that has ended is over, and no command line changes.            *)
LEMMA StepFacts ==
    ASSUME NEW p \in Procs, Step(p), TypeOK
    PROVE  /\ pc[p] # "end" /\ opts' = opts
           /\ \A q \in Procs : q # p =>
                 /\ pc'[q] = pc[q] /\ said'[q] = said[q] /\ result'[q] = result[q]
                 /\ errored'[q] = errored[q] /\ lspMode'[q] = lspMode[q] /\ cxx'[q] = cxx[q]
                 /\ ended'[q] = ended[q] /\ code'[q] = code[q]
<1>1. pc[p] # "end" /\ opts' = opts
  BY DEF Step, CommandLine, BuildStops, BuildThrows, OpenTemp, WriteTemp, SkipCxx, StartCxx,
         CxxAccepts, CxxRejects, CxxConfuses, Cleanup, Main
<1>2. ASSUME NEW q \in Procs, q # p  PROVE ended'[q] = ended[q] /\ code'[q] = code[q]
  <2> USE <1>2 DEF TypeOK, Exit, Abort, End, Goto, ReturnFromCompile, outcome
  <2>1. CASE CommandLine(p)  BY <2>1 DEF CommandLine
  <2>2. CASE BuildStops(p)  BY <2>2 DEF BuildStops
  <2>3. CASE BuildThrows(p)  BY <2>3 DEF BuildThrows
  <2>4. CASE CxxConfuses(p)  BY <2>4 DEF CxxConfuses
  <2>5. CASE Main(p)  BY <2>5 DEF Main
  <2>6. CASE OpenTemp(p) \/ WriteTemp(p) \/ SkipCxx(p) \/ StartCxx(p)
    BY <2>6 DEF OpenTemp, WriteTemp, SkipCxx, StartCxx
  <2>7. CASE CxxAccepts(p) \/ CxxRejects(p) \/ Cleanup(p)
    BY <2>7 DEF CxxAccepts, CxxRejects, Cleanup
  <2>8. QED BY <2>1, <2>2, <2>3, <2>4, <2>5, <2>6, <2>7 DEF Step
<1>3. QED BY <1>1, <1>2, OthersStep

(* Whoever has linked an executable keeps to its way.                        *)
LEMMA LinkedStep ==
    ASSUME NEW p \in Procs, Step(p), TypeOK, NEW q \in Procs, Linked(q)
    PROVE  Linked(q)'
<1>1. CASE q # p
  BY <1>1, StepFacts DEF Linked
<1>2. CASE q = p
  <2>1. pc[p] \in {"cleanup", "main"}
    BY <1>2, StepFacts DEF Linked
  <2>2. Cleanup(p) \/ Main(p)
    BY <2>1 DEF Step, CommandLine, BuildStops, BuildThrows, OpenTemp, WriteTemp, SkipCxx, StartCxx,
         CxxAccepts, CxxRejects, CxxConfuses
  <2>3. CASE Cleanup(p)
    <3>1. /\ pc'[p] = "main" /\ result'[p] = 0 /\ errored' = errored /\ lspMode' = lspMode
          /\ cxx' = cxx
      BY <2>3 DEF Cleanup, ReturnFromCompile, Goto, TypeOK, errors
    <3>2. QED BY <1>2, <3>1 DEF Linked
  <2>4. CASE Main(p)
    <3>1. /\ pc[p] = "main" /\ ~lspMode[p]
          /\ cxx[p] = "confusing" \/ (~errored[p] /\ result[p] = 0)
      BY <1>2, <2>4 DEF Main, Linked
    <3>2. /\ pc'[p] = "end" /\ errored' = errored /\ lspMode' = lspMode /\ cxx' = cxx
          /\ ~errored[p] /\ result[p] = 0 => said'[p] = "success"
      BY <2>4, <3>1 DEF Main, End, Goto, TypeOK, errors
    <3>3. QED BY <1>2, <3>1, <3>2 DEF Linked
  <2>5. QED BY <2>2, <2>3, <2>4
<1>3. QED BY <1>1, <1>2

(* An executable is new only where the C++ compiler has built it.             *)
LEMMA OutputStep ==
    ASSUME NEW p \in Procs, Step(p), TypeOK, ErrorsKnown, OwnFile, NEW o \in Outputs,
           output'[o] # output[o]
    PROVE  /\ o = opts[p].out /\ ~Lsp(p) /\ pc[p] = "run" /\ Linked(p)'
           /\ output'[o].by = p
           /\ ~opts[p].verboseDebug => output'[o].text = p
<1>1. CxxAccepts(p) \/ CxxConfuses(p)
  BY DEF Step, CommandLine, BuildStops, BuildThrows, OpenTemp, WriteTemp, SkipCxx, StartCxx,
         CxxRejects, Cleanup, Main, files
<1>2. /\ pc[p] = "run" /\ lspMode' = lspMode /\ temp[SourceOf(p)] # None
      /\ output' = Links(p)
  BY <1>1 DEF CxxAccepts, CxxConfuses
<1>3. ~lspMode[p] /\ o = opts[p].out /\ output'[o] = [by |-> p, text |-> temp[SourceOf(p)]]
  BY <1>2 DEF Links, TypeOK
<1>4. ~errored[p] /\ lspMode[p] = Lsp(p)
  BY <1>2 DEF ErrorsKnown
<1>5. ASSUME CxxAccepts(p)  PROVE Linked(p)'
  BY <1>2, <1>3, <1>4, <1>5 DEF CxxAccepts, Goto, Panic, errors, TypeOK, Linked
<1>6. ASSUME CxxConfuses(p)  PROVE Linked(p)'
  <2>1. cxx'[p] = "confusing" /\ pc'[p] \in {"cleanup", "end"}
    BY <1>6 DEF CxxConfuses, Exit, Abort, End, Goto, TypeOK
  <2>2. QED BY <1>2, <1>3, <2>1 DEF Linked
<1>7. ~opts[p].verboseDebug => temp[SourceOf(p)] = p
  BY <1>2 DEF OwnFile, SourceOf
<1>8. QED BY <1>1, <1>2, <1>3, <1>4, <1>5, <1>6, <1>7

(* What is known of the ends of processes, after a step of one of the         *)
(* runner's: a good command line does not end in main's first lines.         *)
LEMMA EndsStep ==
    ASSUME NEW p \in Procs, HelixStep(p), TypeOK, EndedStops, ErrorsKnown, EndsKnown
    PROVE  EndsKnown'
<1> DEFINE Here(q) ==
        /\ lspMode[q] => Lsp(q)
        /\ ended[q] = "return" /\ ~Lsp(q) => said[q] # "nothing"
        /\ q \in started /\ ended[q] \in {"exit", "abort"} => code[q] # 0
<1>0. Step(p) /\ started' = started /\ (pc[p] = "cli" => pc'[p] # "end")
  BY DEF HelixStep, runner, Ended
<1>a. ended[p] = "no" /\ opts' = opts
  BY <1>0, StepFacts DEF EndedStops
<1>1. ASSUME NEW q \in Procs, q # p  PROVE Here(q)'
  <2>1. Here(q)
    BY DEF EndsKnown
  <2>2. QED BY <1>0, <1>1, <2>1, StepFacts DEF Lsp
<1>2. Here(p)'
  <2>0. lspMode[p] => Lsp(p)
    BY DEF EndsKnown
  <2> USE <1>0, <1>a, <2>0 DEF TypeOK, Exit, Abort, End, Goto, ReturnFromCompile, outcome, Lsp
  <2>1. CASE CommandLine(p)  BY <2>1 DEF CommandLine
  <2>2. CASE BuildStops(p)  BY <2>2 DEF BuildStops
  <2>3. CASE BuildThrows(p)  BY <2>3 DEF BuildThrows
  <2>4. CASE CxxConfuses(p)
    <3>1. CASE Exit(p, 1)  BY <2>4, <3>1 DEF CxxConfuses
    <3>2. CASE Abort(p)  BY <2>4, <3>2 DEF CxxConfuses
    <3>3. CASE Goto(p, "cleanup") /\ UNCHANGED outcome  BY <2>4, <3>3 DEF CxxConfuses
    <3>4. QED BY <2>4, <3>1, <3>2, <3>3 DEF CxxConfuses
  <2>5. CASE Main(p)  BY <2>5 DEF Main
  <2>6. CASE OpenTemp(p) \/ WriteTemp(p) \/ SkipCxx(p) \/ StartCxx(p)
    BY <2>6 DEF OpenTemp, WriteTemp, SkipCxx, StartCxx
  <2>7. CASE CxxAccepts(p) \/ CxxRejects(p) \/ Cleanup(p)
    BY <2>7 DEF CxxAccepts, CxxRejects, Cleanup
  <2>8. QED BY <1>0, <2>1, <2>2, <2>3, <2>4, <2>5, <2>6, <2>7 DEF Step
<1>3. QED BY <1>1, <1>2 DEF EndsKnown

(* What has ended keeps how it ended.                                        *)
LEMMA EndedStay ==
    ASSUME NEW p \in Procs, Step(p), TypeOK, EndedStops, NEW q \in Procs
    PROVE  /\ Ended(q) => Ended(q)' /\ said'[q] = said[q] /\ q # p
           /\ ended[q] # "no" => ended'[q] = ended[q] /\ code'[q] = code[q] /\ q # p
<1>1. q # p \/ (~Ended(q) /\ ended[q] = "no")
  BY StepFacts DEF Ended, EndedStops
<1>2. CASE q # p
  BY <1>2, StepFacts DEF Ended
<1>3. QED BY <1>1, <1>2

(* A new executable is one of the builder that works for the test now, or of  *)
(* an earlier round's if that was killed.                                    *)
LEMMA NewExecutable ==
    ASSUME NEW p \in Procs, HelixStep(p), RInv, NEW t \in Tests,
           output'[Executable[t]] # output[Executable[t]]
    PROVE  LET e == output'[Executable[t]]
           IN /\ e.by = p /\ e.text = p /\ Linked(p)' /\ pc[p] = "run"
              /\ \E r \in 1 .. round : p = Builder[t][r]
<1>0. Step(p) /\ p \in started /\ Executable[t] \in Outputs
  BY RunnerAssumption DEF HelixStep
<1>1. /\ Executable[t] = opts[p].out /\ ~Lsp(p) /\ pc[p] = "run" /\ Linked(p)'
      /\ output'[Executable[t]].by = p
      /\ ~opts[p].verboseDebug => output'[Executable[t]].text = p
  <2> DEFINE o == Executable[t]
  <2>1. o \in Outputs /\ output'[o] # output[o]  BY <1>0
  <2> HIDE DEF o
  <2>2. /\ o = opts[p].out /\ ~Lsp(p) /\ pc[p] = "run" /\ Linked(p)'
        /\ output'[o].by = p
        /\ ~opts[p].verboseDebug => output'[o].text = p
    BY <1>0, <2>1, OutputStep DEF RInv, RunnerTypeOK
  <2>3. QED BY <2>2 DEF o
<1>2. PICK u \in Tests, r \in Rounds : r <= round /\ p \in {Builder[u][r], Checker[u][r]}
  BY <1>0 DEF RInv, StartedInTurn
<1>3. p = Builder[u][r]
  BY <1>1, <1>2 DEF RInv, CommandsKnown, Lsp
<1>4. ~opts[p].verboseDebug /\ opts[p].out = Executable[u]
  BY <1>3 DEF RInv, CommandsKnown
<1>5. u = t
  BY <1>1, <1>4, RunnerAssumption
<1>6. r \in 1 .. round
  BY <1>2, RunnerAssumption DEF RInv, RunnerTypeOK, Rounds
<1>7. QED BY <1>1, <1>3, <1>4, <1>5, <1>6

(* A step of a helix process keeps what is known of the runner.               *)
LEMMA HelixStepInv ==
    ASSUME NEW p \in Procs, HelixStep(p), RInv
    PROVE  RInv'
<1> USE DEF RInv
<1>0. /\ Step(p) /\ p \in started /\ TypeOK /\ round \in Nat /\ opts' = opts
      /\ want' = want /\ round' = round /\ killed' = killed /\ started' = started
      /\ step' = step /\ seen' = seen /\ ran' = ran /\ verdict' = verdict
  BY StepFacts, RunnerAssumption DEF HelixStep, runner, RunnerTypeOK, Rounds
<1>1. RunnerTypeOK'
  BY <1>0, TypeStep DEF RunnerTypeOK
<1>2. CommandsKnown'
  BY <1>0 DEF CommandsKnown
<1>3. EndedStops' /\ OwnFile' /\ ErrorsKnown'
  BY <1>0, EndedStep, OwnFileStep, ErrorsStep
<1>4. EndsKnown'
  BY <1>0, EndsStep
<1>5. StartedInTurn'
  <2>1. ASSUME NEW q \in Procs, q \notin started  PROVE pc'[q] = "cli" /\ ended'[q] = "no"
    BY <1>0, <2>1, StepFacts DEF StartedInTurn
  <2>2. \A t \in Tests : MyBuilder(t)' = MyBuilder(t) /\ MyBuilder(t) \in Procs
                         /\ MyChecker(t)' = MyChecker(t)
    BY <1>0, RunnerAssumption DEF MyBuilder, MyChecker, RunnerTypeOK
  <2>3. ASSUME NEW t \in Tests, step[t] \in {"running", "asking", "cleaning", "done"}
        PROVE  Ended(MyBuilder(t))'
    <3>1. Ended(MyBuilder(t))
      BY <2>3 DEF StartedInTurn
    <3>2. QED BY <1>0, <2>2, <3>1, EndedStay DEF Ended
  <2>4. QED BY <1>0, <2>1, <2>2, <2>3 DEF StartedInTurn
<1>6. ExecutablesOwn'
  <2>1. ASSUME NEW t \in Tests, NEW e, Own(t, e)
        PROVE  Own(t, e)'
    BY <1>0, <2>1, LinkedStep DEF Own
  <2>2. ASSUME NEW t \in Tests  PROVE Own(t, ran[t])'
    BY <1>0, <2>1, <2>2 DEF ExecutablesOwn, Own
  <2>3. ASSUME NEW t \in Tests  PROVE Own(t, output[Executable[t]])'
    <3>1. CASE output'[Executable[t]] = output[Executable[t]]
      BY <1>0, <2>1, <2>3, <3>1 DEF ExecutablesOwn, Own
    <3>2. CASE output'[Executable[t]] # output[Executable[t]]
      BY <1>0, <2>3, <3>2, NewExecutable DEF Own
    <3>3. QED BY <3>1, <3>2
  <2>4. QED BY <2>2, <2>3 DEF ExecutablesOwn
<1>7. RoundsApart'
  <2>1. ASSUME ~killed, NEW t \in Tests, NEW r \in Rounds, r < round
        PROVE  Ended(Builder[t][r])'
    <3>1. Ended(Builder[t][r]) /\ Builder[t][r] \in Procs
      BY <2>1, RunnerAssumption DEF RoundsApart
    <3>2. QED BY <1>0, <3>1, EndedStay DEF Ended
  <2>2. ASSUME ~killed, NEW t \in Tests, output'[Executable[t]] # output[Executable[t]]
        PROVE  p = MyBuilder(t) /\ step[t] \notin {"start", "done"}
    <3>1. PICK r \in 1 .. round : p = Builder[t][r] /\ pc[p] = "run"
      BY <2>2, NewExecutable
    <3>2. r \in Rounds /\ round \in Rounds
      BY <1>0, <3>1, RunnerAssumption DEF RunnerTypeOK, Rounds
    <3>3. ~(r < round)
      BY <2>2, <3>1, <3>2 DEF RoundsApart, Ended
    <3>4. r = round
      BY <1>0, <3>1, <3>3
    <3>5. step[t] # "start"
      BY <1>0, <3>1, <3>2, <3>4 DEF StartedInTurn
    <3>6. step[t] # "done"
      BY <3>1, <3>4 DEF StartedInTurn, Ended, MyBuilder
    <3>7. QED BY <3>1, <3>4, <3>5, <3>6 DEF MyBuilder
  <2>3. ASSUME ~killed, NEW t \in Tests
        PROVE  /\ step[t] \in {"start", "done"} => output'[Executable[t]] = NotBuilt
               /\ output'[Executable[t]] # NotBuilt => output'[Executable[t]].by = MyBuilder(t)
               /\ ran[t] # NotBuilt => ran[t].by = MyBuilder(t)
    <3>1. CASE output'[Executable[t]] = output[Executable[t]]
      BY <2>3, <3>1 DEF RoundsApart
    <3>2. CASE output'[Executable[t]] # output[Executable[t]]
      BY <2>2, <2>3, <3>2, NewExecutable DEF RoundsApart
    <3>3. QED BY <3>1, <3>2
  <2>4. ASSUME NEW t \in Tests, step[t] = "running"  PROVE output'[Executable[t]] # NotBuilt
    <3>1. output[Executable[t]] # NotBuilt /\ Executable[t] \in Outputs
      BY <2>4, RunnerAssumption DEF RoundsApart, Exists
    <3>2. QED BY <1>0, <3>1, OutputStays, NamesAssumption
  <2>5. ASSUME NEW t \in Tests, step[t] = "running" \/ ran[t] # NotBuilt
        PROVE  ended'[MyBuilder(t)] = "return"
    <3>1. ended[MyBuilder(t)] = "return" /\ MyBuilder(t) \in Procs
      BY <1>0, <2>5, RunnerAssumption DEF RoundsApart, MyBuilder, RunnerTypeOK
    <3>2. QED BY <1>0, <3>1, EndedStay
  <2>6. QED BY <1>0, <2>1, <2>3, <2>4, <2>5 DEF RoundsApart, MyBuilder, Exists
<1>8. SilenceExplained'
  <2>1. ASSUME NEW t \in Tests, Explained(t)  PROVE Explained(t)'
    <3>1. MyBuilder(t) \in Procs /\ MyChecker(t) \in Procs
      BY <1>0, RunnerAssumption DEF MyBuilder, MyChecker, RunnerTypeOK
    <3> DEFINE b == MyBuilder(t)
               c == MyChecker(t)
    <3>2. b' = b /\ c' = c
      BY <1>0 DEF MyBuilder, MyChecker
    <3>3. ended[b] # "no" => ended'[b] = ended[b]
      BY <1>0, <3>1, EndedStay
    <3>4. ended[c] # "no" => ended'[c] = ended[c] /\ code'[c] = code[c]
      BY <1>0, <3>1, EndedStay
    <3>5. QED BY <1>0, <2>1, <3>2, <3>3, <3>4 DEF Explained
  <2>2. QED BY <1>0, <2>1 DEF SilenceExplained
<1>9. QED BY <1>1, <1>2, <1>3, <1>4, <1>5, <1>6, <1>7, <1>8

-----------------------------------------------------------------------------

(* The parts of the invariant that look at a process at work only.           *)
LEMMA ProcessesApart ==
    ASSUME RInv, UNCHANGED vars
    PROVE  /\ TypeOK' /\ CommandsKnown' /\ EndedStops' /\ OwnFile' /\ ErrorsKnown'
           /\ \A p \in Procs : Linked(p)' = Linked(p) /\ Ended(p)' = Ended(p)
<1> USE DEF vars
<1>1. TypeOK'
  BY DEF RInv, RunnerTypeOK, TypeOK
<1>2. CommandsKnown' /\ EndedStops'
  BY DEF RInv, CommandsKnown, EndedStops
<1>3. OwnFile' /\ ErrorsKnown'
  BY DEF RInv, OwnFile, ErrorsKnown, Lsp
<1>4. \A p \in Procs : Linked(p)' = Linked(p) /\ Ended(p)' = Ended(p)
  BY DEF Linked, Ended
<1>5. QED BY <1>1, <1>2, <1>3, <1>4

(* What a thread sees of a helix process that said nothing to stdout.        *)
LEMMA SeesTyped ==
    ASSUME RInv, NEW t \in Tests, NEW p \in Procs, HelixSaid(t, p)
    PROVE  /\ seen' \in [Tests -> [stdout : {"blank", "expected", "other"},
                                  stderr : Stderrs \cup {"blank"}, compiled : BOOLEAN]]
           /\ seen'[t].stdout = "blank" => said[p] = "nothing"
           /\ \A u \in Tests : u # t => seen'[u] = seen[u]
<1>1. PICK err \in Stderrs \cup {"blank"} :
        Sees(t, IF said[p] = "nothing" THEN "blank" ELSE "other", err, FALSE)
  BY DEF HelixSaid
<1>2. seen' = [seen EXCEPT ![t] =
                 [stdout |-> IF said[p] = "nothing" THEN "blank" ELSE "other",
                  stderr |-> err, compiled |-> FALSE]]
  BY <1>1 DEF Sees
<1>3. QED BY <1>2 DEF RInv, RunnerTypeOK

(* A step of one thread that touches no file and starts nothing that is not   *)
(* its own.  What has to be shown is what it does to the thread's own test.  *)
LEMMA ThreadStepInv ==
    ASSUME RInv, NEW t \in Tests, UNCHANGED <<vars, folder>>,
           NEW s \in Steps, Then(t, s), step[t] # "done",
           started \subseteq started', started' \subseteq started \cup {MyBuilder(t), MyChecker(t)},
           MyBuilder(t) \in started' <=> s # "start",
           seen' \in [Tests -> [stdout : {"blank", "expected", "other"},
                               stderr : Stderrs \cup {"blank"}, compiled : BOOLEAN]],
           \A u \in Tests : u # t => seen'[u] = seen[u] /\ ran'[u] = ran[u],
           ran' \in [Tests -> Executables],
           ran'[t] \in {ran[t], output[Executable[t]]},
           verdict' = verdict,
           s # "start" /\ s # "done",
           s \in {"running", "asking", "cleaning"} => Ended(MyBuilder(t)),
           s = "asking" => MyChecker(t) \in started',
           s = "running" => Exists(t),
           s = "running" \/ ran'[t] # NotBuilt => ended[MyBuilder(t)] = "return",
           ran'[t] # NotBuilt => s = "cleaning",
           s = "cleaning" /\ seen'[t].stdout = "blank" => Explained(t)'
    PROVE  RInv'
<1>0. /\ want' = want /\ round' = round /\ killed' = killed /\ output' = output
      /\ step' = [step EXCEPT ![t] = s] /\ step'[t] = s
      /\ \A u \in Tests : u # t => step'[u] = step[u]
      /\ round \in Rounds /\ MaxRounds \in Nat
  BY RunnerAssumption DEF RInv, RunnerTypeOK, folder, vars, Then
<1>a. \A u \in Tests : /\ MyBuilder(u)' = MyBuilder(u) /\ MyChecker(u)' = MyChecker(u)
                        /\ MyBuilder(u) \in Procs /\ MyChecker(u) \in Procs
  BY <1>0, RunnerAssumption DEF MyBuilder, MyChecker
<1>b. \A u \in Tests, r \in Rounds :
        /\ <<u, r>> # <<t, round>> =>
              /\ Builder[u][r] \in started' <=> Builder[u][r] \in started
              /\ Checker[u][r] \in started' <=> Checker[u][r] \in started
  BY <1>0, RunnerAssumption DEF MyBuilder, MyChecker
<1>1. RunnerTypeOK'
  BY <1>0, <1>a, ProcessesApart DEF RInv, RunnerTypeOK
<1>2. CommandsKnown' /\ EndedStops' /\ OwnFile' /\ ErrorsKnown'
  BY ProcessesApart
<1>3. StartedInTurn'
  <2>1. ASSUME NEW p \in started'
        PROVE  \E u \in Tests, r \in Rounds : r <= round /\ p \in {Builder[u][r], Checker[u][r]}
    <3>1. CASE p \in started
      BY <3>1 DEF RInv, StartedInTurn
    <3>2. CASE p \in {MyBuilder(t), MyChecker(t)}
      BY <1>0, <3>2 DEF MyBuilder, MyChecker, Rounds
    <3>3. QED BY <2>1, <3>1, <3>2
  <2>2. \A p \in Procs : p \notin started' => pc'[p] = "cli" /\ ended'[p] = "no"
    BY DEF RInv, StartedInTurn, vars
  <2>3. ASSUME NEW u \in Tests, NEW r \in Rounds
        PROVE  /\ Builder[u][r] \in started' <=> (r < round \/ (r = round /\ step'[u] # "start"))
               /\ Checker[u][r] \in started' => r <= round
    <3>1. /\ Builder[u][r] \in started <=> (r < round \/ (r = round /\ step[u] # "start"))
          /\ Checker[u][r] \in started => r <= round
      BY DEF RInv, StartedInTurn
    <3>2. CASE u # t
      BY <1>0, <1>b, <3>1, <3>2
    <3>3. CASE u = t /\ r # round
      BY <1>0, <1>b, <3>1, <3>3
    <3>4. CASE u = t /\ r = round
      BY <1>0, <3>4 DEF MyBuilder, Rounds
    <3>5. QED BY <3>2, <3>3, <3>4
  <2>4. ASSUME NEW u \in Tests
        PROVE  /\ step'[u] \in {"running", "asking", "cleaning", "done"} => Ended(MyBuilder(u))'
               /\ step'[u] = "asking" => MyChecker(u)' \in started'
    <3>1. Ended(MyBuilder(u))' = Ended(MyBuilder(u))
      BY <1>a DEF Ended, vars
    <3>2. CASE u = t
      BY <1>0, <1>a, <3>1, <3>2
    <3>3. CASE u # t
      BY <1>0, <1>a, <3>1, <3>3 DEF RInv, StartedInTurn
    <3>4. QED BY <3>2, <3>3
  <2>5. QED BY <1>0, <2>1, <2>2, <2>3, <2>4 DEF StartedInTurn
<1>4. EndsKnown'
  <2>1. ASSUME NEW p \in started', ended[p] # "no"  PROVE p \in started
    BY <1>a, <2>1 DEF RInv, StartedInTurn
  <2>2. QED BY <1>1, <2>1 DEF RInv, EndsKnown, vars, Lsp, RunnerTypeOK
<1>5. ASSUME NEW u \in Tests, NEW e, Own(u, e)  PROVE Own(u, e)'
  BY <1>0, <1>5, ProcessesApart DEF Own
<1>6. ExecutablesOwn'
  <2>1. ASSUME NEW u \in Tests  PROVE Own(u, output[Executable[u]]) /\ Own(u, ran'[u])
    BY <2>1 DEF RInv, ExecutablesOwn
  <2>2. ASSUME NEW u \in Tests  PROVE Own(u, output[Executable[u]])' /\ Own(u, ran[u])'
    <3>1. Own(u, output[Executable[u]])'
      BY <1>0, <1>5, <2>1 DEF Own
    <3>4. Own(u, ran[u])'
      BY <1>0, <2>1 DEF Own, Linked, vars
    <3>5. QED BY <3>1, <3>4
  <2>3. QED BY <2>2 DEF ExecutablesOwn
<1>7. RoundsApart'
  <2>1. ASSUME ~killed, NEW u \in Tests
        PROVE  /\ \A r \in Rounds : r < round => Ended(Builder[u][r])'
               /\ step'[u] \in {"start", "done"} => output[Executable[u]] = NotBuilt
               /\ output[Executable[u]] # NotBuilt => output[Executable[u]].by = MyBuilder(u)
               /\ ran'[u] # NotBuilt => ran'[u].by = MyBuilder(u)
    BY <1>0, <2>1 DEF RInv, RoundsApart, Ended, vars
  <2>2. ASSUME NEW u \in Tests
        PROVE  /\ step'[u] = "running" => Exists(u)'
               /\ ran'[u] # NotBuilt => step'[u] \in {"cleaning", "done"}
    BY <1>0, <2>2 DEF RInv, RoundsApart, Exists
  <2>3. ASSUME NEW u \in Tests, step'[u] = "running" \/ ran'[u] # NotBuilt
        PROVE  ended[MyBuilder(u)] = "return"
    BY <1>0, <2>3 DEF RInv, RoundsApart
  <2>4. ended' = ended
    BY DEF vars
  <2>5. QED BY <1>0, <1>a, <2>1, <2>2, <2>3, <2>4 DEF RoundsApart
<1>8. SilenceExplained'
  <2>1. ASSUME NEW u \in Tests, u # t, Explained(u)  PROVE Explained(u)'
    BY <1>a, <2>1 DEF Explained, vars
  <2>2. ASSUME NEW u \in Tests, step'[u] \in {"cleaning", "done"}, seen'[u].stdout = "blank"
        PROVE  Explained(u)'
    BY <1>0, <2>1, <2>2 DEF RInv, SilenceExplained
  <2>3. ASSUME NEW u \in Tests, verdict[u] = "pass"
        PROVE  step'[u] = "done" /\ Passed(want[u], seen'[u])
    BY <1>0, <2>3 DEF RInv, SilenceExplained
  <2>4. QED BY <1>0, <2>2, <2>3 DEF SilenceExplained
<1>9. QED BY <1>1, <1>2, <1>3, <1>4, <1>6, <1>7, <1>8 DEF RInv

(* The runner's threads: what a step does with its own test.                 *)
LEMMA CompileInv ==
    ASSUME RInv, NEW t \in Tests, Compile(t)
    PROVE  RInv'
<1> USE DEF Compile, Start
<1>1. "compiling" \in Steps /\ MyBuilder(t) \in started'
  BY DEF Steps
<1>2. ran[t] = NotBuilt
  BY DEF RInv, RoundsApart
<1>3. /\ seen' = seen /\ ran' = ran /\ verdict' = verdict /\ started \subseteq started'
      /\ started' \subseteq started \cup {MyBuilder(t), MyChecker(t)}
  OBVIOUS
<1>4. Then(t, "compiling") /\ UNCHANGED <<vars, folder>>
  OBVIOUS
<1>5. QED BY <1>1, <1>2, <1>3, <1>4, ThreadStepInv DEF RInv, RunnerTypeOK

(* A thread that is told of errors keeps the invariant.                        *)
LEMMA CompileFailedInv ==
    ASSUME RInv, NEW t \in Tests, CompileFailed(t)
    PROVE  RInv'
<1> USE DEF CompileFailed
<1> DEFINE b == MyBuilder(t)
<1>1. "cleaning" \in Steps
  BY DEF Steps
<1>2. b \in Procs /\ b \in started /\ ~Lsp(b) /\ ended[b] # "no"
  BY RunnerAssumption DEF RInv, RunnerTypeOK, StartedInTurn, MyBuilder, CommandsKnown, Lsp, Ended,
       EndedStops
<1>3. seen'[t].stdout = "blank" => ended[b] \in {"exit", "abort"}
  BY <1>2, SeesTyped DEF RInv, EndsKnown, RunnerTypeOK, TypeOK
<1>4. seen'[t].stdout = "blank" => Explained(t)'
  BY <1>3 DEF Explained, MyBuilder, vars, folder
<1>5. ran[t] = NotBuilt
  BY DEF RInv, RoundsApart
<1>6. QED BY <1>1, <1>2, <1>4, <1>5, SeesTyped, ThreadStepInv DEF RInv, RunnerTypeOK

(* A thread that starts helix a second time keeps the invariant.               *)
LEMMA AskAgainInv ==
    ASSUME RInv, NEW t \in Tests, AskAgain(t)
    PROVE  RInv'
<1> USE DEF AskAgain, Start
<1>1. "asking" \in Steps /\ MyChecker(t) \in started'
  BY DEF Steps
<1>2. ran[t] = NotBuilt
  BY DEF RInv, RoundsApart
<1>3. MyBuilder(t) \in started
  BY RunnerAssumption DEF RInv, RunnerTypeOK, StartedInTurn, MyBuilder
<1>4. QED BY <1>1, <1>2, <1>3, ThreadStepInv DEF RInv, RunnerTypeOK

(* A thread that is answered the second time keeps the invariant.              *)
LEMMA AnsweredInv ==
    ASSUME RInv, NEW t \in Tests, Answered(t)
    PROVE  RInv'
<1> USE DEF Answered
<1> DEFINE b == MyBuilder(t)
           c == MyChecker(t)
<1>1. "cleaning" \in Steps
  BY DEF Steps
<1>2. /\ b \in Procs /\ b \in started /\ ~Lsp(b) /\ ended[b] # "no" /\ Ended(b)
      /\ c \in Procs /\ c \in started /\ ended[c] # "no"
  BY RunnerAssumption DEF RInv, RunnerTypeOK, StartedInTurn, MyBuilder, MyChecker, CommandsKnown,
       Lsp, Ended, EndedStops
<1>3. CASE code[c] # 0
  <2>1. seen'[t].stdout = "blank" => ended[b] \in {"exit", "abort"}
    BY <1>2, <1>3, SeesTyped DEF RInv, EndsKnown, RunnerTypeOK, TypeOK
  <2>2. seen'[t].stdout = "blank" => Explained(t)'
    BY <2>1 DEF Explained, MyBuilder, vars, folder
  <2>3. ran[t] = NotBuilt
    BY DEF RInv, RoundsApart
  <2>4. QED BY <1>1, <1>2, <1>3, <2>2, <2>3, SeesTyped, ThreadStepInv DEF RInv, RunnerTypeOK
<1>4. CASE code[c] = 0
  <2>1. ended[c] = "return"
    BY <1>2, <1>4 DEF RInv, EndsKnown, RunnerTypeOK, TypeOK
  <2>2. Explained(t)'
    BY <1>2, <1>4, <2>1 DEF Explained, MyChecker, vars, folder
  <2>3. ran[t] = NotBuilt
    BY DEF RInv, RoundsApart
  <2>4. Sees(t, "blank", "some", FALSE)
    BY <1>4
  <2>5. /\ seen' \in [Tests -> [stdout : {"blank", "expected", "other"},
                                stderr : Stderrs \cup {"blank"}, compiled : BOOLEAN]]
        /\ \A u \in Tests : u # t => seen'[u] = seen[u]
    BY <2>4 DEF Sees, Stderrs, RInv, RunnerTypeOK
  <2>6. QED BY <1>1, <1>2, <2>2, <2>3, <2>5, ThreadStepInv DEF RInv, RunnerTypeOK
<1>5. QED BY <1>3, <1>4

(* A thread whose helix succeeded keeps the invariant.                         *)
LEMMA CompiledInv ==
    ASSUME RInv, NEW t \in Tests, Compiled(t)
    PROVE  RInv'
<1> USE DEF Compiled
<1>1. "running" \in Steps
  BY DEF Steps
<1>2. ran[t] = NotBuilt
  BY DEF RInv, RoundsApart
<1>3. MyBuilder(t) \in started
  BY RunnerAssumption DEF RInv, RunnerTypeOK, StartedInTurn, MyBuilder
<1>4. ended[MyBuilder(t)] = "return"
  <2>1. MyBuilder(t) \in Procs /\ ended[MyBuilder(t)] # "no"
    BY RunnerAssumption DEF RInv, RunnerTypeOK, MyBuilder, Ended, EndedStops
  <2>2. QED BY <1>3, <2>1 DEF RInv, EndsKnown, RunnerTypeOK, TypeOK
<1>5. QED BY <1>1, <1>2, <1>3, <1>4, ThreadStepInv DEF RInv, RunnerTypeOK

(* A thread that runs what lies at the path of its test keeps the invariant.   *)
LEMMA ExecuteInv ==
    ASSUME RInv, NEW t \in Tests, Execute(t)
    PROVE  RInv'
<1> USE DEF Execute
<1>1. "cleaning" \in Steps
  BY DEF Steps
<1>2. MyBuilder(t) \in started /\ Ended(MyBuilder(t)) /\ Exists(t) /\ Executable[t] \in Outputs
  BY RunnerAssumption DEF RInv, RunnerTypeOK, StartedInTurn, MyBuilder, RoundsApart
<1>3. /\ ran' \in [Tests -> Executables] /\ ran'[t] = output[Executable[t]]
      /\ \A u \in Tests : u # t => ran'[u] = ran[u]
  BY <1>2 DEF RInv, RunnerTypeOK, Executables, TypeOK
<1>4. Explained(t)'
  BY <1>2, <1>3 DEF Explained, Exists
<1>5. /\ seen' \in [Tests -> [stdout : {"blank", "expected", "other"},
                              stderr : Stderrs \cup {"blank"}, compiled : BOOLEAN]]
      /\ \A u \in Tests : u # t => seen'[u] = seen[u]
  BY DEF Sees, RInv, RunnerTypeOK
<1>6. ended[MyBuilder(t)] = "return"
  BY DEF RInv, RoundsApart
<1>7. QED BY <1>1, <1>2, <1>3, <1>4, <1>5, <1>6, ThreadStepInv DEF RInv, RunnerTypeOK

(* A thread that removes the program keeps the invariant.                      *)
LEMMA CleanUpInv ==
    ASSUME RInv, NEW t \in Tests, CleanUp(t)
    PROVE  RInv'
<1> USE DEF CleanUp
<1> DEFINE o == Executable[t]
<1>0. /\ round' = round /\ killed' = killed /\ want' = want /\ started' = started
      /\ seen' = seen /\ ran' = ran /\ opts' = opts /\ pc' = pc /\ ended' = ended
      /\ code' = code /\ said' = said /\ result' = result /\ errored' = errored
      /\ recorded' = recorded /\ lspMode' = lspMode /\ cxx' = cxx /\ temp' = temp
      /\ step' = [step EXCEPT ![t] = "done"] /\ o \in Outputs /\ round \in Rounds
  BY RunnerAssumption DEF folder, outcome, errors, Then, RInv, RunnerTypeOK
<1>a. /\ output'[o] = NotBuilt /\ \A x \in Outputs : x # o => output'[x] = output[x]
      /\ \A u \in Tests : u # t => output'[Executable[u]] = output[Executable[u]]
  BY <1>0, RunnerAssumption DEF RInv, RunnerTypeOK, TypeOK
<1>b. step'[t] = "done" /\ \A u \in Tests : u # t => step'[u] = step[u]
  BY <1>0 DEF RInv, RunnerTypeOK
<1>c. \A u \in Tests : u # t => verdict'[u] = verdict[u]
  BY DEF RInv, RunnerTypeOK
<1>1. RunnerTypeOK'
  <2>1. NotBuilt \in Executables
    BY DEF NotBuilt, Executables, None
  <2>2. output' \in [Outputs -> Executables]
    BY <1>0, <2>1 DEF RInv, RunnerTypeOK, TypeOK, Executables
  <2>3. TypeOK'
    BY <1>0, <2>2 DEF RInv, RunnerTypeOK, TypeOK, Executables
  <2>4. "done" \in Steps
    BY DEF Steps
  <2>5. QED BY <1>0, <2>3, <2>4 DEF RInv, RunnerTypeOK, Executables
<1>2. CommandsKnown' /\ EndedStops' /\ OwnFile' /\ ErrorsKnown'
  BY <1>0 DEF RInv, CommandsKnown, EndedStops, OwnFile, ErrorsKnown, Lsp
<1>3. StartedInTurn'
  BY <1>0, <1>b DEF RInv, StartedInTurn, MyBuilder, MyChecker, Ended
<1>4. EndsKnown'
  BY <1>0 DEF RInv, EndsKnown, Lsp
<1>5. ExecutablesOwn'
  <2>1. ASSUME NEW u \in Tests  PROVE Own(u, ran[u])' /\ Own(u, output[Executable[u]])'
    <3>1. Own(u, ran[u])'
      BY <1>0 DEF RInv, ExecutablesOwn, Own, Linked
    <3>2. CASE u = t
      BY <1>a, <3>1, <3>2 DEF Own
    <3>3. CASE u # t
      BY <1>0, <1>a, <3>1, <3>3 DEF RInv, ExecutablesOwn, Own, Linked
    <3>4. QED BY <3>2, <3>3
  <2>2. QED BY <2>1 DEF ExecutablesOwn
<1>6. RoundsApart'
  <2>1. ASSUME ~killed, NEW u \in Tests
        PROVE  /\ \A r \in Rounds : r < round => pc[Builder[u][r]] = "end"
               /\ step'[u] \in {"start", "done"} => output'[Executable[u]] = NotBuilt
               /\ output'[Executable[u]] # NotBuilt => output'[Executable[u]].by = MyBuilder(u)
               /\ ran[u] # NotBuilt => ran[u].by = MyBuilder(u)
    BY <1>a, <1>b, <2>1 DEF RInv, RoundsApart, Ended
  <2>2. ASSUME NEW u \in Tests
        PROVE  /\ step'[u] = "running" => output'[Executable[u]] # NotBuilt
               /\ ran[u] # NotBuilt => step'[u] \in {"cleaning", "done"}
               /\ step'[u] = "running" \/ ran[u] # NotBuilt => ended[MyBuilder(u)] = "return"
    BY <1>a, <1>b, <2>2 DEF RInv, RoundsApart, Exists
  <2>3. QED BY <1>0, <2>1, <2>2 DEF RoundsApart, MyBuilder, Exists, Ended
<1>7. SilenceExplained'
  <2>1. ASSUME NEW u \in Tests, Explained(u)  PROVE Explained(u)'
    BY <1>0, <2>1 DEF Explained, MyBuilder, MyChecker
  <2>2. ASSUME NEW u \in Tests, step'[u] \in {"cleaning", "done"}, seen[u].stdout = "blank"
        PROVE  Explained(u)'
    BY <1>b, <2>1, <2>2 DEF RInv, SilenceExplained
  <2>3. ASSUME NEW u \in Tests, verdict'[u] = "pass"
        PROVE  step'[u] = "done" /\ Passed(want[u], seen[u])
    <3>1. CASE u = t
      BY <1>b, <2>3, <3>1 DEF RInv, RunnerTypeOK
    <3>2. CASE u # t
      BY <1>b, <1>c, <2>3, <3>2 DEF RInv, SilenceExplained
    <3>3. QED BY <3>1, <3>2
  <2>4. QED BY <1>0, <2>2, <2>3 DEF SilenceExplained
<1>8. QED BY <1>1, <1>2, <1>3, <1>4, <1>5, <1>6, <1>7 DEF RInv

(* A new round: whatever still runs or lies around is of a killed one.       *)
LEMMA RestartInv ==
    ASSUME RInv, Restart
    PROVE  RInv'
<1> USE DEF Restart
<1>0. /\ round' = round + 1 /\ round \in Nat /\ round' \in Rounds /\ round \in Rounds
      /\ started' = started /\ killed \in BOOLEAN
      /\ step' = [t \in Tests |-> "start"] /\ seen' = [t \in Tests |-> Nothing]
      /\ ran' = [t \in Tests |-> NotBuilt] /\ verdict' = [t \in Tests |-> "none"]
  BY RunnerAssumption DEF RInv, RunnerTypeOK, Rounds
<1>1. RunnerTypeOK'
  <2>1. NotBuilt \in Executables /\ "start" \in Steps
    BY DEF NotBuilt, Executables, None, Steps
  <2>2. Nothing \in [stdout : {"blank", "expected", "other"},
                     stderr : Stderrs \cup {"blank"}, compiled : BOOLEAN]
    BY DEF Nothing
  <2>3. killed' \in BOOLEAN
    BY <1>0
  <2>4. QED BY <1>0, <2>1, <2>2, <2>3, ProcessesApart DEF RInv, RunnerTypeOK
<1>2. CommandsKnown' /\ EndedStops' /\ OwnFile' /\ ErrorsKnown'
  BY ProcessesApart
<1>3. StartedInTurn'
  <2>1. ASSUME NEW t \in Tests, NEW r \in Rounds
        PROVE  /\ Builder[t][r] \in started <=> r <= round
               /\ Checker[t][r] \in started => r <= round
    BY <1>0, <2>1 DEF RInv, StartedInTurn, Rounds
  <2>2. \A r \in Rounds : r <= round <=> r < round'
    BY <1>0 DEF Rounds
  <2>3. \A t \in Tests : step'[t] = "start"
    BY <1>0
  <2>4. ASSUME NEW p \in started'
        PROVE  \E t \in Tests, r \in Rounds :
                  r <= round' /\ p \in {Builder[t][r], Checker[t][r]}
    <3>1. PICK t \in Tests, r \in Rounds : r <= round /\ p \in {Builder[t][r], Checker[t][r]}
      BY <1>0, <2>4 DEF RInv, StartedInTurn
    <3>2. r <= round'
      BY <1>0, <3>1 DEF Rounds
    <3>3. QED BY <3>1, <3>2
  <2>5. \A p \in Procs : p \notin started => pc'[p] = "cli" /\ ended'[p] = "no"
    BY DEF RInv, StartedInTurn, vars
  <2>6. \A r \in Rounds : r < round' => r <= round'
    BY <1>0 DEF Rounds
  <2>7. QED BY <1>0, <2>1, <2>2, <2>3, <2>4, <2>5, <2>6 DEF StartedInTurn
<1>4. EndsKnown'
  BY <1>0 DEF RInv, EndsKnown, vars, Lsp
<1>5. ExecutablesOwn'
  <2>1. ASSUME NEW t \in Tests  PROVE Own(t, output[Executable[t]])'
    <3>1. \A r \in 1 .. round : r \in 1 .. round'
      BY <1>0
    <3>2. Own(t, output[Executable[t]])
      BY DEF RInv, ExecutablesOwn
    <3>3. QED BY <1>0, <3>1, <3>2 DEF Own, Linked, vars
  <2>2. \A t \in Tests : Own(t, ran[t])'
    BY <1>0 DEF Own
  <2>3. QED BY <2>1, <2>2 DEF ExecutablesOwn
<1>6. RoundsApart'
  <2>1. ASSUME ~killed', NEW t \in Tests
        PROVE  /\ \A r \in Rounds : r < round' => Ended(Builder[t][r])'
               /\ output'[Executable[t]] = NotBuilt
    <3>1. ~killed /\ step[t] = "done"
      BY <2>1
    <3>2. output'[Executable[t]] = NotBuilt
      BY <3>1 DEF RInv, RoundsApart, vars
    <3>3. Ended(Builder[t][round])
      BY <3>1 DEF RInv, StartedInTurn, MyBuilder
    <3>4. \A r \in Rounds : r < round' => r < round \/ r = round
      BY <1>0 DEF Rounds
    <3>5. QED BY <3>1, <3>2, <3>3, <3>4 DEF RInv, RoundsApart, Ended, vars
  <2>2. \A t \in Tests : step'[t] = "start" /\ ran'[t] = NotBuilt
    BY <1>0
  <2>3. QED BY <2>1, <2>2 DEF RoundsApart
<1>7. SilenceExplained'
  BY <1>0 DEF SilenceExplained
<1>8. QED BY <1>1, <1>2, <1>3, <1>4, <1>5, <1>6, <1>7 DEF RInv

(* The command lines that run_test writes are those of the processes.        *)
LEMMA Commands ==
    ASSUME NEW t \in Tests, NEW r \in Rounds
    PROVE  /\ LET o == CommandOf(Builder[t][r])
              IN o.out = Executable[t] /\ o.mode = "plain" /\ ~o.verboseDebug /\ ~o.emitAst
           /\ LET o == CommandOf(Checker[t][r])
              IN o.out = Executable[t] /\ o.mode = "lsp" /\ ~o.verboseDebug /\ ~o.emitAst
<1>0. Executable[t] \in Outputs
  BY RunnerAssumption
<1>1. ASSUME NEW p \in {Builder[t][r], Checker[t][r]}
      PROVE  \E u \in Tests, s \in Rounds :
                /\ CommandOf(p).out = Executable[u]
                /\ ~CommandOf(p).verboseDebug /\ ~CommandOf(p).emitAst
                /\ \/ p = Builder[u][s] /\ CommandOf(p).mode = "plain"
                   \/ p = Checker[u][s] /\ CommandOf(p).mode = "lsp"
  <2> DEFINE o == IF p = Builder[t][r]
                  THEN [mode |-> "plain", emitIr |-> FALSE, emitAst |-> FALSE,
                        verboseDebug |-> FALSE, out |-> Executable[t]]
                  ELSE [mode |-> "lsp", emitIr |-> TRUE, emitAst |-> FALSE,
                        verboseDebug |-> FALSE, out |-> Executable[t]]
  <2>1. o \in Options
    BY <1>0 DEF Options
  <2>2. /\ o.out = Executable[t] /\ ~o.verboseDebug /\ ~o.emitAst
        /\ \/ p = Builder[t][r] /\ o.mode = "plain" /\ ~o.emitIr
           \/ p = Checker[t][r] /\ o.mode = "lsp" /\ o.emitIr
    BY <1>1
  <2> HIDE DEF o
  <2>3. QED BY <2>1, <2>2 DEF CommandOf
<1>2. QED BY <1>1, RunnerAssumption

(* In the first round nothing has been started and nothing is there.         *)
LEMMA RunnerInitInv == RunnerInit => RInv
<1> SUFFICES ASSUME RunnerInit  PROVE RInv
  OBVIOUS
<1> USE DEF RunnerInit
<1>0. Inv /\ round = 1 /\ 1 \in Rounds
  BY InitInv, RunnerAssumption DEF Rounds
<1>1. RunnerTypeOK
  <2>1. NotBuilt \in Executables /\ "start" \in Steps
    BY DEF NotBuilt, Executables, None, Steps
  <2>2. Nothing \in [stdout : {"blank", "expected", "other"},
                     stderr : Stderrs \cup {"blank"}, compiled : BOOLEAN]
    BY DEF Nothing
  <2>3. QED BY <1>0, <2>1, <2>2 DEF Inv, RunnerTypeOK
<1>2. CommandsKnown
  BY Commands, RunnerAssumption DEF CommandsKnown
<1>3. EndedStops /\ OwnFile /\ ErrorsKnown
  BY <1>0 DEF Inv
<1>4. StartedInTurn
  <2>1. \A r \in Rounds : ~(r < 1)
    BY DEF Rounds
  <2>2. QED BY <1>0, <2>1 DEF StartedInTurn, Init
<1>5. EndsKnown
  BY DEF EndsKnown, Init
<1>6. ExecutablesOwn
  BY RunnerAssumption DEF ExecutablesOwn, Own, Init
<1>7. RoundsApart
  <2>1. \A r \in Rounds : ~(r < 1)
    BY DEF Rounds
  <2>2. QED BY <1>0, <2>1, RunnerAssumption DEF RoundsApart, Init
<1>8. SilenceExplained
  BY DEF SilenceExplained
<1>9. QED BY <1>1, <1>2, <1>3, <1>4, <1>5, <1>6, <1>7, <1>8 DEF RInv

(* Every step of helix processes, of threads and of whoever starts the        *)
(* runner again keeps it.                                                   *)
LEMMA RunnerNextInv == RInv /\ [RunnerNext]_allVars => RInv'
<1> SUFFICES ASSUME RInv, [RunnerNext]_allVars  PROVE RInv'
  OBVIOUS
<1>1. ASSUME NEW p \in Procs, HelixStep(p)  PROVE RInv'
  BY <1>1, HelixStepInv
<1>2. ASSUME NEW t \in Tests, Thread(t)  PROVE RInv'
  BY <1>2, CompileInv, CompileFailedInv, AskAgainInv, AnsweredInv, CompiledInv, ExecuteInv,
     CleanUpInv DEF Thread
<1>3. CASE Restart
  BY <1>3, RestartInv
<1>4. CASE UNCHANGED allVars
  <2>1. UNCHANGED vars /\ UNCHANGED runner
    BY <1>4 DEF allVars
  <2> USE <2>1 DEF runner
  <2>2. RunnerTypeOK'
    BY ProcessesApart DEF RInv, RunnerTypeOK
  <2>3. CommandsKnown' /\ EndedStops' /\ OwnFile' /\ ErrorsKnown'
    BY ProcessesApart
  <2>4. StartedInTurn' /\ EndsKnown'
    BY DEF RInv, StartedInTurn, EndsKnown, vars, Lsp, Ended, MyBuilder, MyChecker
  <2>5. ExecutablesOwn'
    BY DEF RInv, ExecutablesOwn, Own, Linked, vars
  <2>6. RoundsApart' /\ SilenceExplained'
    BY DEF RInv, RoundsApart, SilenceExplained, Explained, Exists, Ended, MyBuilder, MyChecker, vars
  <2>7. QED BY <2>2, <2>3, <2>4, <2>5, <2>6 DEF RInv
<1>5. QED BY <1>1, <1>2, <1>3, <1>4 DEF RunnerNext, AllDone

-----------------------------------------------------------------------------

(* RInv holds in every round of every runner.                               *)
THEOREM RunnerInvariance == RunnerSpec => []RInv
BY RunnerInitInv, RunnerNextInv, PTL DEF RunnerSpec

(* run_test runs what lies at the path of its test: whatever the processes    *)
(* and threads do, that was built by a helix process of this test, from its   *)
(* own text, and, unless a runner was killed, by the one that this round      *)
(* started.  That one returned from main, and it said success without an      *)
(* error but for a line of the C++ compiler that it took for one.            *)
THEOREM RunnerRunsItsOwn == RunnerSpec => []RunsItsOwn
<1>1. ASSUME RInv  PROVE RunsItsOwn
  <2>1. ASSUME NEW t \in Tests, ran[t] # NotBuilt
        PROVE  /\ ran[t].by \in {Builder[t][r] : r \in 1 .. round} /\ ran[t].text = ran[t].by
               /\ ~killed =>
                     LET b == MyBuilder(t)
                     IN /\ ran[t].by = b /\ ended[b] = "return"
                        /\ (said[b] = "success" /\ ~errored[b]) \/ cxx[b] = "confusing"
    <3>1. Own(t, ran[t])
      BY <1>1 DEF RInv, ExecutablesOwn
    <3>2. ran[t].by \in {Builder[t][r] : r \in 1 .. round} /\ ran[t].text = ran[t].by
      BY <2>1, <3>1 DEF Own
    <3>3. Ended(MyBuilder(t))
      BY <1>1, <2>1 DEF RInv, RoundsApart, StartedInTurn
    <3>4. ~killed => ran[t].by = MyBuilder(t)
      BY <1>1, <2>1 DEF RInv, RoundsApart
    <3>5. ended[MyBuilder(t)] = "return"
      BY <1>1, <2>1 DEF RInv, RoundsApart
    <3>6. QED BY <2>1, <3>1, <3>2, <3>3, <3>4, <3>5 DEF Own, Linked, Ended
  <2>2. QED BY <2>1 DEF RunsItsOwn
<1>2. QED BY <1>1, RunnerInvariance, PTL

(* An error test looks at stdout first: it passes when helix stopped without  *)
(* a word, when nothing was wrong the second time, or when a program was run. *)
THEOREM RunnerErrorTests == RunnerSpec => []ErrorTestsExplained
<1>1. ASSUME RInv  PROVE ErrorTestsExplained
  <2>1. ASSUME NEW t \in Tests, verdict[t] = "pass", want[t] \in ErrorTests
        PROVE  Explained(t) /\ seen[t].stdout = "blank"
    <3>1. step[t] = "done" /\ seen[t].stdout = "blank"
      BY <1>1, <2>1 DEF RInv, SilenceExplained, Passed, ErrorPassed
    <3>2. QED BY <1>1, <3>1 DEF RInv, SilenceExplained
  <2>2. QED BY <2>1 DEF ErrorTestsExplained, Explained
<1>2. QED BY <1>1, RunnerInvariance, PTL
=============================================================================
