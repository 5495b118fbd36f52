------------------------------ MODULE TestRunner ------------------------------
(***************************************************************************)
(* tests/test_runner.py, a client of helix: a thread for each test starts     *)
(* helix on it, runs the executable that is then there, removes it, and      *)
(* decides whether the test has passed.  A test expects lines of output,     *)
(* some error, or the lines of an error; one without a valid marker expects  *)
(* nothing.                                                                *)
(*                                                                         *)
(* The runner is killed and started again while threads are at work.  Its     *)
(* helix processes live on, and so do the executables.                      *)
(***************************************************************************)
EXTENDS HelixDriver

CONSTANTS
    Tests,       \* the test files of the folder
    MaxRounds,   \* the runner is started at most this often (a bound)
    Builder,     \* the helix processes that a test may start in each round: to
    Checker,     \*   compile, and to ask for errors
    Executable   \* the path at which a test has its executable

Rounds == 1 .. MaxRounds

ASSUME RunnerAssumption ==
    /\ MaxRounds \in Nat \ {0}
    /\ Builder \in [Tests -> [Rounds -> Procs]]
    /\ Checker \in [Tests -> [Rounds -> Procs]]
    /\ Executable \in [Tests -> Outputs]
    /\ \A t, u \in Tests : t # u => Executable[t] # Executable[u]
    /\ \A t, u \in Tests : \A r, s \in Rounds :
          /\ Builder[t][r] # Checker[u][s]
          /\ <<t, r>> # <<u, s>> =>
                Builder[t][r] # Builder[u][s] /\ Checker[t][r] # Checker[u][s]

VARIABLES
    want,      \* what a test expects
    round,     \* how often the runner was started
    killed,    \* it was killed before its tests were done
    started,   \* the helix processes started so far
    step,      \* where the thread of a test is
    seen,      \* what it has to decide on: output, errors, and whether it compiled
    ran,       \* the executable it ran
    verdict    \* pass or fail

runner     == <<want, round, killed, started, step, seen, ran, verdict>>
folder     == <<want, round, killed>>
allVars    == <<vars, runner>>

(* What a thread saw.  stdout is "expected" when its lines are those of the    *)
(* test as far as both have lines, stderr when it has those of the error.     *)
Nothing == [stdout |-> "blank", stderr |-> "blank", compiled |-> FALSE]

MyBuilder(t) == Builder[t][round]
MyChecker(t) == Checker[t][round]
Exists(t)    == output[Executable[t]] # NotBuilt
Ended(p)     == pc[p] = "end"
Stderrs      == {"some", "expected"}

CommandOf(p) ==
    CHOOSE o \in Options :
        \E t \in Tests, r \in Rounds :
            /\ o.out = Executable[t] /\ ~o.verboseDebug /\ ~o.emitAst
            /\ \/ p = Builder[t][r] /\ o.mode = "plain" /\ ~o.emitIr
               \/ p = Checker[t][r] /\ o.mode = "lsp" /\ o.emitIr

Then(t, s) == step' = [step EXCEPT ![t] = s]
Start(p)   == started' = started \cup {p}
Sees(t, out, err, compiled) ==
    seen' = [seen EXCEPT ![t] = [stdout |-> out, stderr |-> err, compiled |-> compiled]]

(* With --error helix logs nothing.  The last line of main goes to stdout,    *)
(* panics and what an abort says to stderr.                                 *)
HelixSaid(t, p) ==
    \E err \in IF recorded[p] \/ code[p] # 0 THEN Stderrs ELSE {"blank"} :
        Sees(t, IF said[p] = "nothing" THEN "blank" ELSE "other", err, FALSE)

(* Whether a test has passed, of what it expects and has seen.               *)
ErrorPassed(w, s) ==
    /\ w = "the errors" => s.stderr = "expected"
    /\ s.stdout = "blank" /\ s.stderr # "blank"
OutputPassed(w, s) == s.compiled /\ (w = "output" => s.stdout = "expected")
ErrorTests     == {"errors", "the errors"}
(* A mistake: an error is an error, whatever else was printed.               *)
PassedLoudly(w, s) ==
    IF w \in ErrorTests THEN ErrorPassed(w, [s EXCEPT !.stdout = "blank"]) ELSE OutputPassed(w, s)

Passed(w, s) ==
    IF w \in ErrorTests THEN ErrorPassed(w, s) ELSE OutputPassed(w, s)

-----------------------------------------------------------------------------

RunnerInit ==
    /\ opts = [p \in Procs |-> CommandOf(p)] /\ Init
    /\ want \in [Tests -> ErrorTests \cup {"output", "nothing"}]
    /\ round = 1 /\ killed = FALSE /\ started = {}
    /\ step = [t \in Tests |-> "start"]
    /\ seen = [t \in Tests |-> Nothing]
    /\ ran = [t \in Tests |-> NotBuilt]
    /\ verdict = [t \in Tests |-> "none"]

(* A helix process at work; its command line is a good one.                  *)
HelixStep(p) ==
    /\ p \in started /\ Step(p)
    /\ pc[p] = "cli" => ~Ended(p)'
    /\ UNCHANGED runner

Compile(t) ==
    /\ step[t] = "start"
    /\ Start(MyBuilder(t)) /\ Then(t, "compiling")
    /\ UNCHANGED <<vars, folder, seen, ran, verdict>>

CompileFailed(t) ==
    /\ step[t] = "compiling" /\ Ended(MyBuilder(t)) /\ code[MyBuilder(t)] # 0
    /\ HelixSaid(t, MyBuilder(t)) /\ Then(t, "cleaning")
    /\ UNCHANGED <<vars, folder, started, ran, verdict>>

(* helix says that all is well and there is no executable: it is asked again *)
(* as a language server would, and what it says is not looked at.            *)
AskAgain(t) ==
    /\ step[t] = "compiling" /\ Ended(MyBuilder(t)) /\ code[MyBuilder(t)] = 0
    /\ ~Exists(t)
    /\ Start(MyChecker(t)) /\ Then(t, "asking")
    /\ UNCHANGED <<vars, folder, seen, ran, verdict>>

Answered(t) ==
    /\ step[t] = "asking" /\ Ended(MyChecker(t))
    /\ IF code[MyChecker(t)] # 0 THEN HelixSaid(t, MyBuilder(t))
       ELSE Sees(t, "blank", "some", FALSE)                 \* "No output file found"
    /\ Then(t, "cleaning")
    /\ UNCHANGED <<vars, folder, started, ran, verdict>>

Compiled(t) ==
    /\ step[t] = "compiling" /\ Ended(MyBuilder(t)) /\ code[MyBuilder(t)] = 0
    /\ Exists(t)
    /\ Then(t, "running")
    /\ UNCHANGED <<vars, folder, started, seen, ran, verdict>>

(* Its exit code is not looked at.                                          *)
Execute(t) ==
    /\ step[t] = "running"
    /\ ran' = [ran EXCEPT ![t] = output[Executable[t]]]
    /\ \E out \in {"blank", "expected", "other"}, err \in Stderrs \cup {"blank"} :
          Sees(t, out, err, TRUE)
    /\ Then(t, "cleaning")
    /\ UNCHANGED <<vars, folder, started, verdict>>

(* A mistake: what failed is left for inspection.                            *)
CleanUpPassed(t) ==
    /\ step[t] = "cleaning"
    /\ output' = IF Passed(want[t], seen[t]) THEN [output EXCEPT ![Executable[t]] = NotBuilt]
                 ELSE output
    /\ verdict' = [verdict EXCEPT ![t] = IF Passed(want[t], seen[t]) THEN "pass" ELSE "fail"]
    /\ Then(t, "done")
    /\ UNCHANGED <<opts, pc, outcome, result, errors, lspMode, cxx, temp>>
    /\ UNCHANGED <<folder, started, seen, ran>>

(* finally: the executable is removed, and the test is judged.               *)
CleanUp(t) ==
    /\ step[t] = "cleaning"
    /\ output' = [output EXCEPT ![Executable[t]] = NotBuilt]
    /\ verdict' = [verdict EXCEPT ![t] = IF Passed(want[t], seen[t]) THEN "pass" ELSE "fail"]
    /\ Then(t, "done")
    /\ UNCHANGED <<opts, pc, outcome, result, errors, lspMode, cxx, temp>>
    /\ UNCHANGED <<folder, started, seen, ran>>

(* The runner is started again, after its end or after it was killed; the    *)
(* tests may have been edited.                                              *)
Restart ==
    /\ round < MaxRounds
    /\ \A t \in Tests : step[t] # "start"
    /\ round' = round + 1
    /\ killed' = (killed \/ \E t \in Tests : step[t] # "done")
    /\ want' \in [Tests -> ErrorTests \cup {"output", "nothing"}]
    /\ step' = [t \in Tests |-> "start"]
    /\ seen' = [t \in Tests |-> Nothing]
    /\ ran' = [t \in Tests |-> NotBuilt]
    /\ verdict' = [t \in Tests |-> "none"]
    /\ UNCHANGED <<vars, started>>

AllDone ==
    /\ round = MaxRounds /\ \A t \in Tests : step[t] = "done"
    /\ \A p \in started : Ended(p)
    /\ UNCHANGED allVars

Thread(t) ==
    \/ Compile(t) \/ CompileFailed(t) \/ AskAgain(t) \/ Answered(t)
    \/ Compiled(t) \/ Execute(t) \/ CleanUp(t)

RunnerNext ==
    \/ \E p \in Procs : HelixStep(p)
    \/ \E t \in Tests : Thread(t)
    \/ Restart \/ AllDone

RunnerSpec == RunnerInit /\ [][RunnerNext]_allVars

-----------------------------------------------------------------------------

(* A test that ran a program ran what its own helix had compiled, from its    *)
(* own text, without an error: although the runner takes whatever lies at the *)
(* path for it, helix returns 0 after most errors, and rounds follow each    *)
(* other.  The one error there may be is a line of the C++ compiler that      *)
(* helix took for one; an executable that helix left when it stopped at such  *)
(* a line is not run.  Once a runner was killed, an executable, or a process  *)
(* that is about to write one, is left for the next round; even then the      *)
(* program is one of this test, from one text.                              *)
RunsItsOwn ==
    \A t \in Tests :
        ran[t] # NotBuilt =>
            /\ ran[t].by \in {Builder[t][r] : r \in 1 .. round} /\ ran[t].text = ran[t].by
            /\ ~killed =>
                  LET b == MyBuilder(t)
                  IN /\ ran[t].by = b /\ ended[b] = "return"
                     /\ (said[b] = "success" /\ ~errored[b]) \/ cxx[b] = "confusing"

(* An error test does not pass because helix reported errors and said that    *)
(* it gives up, for that goes to stdout.  It passes when helix stopped         *)
(* before it said anything, when there is no executable although nothing was  *)
(* wrong the second time (as without a C++ compiler), or when the program     *)
(* was run and wrote to stderr only.                                        *)
ErrorTestsExplained ==
    \A t \in Tests :
        LET b == MyBuilder(t)
            c == MyChecker(t)
        IN verdict[t] = "pass" /\ want[t] \in ErrorTests =>
              \/ ended[b] \in {"exit", "abort"}
              \/ c \in started /\ ended[c] = "return" /\ code[c] = 0
              \/ ran[t] # NotBuilt /\ seen[t].stdout = "blank"

=============================================================================
