\* One test, a runner that is started twice.
CONSTANTS
    t1 = t1
    o1 = o1
    build1 = build1
    check1 = check1
    build2 = build2
    check2 = check2
    Procs <- MCProcs
    Outputs <- MCOutputs
    Tests <- MCTests
    MaxRounds = 2
    Builder <- MCBuilder
    Checker <- MCChecker
    Executable <- MCExecutable
SPECIFICATION RunnerSpec
INVARIANTS
    RunsItsOwn
    ErrorTestsExplained
