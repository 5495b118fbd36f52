---------------------------- MODULE MCTestRunner ----------------------------
(* TestRunner with one test and two rounds: tests share nothing, rounds do.  *)
EXTENDS TestRunner, TLC

CONSTANTS t1, o1, build1, check1, build2, check2

MCTests      == {t1}
MCOutputs    == {o1}
MCProcs      == {build1, check1, build2, check2}
MCBuilder    == t1 :> <<build1, build2>>
MCChecker    == t1 :> <<check1, check2>>
MCExecutable == t1 :> o1

=============================================================================
