------------------------------ MODULE UnitAssembly ------------------------------
(* CompilationUnit implements Assembly: a unit under construction is an open file,  *)
(* with the texts of the modules it has imported so far.                            *)
EXTENDS CompilationUnit

Asks   == [f \in Files |-> ImportsOf(f)]
Sloppy == {f \in Files : ~Terminated(f)}
OpenFiles  == [n \in DOMAIN stack |-> [file |-> stack[n].file, text |-> stack[n].imports]]

Goal == INSTANCE Assembly WITH
          asks <- Asks, sloppy <- Sloppy, askedTree <- (emitAst /\ lspFlag),
          open <- OpenFiles, text <- emitted, errored <- hasErrored, answer <- result

\* Whatever the recursion of units does, it does the work of Assembly: no text is
\* lost on the way up, or kept in front of what it needs, unless an error is on
\* record; errors stay on record; and each way to end has its reason.
AssemblesProgram == Goal!Spec
===============================================================================
