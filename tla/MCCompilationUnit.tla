-------------------------- MODULE MCCompilationUnit --------------------------
(* CompilationUnit on six files: the one on the command line, core, two       *)
(* modules of which b is imported trivially, a header, and a file that the   *)
(* resolver returned although it is not there.                              *)
EXTENDS UnitAssembly

CONSTANTS main, core, a, b, h, gone, na, nb, nab, nh, ngone, nx, nr

MCFiles == {main, core, a, b, h, gone}
MCNames == {na, nb, nab, nh, ngone, nx, nr}
MCResolve ==
    [n \in MCNames |->
        CASE n \in {na, nr} -> <<a>> [] n = nb -> <<b>> [] n = nab -> <<a, b>>
          [] n = nh -> <<h>> [] n = ngone -> <<gone>> [] n = nx -> <<>>]
MCReported == {nx, nr}
MCOnDisk   == MCFiles \ {gone}
MCHeaders  == {h}
MCTrivial  == {b}

Stmt(k)     == <<Plain(k), Plain("semi")>>
Imp(fm, n)  == <<Import(fm, n), Plain("semi")>>
Open1(n)    == <<Import("plain", n)>>

UpToOne(stmts)         == {<<>>} \cup stmts
UpToTwo(firsts, nexts) == UpToOne(firsts) \cup {s \o t : s \in firsts, t \in nexts}

Text(m, c, x, y, z) ==
    [f \in MCFiles |-> CASE f = main -> m [] f = core -> c [] f = a -> x
                        [] f = b -> y [] f = h -> z [] f = gone -> <<>>]

ProgramsOf(ms, cs, xs, ys, zs) ==
    {Text(m, c, x, y, z) : m \in ms, c \in cs, x \in xs, y \in ys, z \in zs}

(* Every kind of statement somewhere, and two of them in Main.              *)
AllPrograms ==
    ProgramsOf(
        UpToTwo({Stmt("code"), Stmt("badgen"), Imp("plain", na), Imp("wildcard", nb),
                 Imp("wildcard", nab), Imp("plain", nh), Imp("plain", nx),
                 Imp("plain", nr), Imp("plain", ngone), Imp("wildcard", ngone),
                 Imp("file", na), Imp("badpath", na), Imp("foreign", na), Open1(na)},
                {Stmt("code"), Imp("plain", na), Imp("wildcard", nab), Imp("plain", nh)}),
        {Stmt("code"), Stmt("bad"), Imp("plain", nb)},
        UpToOne({Stmt("bad"), Stmt("badlex"), Imp("plain", nb), Imp("malformed", na)}),
        UpToOne({Stmt("code"), Stmt("badgen"), Imp("wildcard", na)}),
        {Stmt("code"), Imp("plain", nb)})

(* Imports that find files, with errors elsewhere, with and without cycles. *)
ResolvedPrograms ==
    ProgramsOf(
        UpToTwo({Stmt("code"), Imp("plain", na), Imp("wildcard", nab)},
                {Stmt("code"), Imp("plain", na), Imp("plain", nh)}),
        {Stmt("code")},
        UpToOne({Stmt("bad"), Imp("plain", nb)}),
        UpToOne({Stmt("code"), Stmt("badlex"), Imp("plain", na)}),
        {Stmt("code")})

(* All that is unusual is in Main.                                          *)
MainPrograms ==
    ProgramsOf(
        UpToTwo({Stmt("code"), Stmt("bad"), Imp("plain", nb), Imp("plain", nh),
                 Imp("plain", nx), Imp("file", na), Open1(na)},
                {Stmt("code"), Imp("plain", nh)}),
        {Stmt("code")}, {Stmt("code")}, {Stmt("code")}, {Stmt("code")})

=============================================================================
