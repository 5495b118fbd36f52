\* What a comment says of imports, against the code.
CONSTANTS
    main = main
    core = core
    a = a
    b = b
    h = h
    gone = gone
    na = na
    nb = nb
    nab = nab
    nh = nh
    ngone = ngone
    nx = nx
    nr = nr
    Files <- MCFiles
    Main = main
    Core = core
    Headers <- MCHeaders
    Trivial <- MCTrivial
    OnDisk <- MCOnDisk
    Names <- MCNames
    Resolve <- MCResolve
    Reported <- MCReported
    Programs <- MainPrograms
    MaxDepth = 4
SPECIFICATION Spec
INVARIANT
    HeadersCompile
