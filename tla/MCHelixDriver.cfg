\* Two processes at once, the same executable.
CONSTANTS
    p1 = p1
    p2 = p2
    o1 = o1
    Procs <- MCProcs
    Outputs <- MCOutputs
SYMMETRY MCSymmetry
SPECIFICATION Spec
INVARIANTS
    OwnText
    LeftoversMeanExit
    EditorSeesErrors
    SuccessMeansBuilt
