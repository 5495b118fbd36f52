\* Every kind of expression, statement and declaration, two members to a class.
CONSTANTS
    Programs <- MCPrograms
SPECIFICATION Spec
INVARIANTS
    TypeOK
    BracketsNest
    NullsExplained
    MembersKeepTheirAccess
    ArgumentsDeclared
    NothingIsLost
PROPERTIES
    TakesBackCommas
