\* Texts of the string alphabet only.
CONSTANTS
    MaxComment = 0
    MaxString = 4
    MaxNumber = 0
    MaxOperator = 0
    MaxMixed = 0
    Sources <- MCSources
    ValidOps <- MCValidOps
    SizeMax = 16
SPECIFICATION Spec
INVARIANT StringsEndAtTheirQuote
