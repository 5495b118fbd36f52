\* Every text of a few characters over the alphabet of each scanner.
CONSTANTS
    MaxComment = 6
    MaxString = 5
    MaxNumber = 5
    MaxOperator = 5
    MaxMixed = 4
    Sources <- MCSources
    ValidOps <- MCValidOps
    SizeMax = 16
SPECIFICATION FairSpec
INVARIANTS
    TypeOK
    InBounds
    Tile
    LinesAreRight
    DelimitersMatch
PROPERTIES
    Terminates
