CONSTANTS
  Grammar <- HelixGrammar
  Inputs <- MCInputs
SPECIFICATION FairSpec
INVARIANTS
  TypeOK
  AcceptsOnlyBalanced
  LeavesListOnlyUnbalanced
  RecursionConsumes
  BudgetOnlyForBraces
  ThrowsExplained
  SoundTextsParse
PROPERTY
  ParserEnds
