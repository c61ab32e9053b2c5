SPECIFICATION FairSpec
CONSTANTS
  x = x
  y = y
  p = p
  q = q
  a = a
  b = b
  Places = {x, y}
  PathIds = {p, q}
  MaxDepth = 2
  Objects = {a, b}
  Names = {"f"}
  SlotNames = {"$contents", "f", "[f]"}
  Contents = "$contents"
  Bracket <- MCBracket
  None = None
  Programs <- MCPrograms
  Budgets <- MCBudgets
  MaxPairs = 8
  Rank <- MCRank
  Reference <- MCReference
INVARIANT TypeOK
INVARIANT CompleteWithinBudget
INVARIANT NothingInvented
INVARIANT PropagatedOnce
INVARIANT AnswersJustified
PROPERTY Ends
CHECK_DEADLOCK FALSE
