SPECIFICATION Spec
CONSTANTS
  Pages = {p1, p2}
  MaxTokens = 3
  MaxEnrolled = 1
INVARIANTS SpentOnceUnlessRacing StoredTokenNotSpent HoldersAreActive
SYMMETRY Symmetry
