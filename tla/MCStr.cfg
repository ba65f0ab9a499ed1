SPECIFICATION Spec
CONSTANTS
  Nothing = Nothing
  Spaces = {3}
  SizeMax = 255
  Chars <- MCChars
  Upper = {1}
  Lower = {2}
  CaseGap = 1
  Texts <- MCTexts
  Literals <- MCLiterals
  Delims <- MCDelims
  Needles <- MCNeedles
  MaxLen = 3
  MaxCap = 5
INVARIANTS
  SplitExact
  QueriesExact
PROPERTIES
  TerminatorKept
  ImplementsText
