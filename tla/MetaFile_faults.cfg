SPECIFICATION Spec
CONSTANTS
  Damaged = Damaged
  Bytes = {"x", "y"}
  MaxSeq = 4
INVARIANT TypeOK
PROPERTY NeverRollsBack
INVARIANT MetaSurvives
