CONSTANTS
  A = A
  B = B
  Names = {A, B}
  Nothing = Nothing
  Schemas <- RepeatedNames
  Cells = {0}
  MaxBuffer = 3
  MaxUsize = 3
SPECIFICATION Spec
INVARIANTS
  FirstNameWins
