\* Buffers of up to four cells: room for the three properties, and too short or too
\* long for many.  Requests are not bounded.
CONSTANTS
  A = A
  B = B
  Names = {A, B}
  Nothing = Nothing
  Schemas <- MCSchemas
  Cells = {0, 1, 2}
  MaxBuffer = 4
  MaxUsize = 4
SPECIFICATION Spec
INVARIANTS
  TypeOK
  SlicesTile
  SlicesFit
  AnswerMatches
