\* The events that follow their schema and have a structure.
CONSTANTS
  A = A
  B = B
  C = C
  D = D
  Names = {A, B}
  Nothing = Nothing
  Schemas <- MCSchemas
  Cells <- MCCells
  MaxBuffer = 9
  MaxUsize = 1000
  NotUtf8 = {3}
  MaxQuad = 256204778
  Records <- UnsizedMembers
  Includes <- MCIncludes
SPECIFICATION SerializerSpec
INVARIANTS
  StrictFailsOnNulls
