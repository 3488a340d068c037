\* MaxUsize only has to be above any size: the overflow of a size is the business of
\* MCPropertyWalk.
CONSTANTS
  A = A
  B = B
  C = C
  D = D
  Names = {A, B}
  Nothing = Nothing
  Schemas <- MCSchemas
  Cells <- MCCells
  MaxBuffer = 9
  MaxUsize = 1000
  NotUtf8 = {3}
  MaxQuad = 256204778
  Records <- MCRecords
  Includes <- MCIncludes
SPECIFICATION FairSerializerSpec
INVARIANTS
  SerializerTypeOK
  SchemaAsDescribed
  LenientKeepsAll
  Faithful
  StrictHasValues
  ExtendedFaithful
PROPERTY SerializingEnds
