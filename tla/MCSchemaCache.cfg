\* Two schemas fit, of three kinds: the cache fills up, and races go on when it has.
CONSTANTS
  Threads = {t1, t2}
  Keys = {manifest, tlg}
  NamedKeys = {tlg}
  Names = {empty, login}
  EmptyName = empty
  MaxCached = 2
  MaxCalls = 4
SPECIFICATION Spec
INVARIANTS
  TypeOK
  AnswersFit
  AnswersShare
  LenIsSum
PROPERTIES
  CachedForGood
