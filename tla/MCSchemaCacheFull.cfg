CONSTANTS
  Threads = {t1, t2}
  Keys = {manifest, tlg}
  NamedKeys = {tlg}
  Names = {empty, login}
  EmptyName = empty
  MaxCached = 1
  MaxCalls = 2
SPECIFICATION Spec
PROPERTIES
  FullCacheStopsGrowing
