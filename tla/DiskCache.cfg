CONSTANTS
  Urls = {u1, u2}
  Paths = {p1, p2}
  NoPath = NoPath
  MaxFetches = 3
SPECIFICATION FairCacheSpec
INVARIANTS
  CacheTypeOK
  TakesScheduled
  EntriesHaveFiles
  NoOrphans
PROPERTIES
  FetchesAreAnswered
  FinalizeEnds
