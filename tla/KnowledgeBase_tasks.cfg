SPECIFICATION FairSpec
CONSTANTS
  t1 = t1
  t2 = t2
  large = large
  empty = empty
  query = query
  fact = fact
  None = None
  Task = {t1, t2}
  Doc = {large, empty}
  Query = {query}
  Fact = {fact}
  DocsOf <- MCDocsOf
  QueryOf <- MCQueryOf
  File <- MCFile
  SmallTokens = 1
  MediumTokens = 2
  SmallBytes = 2
  MediumBytes = 3
  Items <- MCItems
  FactOf <- MCFactOf
  Relevance <- MCRelevance
  Ask <- MCAsk
  MinChars = 2
  ChunkSize = 4
  ParentSize = 4
  TopK = 5
  Window = 4
  TextLimit = 5
  Rounds <- MCRounds
  MaxTroubles = 1
INVARIANTS
  TypeOK
  SourceOfTruth
  
PROPERTIES
  IngestedOnceRecorded
  
