SPECIFICATION Spec
CONSTANTS
  ShardCount = 2
  Hash <- SomeHash
  Requests <- SomeRequests
  Erasures <- SomeErasures
  IndexedFields = {"title", "body"}
  StoredFields = {"date"}
  IdWidth = 2
  MaxInternalId = 3
  DefaultFields <- SomeDefaults
  FieldBoost <- SomeBoosts
  Alphabet <- SomeAlphabet
  MaxNodes = 10
  MaxTokens = 8
  MaxPhraseTokens = 3
  MaxDepth = 3
  Queries <- SomeQueries
  Capacities = {0, 1, 2}
  Weight <- SomeWeight
INVARIANTS
  IndexExact
  ShardsPartition
  ClusterAnswersAsOracle
  AnswersMeanQuery
  AnswersRanked
  ExplanationsAddUp
  PlansCanonical
