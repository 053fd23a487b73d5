SPECIFICATION QueryPartsSpec
CONSTANTS
  Keyword <- SomeKeywords
  Boosts = {"2"}
  MaxQueryBytes = 5
  MaxLexemes = 3
  MaxLexemeBytes = 2
  MaxNesting = 2
  PayloadBits = 2
  IntegerBits = 5
  MaxPositions = 3
  Elements <- SomeElements
  Bounds <- SomeBounds
  Generations = {1, 2}
  Plans = {"short", "long"}
  Results = {"none", "few", "many", "huge"}
  EntryBytes = 2
  PlanBytes <- SomePlanBytes
  ResultBytes <- SomeResultBytes
  MaximumBytes = 7
  MaxCount = 3
INVARIANTS
  LexerFaithful
  ParserFaithful
  CodecFaithful
  CacheFaithful
CHECK_DEADLOCK FALSE
