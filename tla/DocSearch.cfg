SPECIFICATION SearchSpec
CONSTANTS
  Tokens <- SomeTokens
  LowerOf <- SomeLower
  Names <- SomeNames
  Collation <- SomeCollation
  Index <- SomeIndex
  Words <- SomeWords
  MaxWords = 3
  MaxResults = 4
INVARIANTS
  MostMatchesAreShown
  NamedIsFound
  CaseIsIgnored
  ComparedEitherWay
PROPERTY FoundGrows
CHECK_DEADLOCK FALSE
