SPECIFICATION Spec
CONSTANTS
  MaxTokens = 3
  MaxDepth = 3
  ReadDefinition <- parse_definition
  Sizes = {1, 3, 8, 13, 17}
  Word = 4
  ChunkBytes = 16
  FirstCap = 2
  MaxBlocks = 4
  MaxItems = 5
  LineStarts <- MCLineStarts
  Rewrites <- MCRewrites
  Positions = {0, 1, 2, 3, 4, 5, 7, 9, 10, 11, 12}
INVARIANTS
  LexingFollowsTheGrammar
  AcceptsTheGrammar
  NothingIsLostUnnoticed
  PipelinesAgree
  MemoryIsAccounted
CHECK_DEADLOCK FALSE
