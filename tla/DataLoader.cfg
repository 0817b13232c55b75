CONSTANTS
  k1 = k1
  k2 = k2
  ChunkLength = 1
  LoaderCount = 2
  LoadKeys = {k1, k2}
  MaxBatchSize <- MCMaxBatchSize
  Caching <- MCCaching
  MaxTickets = 2
  MaxMany = 1
  ManyKeys <- MCManyKeys
  MaxNesting = 2
  Failed = Failed
  Primed = Primed
  None = None
SPECIFICATION FairSpec
INVARIANTS
  TypeOK
  NoTicketLostOrRepeated
  TicketHoldsItsOwnKey
  LoadManyCountsDown
PROPERTIES
  StallDrainsEveryLoader
  SettledIsFinal
  EveryLoadSettles
