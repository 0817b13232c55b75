---------------------------- MODULE MCDataLoader ----------------------------
(***************************************************************************)
(* Small instances of DataLoader for TLC.                                  *)
(***************************************************************************)
EXTENDS DataLoader, TLC

CONSTANTS
  k1, k2,
  ChunkLength     \* the max_batch_size of the first loader

\* A caching loader with chunks, one with neither.
MCMaxBatchSize == [l \in Loaders |-> IF l = 1 THEN ChunkLength ELSE 0]
MCCaching == [l \in Loaders |-> l = 1]
MCManyKeys == {<<k1, k2>>, <<k1, k1>>}

=============================================================================
