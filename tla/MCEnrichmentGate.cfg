CONSTANTS
  Keys = {k1, k2, k3, k4}
  Jobs = {j1}
  NoJob = NoJob
  EnrichmentMax = 2
  QueueMax = 3
  LagSamples = {0, 1, 2, 3}
SPECIFICATION FairGateSpec
INVARIANTS GateTypeOK SlotAccounting WaitSetMirrorsQueue NothingStranded BacklogBounded
PROPERTIES SheddingStartsNothing LatestWins BacklogDrains
