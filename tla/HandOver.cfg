SPECIFICATION HandOverSpec
CONSTANTS
  NumConnections = 3
  Sizes <- MCSizes
  Synced = {}
  Backlog = 2
  Counts <- MCCounts
INVARIANTS ChunksCover PortsApart VectorIntact FieldsArrive OneDirection
PROPERTIES CompletesUnlessReset ImplementsTransfer
