SPECIFICATION FairSpec
CONSTANTS
  NumConnections = 2
  Sizes <- SizesGbytes
  Synced = {}
  Backlog = 2
PROPERTIES TransfersComplete
