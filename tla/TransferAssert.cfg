SPECIFICATION Spec
CONSTANTS
  NumConnections = 3
  Sizes <- SizesFull
  Synced = {}
  Backlog = 2
INVARIANT AssertedCut
