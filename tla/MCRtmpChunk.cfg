SPECIFICATION Spec
CONSTANTS
  Chunk = 8
  Capacity = 8
  HeaderLength <- Lengths
  TagHeader = 2
  Base = 3
  FirstLength = 2
  StartLength = 8
  Sizes <- ChunkSizes
  Deltas = {0, 14}
  MaxMessages = 3
INVARIANTS TagsAreMessages TagHeaders ReadHasRoom DeliveredByNextRead
CHECK_DEADLOCK FALSE
