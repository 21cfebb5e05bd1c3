SPECIFICATION Spec
CONSTANTS
  one = one
  two = two
  Buffers = {x, y}
  Byte <- MCByte
  Zero = zero
  Data <- MCData
  IDX_BEGIN = 1
  DEFAULT_BUFFER_SIZE = 1
  SizeT = 3
  MaxUnread = 2
INVARIANT TypeOK
PROPERTIES ImplementsByteQueue GrowsToFit
