\* A file of three bytes is read in chunks of two, and a disk with room for
\* three cuts a write of two bytes short.  One request that was abandoned is
\* in libuv beside the one that is waited for.
CONSTANTS
  Values = {"a", "b"}
  Nil = "nil"
  Below = 3
  Above = 4
  Pieces <- LongPieces
  Seps = {"n", "rn", "r*n"}
  MaxN = 3
  MaxBytes = 5
  None = None
  BUFFER_SIZE = 2
  Byte = {"a", "r", "n", "0"}
  Texts <- OneText
  Strings <- OneString
  Lengths = {1, 3}
  FileEols = {"n", "rn"}
  Cuts = {1}
  Offsets <- BackOne
  Full = 3
  MaxReqs = 2
  Nothing = Nothing
SPECIFICATION LibsSpec
INVARIANTS SizeIsRight OneAnswer NoDescriptorLost
PROPERTIES ImplementsFullDeque ImplementsStream LinesLoseNothing
           TransfersAreExact NothingIsSkipped CallReturns
CHECK_DEADLOCK FALSE
