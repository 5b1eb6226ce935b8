SPECIFICATION ChunkSpec
CONSTANTS
  Transfers = {c1, c2, c3}
  Sizes = {2, 3, 4, 5}
  ClipChunkRaw = 2
  MaxClipImageRaw = 2
  MaxClipTotalRaw = 4
  MaxClipChunks = 2
  MaxSessions = 1
  MaxMishaps = 1
SYMMETRY TransferSymmetry
CHECK_DEADLOCK FALSE
INVARIANTS SentIsWhole HubBounded
