\* One model, reads of one chunk.
SPECIFICATION Spec
CONSTANTS
  Models = {kokoro}
  None = None
  MaxChunks = 1
  MaxSwitches = 1
  MaxLoads = 1
PROPERTY ChunkIsRetried
