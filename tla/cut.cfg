SPECIFICATION Spec
CONSTANTS
  None = None
  SizeBase = 4
  UintBase = 16
  Wide = 4
  RelRange = 3
  Formats <- MCFormats
  BlockKinds <- MCBlocks
  MaxClusters = 3
  MaxLoose = 2
  MaxTime = 3
INVARIANTS Finalizes SizesFit Readable FramesFaithful FramesExact CuesExact CutsWhatItCan ReadsMatch
