CONSTANTS
  Names <- MCNames
  Layers <- MCLayers
  MaxLayers = 3
  MaxLinks = 2
  MaxParts = 2
SPECIFICATION Spec
INVARIANTS
  Flattens
  ResolvesLikeKernel
PROPERTY OnlyDirectoriesReachOut
\* The build has ended.
CHECK_DEADLOCK FALSE
