SPECIFICATION MCSpec
CONSTANTS
  Nodes = {n1, n2, n3, n4, n5}
  Lists = {l, o}
  NULL = NULL
  Limit <- MCLimit
  MaxPrealloc = 4
  Texts <- MCTexts
  Sets <- MCSets
  MaxLen = 4
  Radix = 3
  LLONG_MAX <- MCMax
  StaticBuf = 4
  Slots = 2
  Values <- MCValues
  Formats <- MCFormats
  Samples <- MCSamples
  EmbstrLimit = 2
  Directories <- MCDirectories
  Files <- MCFiles
  Separators <- MCSeparators
INVARIANT
  EmptySplitsToNull
