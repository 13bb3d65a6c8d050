CONSTANTS
  HashPair <- Pair
  NoHash <- ZeroHash
  Versions = {0, 5, 22, 30, 48, 50}
  MaxTokens = 2
  IdBits = 3
  MaxChains = 3
  NonceTries = 8
  MaxHeight = 3
  Heights = {1, 16, 17, 127, 128, 255, 256, 32767, 32768, 2900000, 8388607}
  TagSizes = {0, 7, 41, 75, 76, 86}
  TxCounts = {0, 1, 2, 3, 4, 5, 6, 7, 8, 9, 251, 252, 253}
  Bits = {545259519, 504365055, 486604799, 453248203}
  Units = {0, 65536, 98304, 262144}
  MaxShift = 3
SPECIFICATION BuildSpec
INVARIANTS
  RewardsAreMeant
  BlocksReadBack
  ProofsAreAccepted
  SolutionsAreSubmitted
CHECK_DEADLOCK FALSE
