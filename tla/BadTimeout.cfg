SPECIFICATION Spec
CONSTANTS
  Unset = Unset
  Bad = Bad
  Files <- TimeoutFiles
  cmdline = {}
  MinTimeout = 3
  NsPerMs = 10
  Second = 10
  DefTimeout = 117
  DefGTimeout = 300
  IntSize = 43
  MaxKeyid = 2
  MaxServers = 1
  Names <- HashNames
  UHASH_SIZE = 2
  uhash <- Hash
INVARIANTS TimeoutAsWritten
