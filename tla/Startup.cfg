SPECIFICATION Spec
CONSTANTS
  Unset = Unset
  Bad = Bad
  Files <- SomeFiles
  cmdline = {"plugin_rp"}
  MinTimeout = 3
  NsPerMs = 10
  Second = 10
  DefTimeout = 117
  DefGTimeout = 300
  IntSize = 43
  MaxKeyid = 2
  MaxServers = 3
  Names <- HashNames
  UHASH_SIZE = 2
  uhash <- Hash
INVARIANTS ServersWatched ServersFound
