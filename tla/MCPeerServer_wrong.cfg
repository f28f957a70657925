\* Two downloading clients and nothing else.
SPECIFICATION Spec
CONSTANTS
  alice = alice
  bob = bob
  a = a
  b = b
  Clients = {alice, bob}
  Files = {a, b}
  FileSize <- Sizes
  Wants <- AllWants
  MaxSize = 1
  FdLimit = 4
  Downloading = FALSE
PROPERTY RepliesAnswer
