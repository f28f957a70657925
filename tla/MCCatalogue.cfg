\* Two clients with any of the lists, cut in many places; room for three in a vector,
\* which two of the lists outgrow.
SPECIFICATION Spec
CONSTANTS
  alice = alice
  bob = bob
  carol = carol
  Server = "directory"
  Clients = {alice, bob}
  ShareLists <- Lists
  Limits = {6, 7, 8, 9, 10, 11, 12, 13, 14, 15, 16, 17, 18, 21, 24, 28, 33, 99}
  Hashes = {"h1", "h2", "h3"}
  Words = {"x", "y", "h1", "h2", "h3", "1", "2", "3"}
  Numbers = {"1", "2", "3"}
  Initial = 3
  MaxLines = 3
SYMMETRY Symmetry
INVARIANTS TypeOK ListedIsShared Findable CrashNeedsLength
PROPERTY FetchIsPrefix
\* The processes may have crashed.
CHECK_DEADLOCK FALSE
