\* Two clients that share a file.
SPECIFICATION Spec
CONSTANTS
  alice = alice
  bob = bob
  carol = carol
  Server = "directory"
  Clients = {alice, bob}
  ShareLists <- PlainLists
  Limits = {99}
  Hashes = {"h1", "h2", "h3"}
  Words = {"x", "y", "h1", "h2", "h3", "1", "2", "3"}
  Numbers = {"1", "2", "3"}
  Initial = 2
  MaxLines = 4
INVARIANT PeersAreSplit
