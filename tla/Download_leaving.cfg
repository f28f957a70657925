\* Peers that have the file; some cannot be reached, send a chunk in parts, or
\* leave at any moment, and poll() may fail.
SPECIFICATION FairSpec
CONSTANTS
  NPeers = 3
  NChunks = 3
  Faults = {"unreachable", "stall", "short", "close", "reset", "interrupt"}
INVARIANTS OwedAtEnd MissingBounded
PROPERTY Returns
CHECK_DEADLOCK FALSE
