\* Every fault.  A silent or failed peer may leave nothing to do.
SPECIFICATION Spec
CONSTANTS
  NPeers = 2
  NChunks = 3
  Faults = {"unreachable", "badfile", "silent", "badchunk", "stall", "short",
            "close", "reset", "diskfull", "interrupt"}
INVARIANTS TypeOK OneRequestInFlight ChunkHeldOnce RemainingCounts PollSlotsFit CrashNeedsLostPeer
PROPERTIES StopSticks ImplementsTransfer
CHECK_DEADLOCK FALSE
