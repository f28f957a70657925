\* Two good peers: the download ends before the last chunk comes.
SPECIFICATION Spec
CONSTANTS
  NPeers = 2
  NChunks = 2
  Faults = {}
INVARIANT CompleteWhenDownloaded
