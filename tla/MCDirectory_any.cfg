\* Two clients that share a file publish, one lists; two faults of any kind.
SPECIFICATION Spec
CONSTANTS
  alice = alice
  bob = bob
  a = a
  b = b
  Clients = {alice, bob}
  Files = {a, b}
  Nobody = Nobody
  NoFile = NoFile
  Shares <- AllShares
  Foreign = {bob}
  MaxForwardings = 2
  Commands <- Publishing
  Faults = {"loss", "late", "dup", "reorder", "crash"}
  MaxFaults = 2
INVARIANTS TypeOK LinesDistinct AckedIsRegistered NeverMisattributed AnswersMatch
PROPERTIES ImplementsRegistry SeesOwnFiles ListsGrow ListIsTheReply
