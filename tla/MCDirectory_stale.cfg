\* One reply comes after its timeout.
SPECIFICATION Spec
CONSTANTS
  alice = alice
  bob = bob
  a = a
  b = b
  Clients = {alice}
  Files = {a, b}
  Nobody = Nobody
  NoFile = NoFile
  Shares <- AllShares
  Foreign = {}
  MaxForwardings = 2
  Commands <- Publishing
  Faults = {"late"}
  MaxFaults = 1
INVARIANT AnswersAlwaysMatch
