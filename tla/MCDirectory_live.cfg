\* One client that gives every command, two faults.
SPECIFICATION FairSpec
CONSTANTS
  alice = alice
  bob = bob
  a = a
  b = b
  Clients = {alice}
  Files = {a, b}
  Nobody = Nobody
  NoFile = NoFile
  Shares <- AllShares
  Foreign = {}
  MaxForwardings = 2
  Commands <- AllCommands
  Faults = {"loss", "late", "crash", "addrlen"}
  MaxFaults = 2
PROPERTIES CommandsReturn BackOnline
