SPECIFICATION DesktopSpec
CONSTANTS
  Ids = {a, b}
  NoId = NoId
  Cids = {3, 9}
  NetCid = 9
  Digests = {d1}
  NoDigest = NoDigest
  StandTaps = {}
  Pids = {p1}
  NoPid = NoPid
  Nonces = {n1, n2}
  NoNonce = NoNonce
  Encryption = {FALSE}
  Tools = {}
  FaultySteps <- RegistryFaults
  MaxCrashes = 0
  Conns = {c1, c2}
  Children = {k1, k2}
  NoChild = NoChild
  Stale = Stale
  Faults = {"spawn"}
  SlowBoot = FALSE
SYMMETRY Symmetry
INVARIANTS WindowShowsItsSpace
PROPERTIES GuidEnvironment
