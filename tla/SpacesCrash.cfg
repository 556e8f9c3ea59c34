SPECIFICATION Spec
CONSTANTS
  Ids = {a, b}
  NoId = NoId
  Cids = {3, 4, 5, 9}
  NetCid = 9
  Digests = {d1}
  NoDigest = NoDigest
  StandTaps = {4}
  Pids = {p1, p2}
  NoPid = NoPid
  Nonces = {n1, n2, n3}
  NoNonce = NoNonce
  Encryption = {TRUE}
  Tools = {"foreign"}
  FaultySteps <- UntidyFaults
  MaxCrashes = 1
SYMMETRY Symmetry
INVARIANTS CidsAreUnique NoBurnedCid RunningSpaceIsReachable
PROPERTIES KillsOnlyItsOwn
