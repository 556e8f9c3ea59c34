SPECIFICATION Spec
CONSTANTS
  Ids = {a}
  NoId = NoId
  Cids = {3, 9}
  NetCid = 9
  Digests = {d1, d2}
  NoDigest = NoDigest
  StandTaps = {}
  Pids = {p1}
  NoPid = NoPid
  Nonces = {n1, n2}
  NoNonce = NoNonce
  Encryption = {FALSE}
  Tools = {"foreign", "build", "prune"}
  FaultySteps <- ImageFaults
  MaxCrashes = 0
SYMMETRY Symmetry
INVARIANTS UpdateLeavesOverlayOnDigest
