SPECIFICATION Spec
CONSTANTS
  Ids = {a}
  NoId = NoId
  Cids = {3, 9}
  NetCid = 9
  Digests = {d1, d2}
  NoDigest = NoDigest
  StandTaps = {}
  Pids = {p1, p2}
  NoPid = NoPid
  Nonces = {n1, n2, n3, n4}
  NoNonce = NoNonce
  Encryption = {FALSE}
  Tools = {"build", "prune"}
  FaultySteps = {}
  MaxCrashes = 0
SYMMETRY Symmetry
INVARIANT OverlayHasItsTemplate
