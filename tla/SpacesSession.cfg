SPECIFICATION Spec
CONSTANTS
  Ids = {a, b}
  NoId = NoId
  Cids = {3, 4, 9, 31}
  NetCid = 9
  Digests = {d1}
  NoDigest = NoDigest
  StandTaps = {4}
  Pids = {p1, p2}
  NoPid = NoPid
  Nonces = {n1, n2, n3}
  NoNonce = NoNonce
  Encryption = {TRUE}
  Tools = {}
  FaultySteps <- RecoverableFaults
  MaxCrashes = 0
SYMMETRY Symmetry
INVARIANTS NoForeignLabel RegistryFollowsStore EveryQemuIsTracked NoVolumeWorkUnderLiveQemu SecretHasItsQemu
