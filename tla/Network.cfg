SPECIFICATION Spec
CONSTANTS
  spike = spike
  spike2 = spike2
  Ids = {a, spike}
  NoId = NoId
  Cids = {3, 4, 5, 9}
  NetCid = 9
  Digests = {d1}
  NoDigest = NoDigest
  StandIds = {spike, spike2}
  Stand <- MCStand
  NetId = NetId
  HostRules = 2
  RulesetMax = 7
  Window = 6
  MaxTalk = 2
INVARIANTS RulesFollowStore PortsAreNotShared PageNeverFlatters TunnelIsOneReport
