SPECIFICATION Spec
CONSTANTS
  Spaces = {s1, s2}
  NoSpace = NoSpace
  Cids = {g1, g2}
  NoCid = NoCid
  Conns = {c1, c2, c3}
  Children = {k1, k2}
  NoChild = NoChild
  Stale = Stale
  Faults = {"unlink", "vanish"}
  SlowBoot = TRUE
SYMMETRY Symmetry
INVARIANTS LeasesCountConnections NoStaleWindow EveryProxyIsTracked
PROPERTIES NoKillUnderConnection
