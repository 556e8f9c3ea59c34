SPECIFICATION FairSpec
CONSTANTS
  Spaces = {s1}
  NoSpace = NoSpace
  Cids = {g1, g2}
  NoCid = NoCid
  Conns = {c1, c2}
  Children = {k1, k2}
  NoChild = NoChild
  Stale = Stale
  Faults = {"spawn", "socket", "unlink", "vanish"}
  SlowBoot = FALSE
PROPERTIES WindowsVanish
