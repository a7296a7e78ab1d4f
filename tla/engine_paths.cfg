SPECIFICATION Spec
CONSTANTS
  p1 = p1  p2 = p2  mkv = mkv  mp4 = mp4  k1 = k1  k2 = k2  m1 = m1  w1 = w1  w2 = w2  o1 = o1
  None = None
  Paths = {p1, p2}
  Folded <- MCFolded
  Files = {mkv, mp4}
  Upgrades <- MCUpgrades
  Cuts = {k1}
  Metas = {m1}
  MaxVersion = 2
  Contents <- TwoPaths
  Clippable <- AllCuts
  Workers = {w1}
  Openers = {o1}
  RecheckOn = TRUE
  QueueCap = 2
  MaxGen = 0
  MaxEdits = 1
  MaxChanges = 1
  MaxFaults = 0
  MaxCrashes = 1
INVARIANTS SinkInSync ServedIsCurrent PendingHasJob QueueInv SendNeverBlocks NoCaseClash
PROPERTIES ImplementsLibrary
