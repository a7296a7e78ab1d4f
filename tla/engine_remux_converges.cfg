SPECIFICATION FairSpec
CONSTANTS
  p1 = p1  p2 = p2  mkv = mkv  mp4 = mp4  k1 = k1  k2 = k2  m1 = m1  w1 = w1  w2 = w2  o1 = o1
  None = None
  Paths = {p1}
  Folded <- MCFolded
  Files = {mp4}
  Upgrades <- MCUpgrades
  Cuts = {k1}
  Metas = {m1}
  MaxVersion = 1
  Contents <- Removed
  Clippable <- NoCuts
  Workers = {w1}
  Openers = {}
  RecheckOn = TRUE
  QueueCap = 1
  MaxGen = 5
  MaxEdits = 1
  MaxChanges = 0
  MaxFaults = 1
  MaxCrashes = 1
PROPERTIES ConvergesUnlessBusy StatusConverges CacheConverges
