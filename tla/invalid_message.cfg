SPECIFICATION Spec
CONSTANTS
  p1 = p1  p2 = p2  mkv = mkv  mp4 = mp4  k1 = k1  k2 = k2  m1 = m1  w1 = w1  w2 = w2  o1 = o1
  None = None
  Paths = {p1}
  Folded <- MCFolded
  Files = {mp4}
  Upgrades <- MCUpgrades
  Cuts = {k1, k2}
  Metas = {m1}
  MaxVersion = 1
  Contents <- OneClip
  Clippable <- NoCuts
  Workers = {w1, w2}
  Openers = {}
  RecheckOn = FALSE
  QueueCap = 1
  MaxGen = 6
  MaxEdits = 1
  MaxChanges = 1
  MaxFaults = 0
  MaxCrashes = 0
SYMMETRY MCSymmetry
INVARIANTS InvalidStaysReported
