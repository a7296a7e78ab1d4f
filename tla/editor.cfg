SPECIFICATION Spec
CONSTANTS
  b1 = b1
  b2 = b2
  Browsers <- MCBrowsers
  Lists = {l1, l2}
  Valid = {l1, l2}
  None = None
  MaxOpen <- MCMaxOpen
  MaxEdits = 2
  MaxReloads = 1
  MaxTrouble = 1
SYMMETRY MCSymmetry
INVARIANTS TypeOK CleanIsVersion
PROPERTIES NoLostUpdate UnsavedKept
