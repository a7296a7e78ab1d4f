SPECIFICATION Spec
CONSTANTS
  Contents = {c1, c2}
  None = None
  Keep = 2
  MaxChanges = 4
  MaxFaults = 2
  MaxClock = 2
  MaxCrashes = 2
INVARIANTS TypeOK WithinKeep CopyIsCurrent
PROPERTIES NewestKept EventuallyBackedUp
