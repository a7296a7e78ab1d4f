SPECIFICATION Spec
CONSTANTS
  l1 = l1  l2 = l2  m1 = m1
  None = None
  Paths <- MCPaths
  Nodes <- MCNodes
  Above <- MCAbove
  Video <- MCVideo
  Info <- MCInfo
  Layouts = {l1, l2}
  Metas = {m1}
  MaxCached = 4
INVARIANTS TypeOK TreeMatches NoEmptyFolders CacheFresh
PROPERTIES NeverBlanked
