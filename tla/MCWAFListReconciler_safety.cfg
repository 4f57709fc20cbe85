SPECIFICATION Spec
CONSTANTS
  wide = wide
  narrow = narrow
  six = six
  TTLs = {1}
  ProxyModes = {FALSE}
  Tags = {}
  Families <- MCFamilies
  FamilyOf <- MCFamilyOf
  Covers <- MCCovers
  Fallback = "ours"
  NoList = NoList
  Absent = Absent
  NoCache = NoCache
  ListIDs = {l1, l2}
  ItemIDs = {i1, i2, i3}
  Prefixes = {wide, narrow}
  Goals <- MCGoals
  Comments <- MCOurs
  Policies <- MCWhole4
  MaxLate = 1
  MaxEdits = 1
SYMMETRY MCSymmetry
INVARIANTS TypeOK CachesCoherent
PROPERTIES NoCoverageGap NoRedundantItems PromiseKept
