SPECIFICATION Spec
CONSTANTS
  wide = wide
  narrow = narrow
  six = six
  TTLs = {1}
  ProxyModes = {FALSE}
  Tags = {}
  Families <- MCFamilies
  FamilyOf <- MCFamilyOf
  Covers <- MCCovers
  Fallback = "ours"
  NoList = NoList
  Absent = Absent
  NoCache = NoCache
  ListIDs = {l1}
  ItemIDs = {i1, i2, i3}
  Prefixes = {narrow, six}
  Goals <- MCMixedGoals
  Comments <- MCComments
  Policies <- MCPolicies
  MaxLate = 1
  MaxEdits = 0
SYMMETRY MCSymmetry
PROPERTIES ScopeRespected CleanUpAccounts
