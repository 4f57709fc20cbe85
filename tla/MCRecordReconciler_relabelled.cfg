SPECIFICATION Spec
CONSTANTS
  a = a
  b = b
  IDs = {id1, id2}
  IPs = {a, b}
  Goals <- MCOneAddress
  TTLs = {1}
  ProxyModes = {FALSE}
  Comments <- MCComments
  ManagedComments <- MCManaged
  Tags = {}
  Fallback <- MCFallback1
  Normalised <- MCNormalised
  Absent = Absent
  NoCache = NoCache
  MaxLate = 0
  MaxForeign = 1
  MaxEdits = 1
PROPERTIES UnmatchedRecordsInvisible
