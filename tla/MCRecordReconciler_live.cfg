SPECIFICATION FairSpec
CONSTANTS
  a = a
  b = b
  IDs = {id1, id2}
  IPs = {a, b}
  Goals <- MCOneAddress
  TTLs <- MCTTLs
  ProxyModes = {FALSE, TRUE}
  Comments <- MCComments
  ManagedComments <- MCManaged
  Tags = {}
  Fallback <- MCProxiedFallback
  Normalised <- MCNormalised
  Absent = Absent
  NoCache = NoCache
  MaxLate = 0
  MaxForeign = 1
  MaxEdits = 1
PROPERTIES Converges UniformMetadataKept
