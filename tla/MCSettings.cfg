SPECIFICATION Spec
CONSTANTS
  Spelling <- MCSpelling
  Unroutable <- MCUnroutable
  HostIDs <- MCHostIDs
  ParseProxied <- MCParseProxied
  EvaluateProxied <- Evaluate
  Words <- MCWords
  MaxWords = 5
  Terms <- MCTerms
  MoreTerms <- MCMoreTerms
  MaxTerms = 3
  Probes <- MCProbes
  Edits <- MCEdits
  NewEntries <- MCNewEntries
  MaxEdits = 4
INVARIANTS EntriesRead AdviceIsTrue AcceptedIsReady IgnoredIsInert
CHECK_DEADLOCK FALSE
