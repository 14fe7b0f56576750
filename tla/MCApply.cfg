CONSTANTS
  plain = plain
  old = old
  new = new
  prod = prod
  team = team
  NumReleases = 3
  Wave <- MCWave
  Contents <- MCContents
  Deployed <- MCDeployed
  Files <- MCFiles
  Clients = {c1, c2}
  Prompt = {TRUE, FALSE}
  MaxOps = 2
  NoOwner = NoOwner
  NoContent = NoContent
SPECIFICATION Spec
INVARIANTS TypeOK PromptWavesOneAtATime SuccessMeansApplied ReapplyIsNoop
PROPERTIES ApplyEnds
CHECK_DEADLOCK FALSE
