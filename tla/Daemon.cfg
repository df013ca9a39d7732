SPECIFICATION FairSpec
CONSTANTS
  c1 = c1
  c2 = c2
  Clients = {c1, c2}
  MaxOpens <- MCMaxOpens
  MaxDaemons = 2
  MaxKills = 1
INVARIANTS NoMissedCreate Reachable PromiseSetOnce
PROPERTIES OpenEnds ServedOrTold StopsWhenUnused
CHECK_DEADLOCK FALSE
