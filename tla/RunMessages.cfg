\* Two steps, up to two releases, an API that hears all and a chat that hears of
\* failures; one request goes wrong. Nothing is to be done after the run.
SPECIFICATION FairSpec
CONSTANTS
  api = api
  chat = chat
  NumSteps = 2
  MaxReleases = 2
  Api = {api}
  Chat = {chat}
  Types <- AllAndDefault
  MaxFaults = 1
INVARIANTS FailuresSurface OutcomeIsHeard
PROPERTIES LevelsNest RunEnds
CHECK_DEADLOCK FALSE
