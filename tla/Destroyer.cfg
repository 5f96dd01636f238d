SPECIFICATION Spec
CONSTANTS
  NumSteps = 2
  MaxSessions = 3
  Providers = {"AWS", "GCLOUD", "LOCAL"}
INVARIANTS AppliedCanBeDestroyed InReverse GoneAreForgotten
PROPERTIES DestroyedWhenAsked ForgetsOnlyGone
