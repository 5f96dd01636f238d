\* Two sessions, one after the other, any of which may fail anywhere.
SPECIFICATION FairSpec
CONSTANTS
  Sessions = {s1, s2}
  Nobody = Nobody
  NoPlan = NoPlan
  Overlap = FALSE
  StepApprovals <- SomeApprovals
  Plans <- SomePlans
INVARIANTS DefinitionsAreOwn
PROPERTIES KeepsPromise WaitEnds
