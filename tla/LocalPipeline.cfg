\* Two steps in parallel.
SPECIFICATION FairSpec
CONSTANTS
  Steps = {s1, s2}
  Nobody = Nobody
  Terminal = Terminal
  NoPlan = NoPlan
  StepApprovals <- SomeApprovals
  Plans <- SomePlans
INVARIANTS AnswerIsForItsQuestion LogComesBack
PROPERTIES KeepsPromise StepsEnd
