\* Two sources with releases of their own and a forced one, a pinned module and
\* one that asks for stable, a step of argocd; a session runs all steps or the
\* first. Main goroutine and pipelines are fair.
SPECIFICATION FairSpec
CONSTANTS
  a = a
  b = b
  c = c
  NumSteps = 2
  NumModules = 4
  Sources = {a, b, c}
  MaxVersion = 3
  StepOf <- TwoInFirst
  SourceOf <- ThenBThenC
  ClientModules = {}
  ArgoCDSteps = {2}
  ModulePin <- PinnedAndStable
  SourceVersion <- NoVersions
  ForcedVersion <- CForced
  Approve <- MajorThenMinor
  Major <- MajorAtSecond
  Minor <- Minors
  Content <- FilesOfFirst
  Selections <- AllOrFirst
  ParallelFlag = {TRUE}
INVARIANTS MajorChangeNeedsApproval NothingOutlivesTheLoop EarlierStepsFirst
PROPERTIES RecordsWhatIsDeployed UpdateReachesVersions SessionEnds NoReleaseSkipped
