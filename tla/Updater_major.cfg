\* One source and two steps of one module, of which a session may run any.
SPECIFICATION Spec
CONSTANTS
  a = a
  b = b
  c = c
  NumSteps = 2
  NumModules = 2
  Sources = {a}
  MaxVersion = 3
  StepOf <- StepPerModule
  SourceOf <- OneSource
  ClientModules = {}
  ArgoCDSteps = {}
  ModulePin <- NoPins
  SourceVersion <- NoVersions
  ForcedVersion <- NoVersions
  Approve <- AllMajor
  Major <- Majors
  Minor <- Minors
  Content <- Files
  Selections <- AnySteps
  ParallelFlag <- EitherWay
INVARIANTS MajorChangeNeedsApproval
