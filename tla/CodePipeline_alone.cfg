\* One session after the other; the first creates the pipeline.
SPECIFICATION Spec
CONSTANTS
  Sessions = {s1, s2}
  MaxExecutions = 2
  Overlap = FALSE
  Created = {FALSE}
  StepApprovals <- AllApprovals
  Plans <- FourPlans
INVARIANTS ApprovedAsDocumented
