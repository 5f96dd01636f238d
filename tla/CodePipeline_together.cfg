\* Two sessions at once, one of which creates the pipeline; sessions and AWS are
\* fair.
SPECIFICATION FairSpec
CONSTANTS
  Sessions = {s1, s2}
  MaxExecutions = 2
  Overlap = TRUE
  Created = {FALSE}
  StepApprovals <- OneApproval
  Plans <- OnePlan
INVARIANTS ResultIsTrue
PROPERTIES StopsNoNewer WaitEnds
