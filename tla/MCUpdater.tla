------------------------------ MODULE MCUpdater ------------------------------
(***************************************************************************)
(* Values of Updater's constants for TLC. Versions 1 and 2 share a major   *)
(* segment, 2 and 3 do not, or the other way round; the files of one       *)
(* module do not change from 2 to 3.                                       *)
(***************************************************************************)
EXTENDS Updater

CONSTANTS a, b, c

Majors == [v \in Versions |-> IF v <= 2 THEN 1 ELSE 2]
MajorAtSecond == [v \in Versions |-> IF v = 1 THEN 1 ELSE 2]
Minors == [v \in Versions |-> v]
Files == [m \in Modules |-> [v \in Versions |-> IF m = 2 /\ v = 3 THEN 2 ELSE v]]
FilesOfFirst == [m \in Modules |-> [v \in Versions |-> IF m = 1 /\ v = 3 THEN 2 ELSE v]]

\* A step per module; or two modules in the first step.
StepPerModule == [m \in Modules |-> Smaller(m, NumSteps)]
TwoInFirst == [m \in Modules |-> IF m <= 2 THEN 1 ELSE 2]

OneSource == [m \in Modules |-> a]
ThenBThenC == [m \in Modules |-> CASE m <= 2 -> a [] m = 3 -> b [] OTHER -> c]

NoPins == [m \in Modules |-> Unset]
PinnedAndStable == [m \in Modules |-> CASE m = 2 -> 2 [] m = 3 -> Stable [] OTHER -> Unset]

NoVersions == [source \in Sources |-> Unset]
CForced == [source \in Sources |-> IF source = c THEN 1 ELSE Unset]

AllMajor == [step \in Steps |-> "major"]
MajorThenMinor == [step \in Steps |-> IF step = 1 THEN "major" ELSE "minor"]

AnySteps == (SUBSET Steps) \ {{}}
AllOrFirst == {Steps, {1}}
EitherWay == BOOLEAN
==============================================================================
