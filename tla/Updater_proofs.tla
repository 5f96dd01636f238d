---------------------------- MODULE Updater_proofs ----------------------------
(***************************************************************************)
(* Theorems about Updater, for every value of its constants.               *)
(***************************************************************************)
EXTENDS Updater, FiniteSetTheorems, WellFoundedInduction, TLAPS

(***************************************************************************)
(* Min and Max of sets of naturals. A non-empty one has a least element    *)
(* because inclusion is well founded on the finite sets of its elements up *)
(* to each of its members.                                                 *)
(***************************************************************************)
LEMMA LeastElement ==
  ASSUME NEW S \in SUBSET Nat, S # {}
  PROVE  \E x \in S : \A y \in S : x <= y
<1> DEFINE UpTo(x) == S \cap (0..x)
           T == {UpTo(x) : x \in S}
<1>1. \A x \in S : IsFiniteSet(UpTo(x))
  <2> TAKE x \in S
  <2>1. IsFiniteSet(0..x)
    BY FS_Interval
  <2>2. UpTo(x) \in SUBSET (0..x)
    OBVIOUS
  <2> QED BY <2>1, <2>2, FS_Subset
<1>2. T \subseteq FiniteSubsetsOf(S) /\ T # {}
  BY <1>1 DEF FiniteSubsetsOf
<1>3. \E U \in T : \A V \in T : ~(<<V, U>> \in StrictSubsetOrdering(S))
  <2> HIDE DEF T
  <2> QED BY <1>2, FS_StrictSubsetOrderingWellFounded, WFMin
<1>4. PICK x \in S : \A y \in S : ~(<<UpTo(y), UpTo(x)>> \in StrictSubsetOrdering(S))
  BY <1>3
<1>5. ASSUME NEW y \in S, ~(x <= y) PROVE FALSE
  <2>1. UpTo(y) \subseteq UpTo(x) /\ x \in UpTo(x) /\ x \notin UpTo(y)
    BY <1>5
  <2>2. <<UpTo(y), UpTo(x)>> \in StrictSubsetOrdering(S)
    BY <2>1 DEF StrictSubsetOrdering
  <2> QED BY <2>2, <1>4
<1> QED BY <1>5

LEMMA MinIsLeast ==
  ASSUME NEW S \in SUBSET Nat, S # {}
  PROVE  Min(S) \in S /\ \A y \in S : Min(S) <= y
BY LeastElement DEF Min

LEMMA MaxIsGreatest ==
  ASSUME NEW n \in Nat, NEW S \in SUBSET (0..n), S # {}
  PROVE  Max(S) \in S /\ \A y \in S : Max(S) >= y
<1> DEFINE T == {n - x : x \in S}
<1>0. \A x \in S : x \in 0..n /\ n - x \in Nat
  OBVIOUS
<1>1. T \in SUBSET Nat /\ T # {}
  BY <1>0
<1>2. PICK t \in T : \A y \in T : t <= y
  <2> HIDE DEF T
  <2> QED BY <1>1, LeastElement
<1>3. PICK x \in S : t = n - x
  BY <1>2
<1>4. \A y \in S : n - x <= n - y
  BY <1>2, <1>3
<1>5. \A y \in S : x >= y
  BY <1>4
<1> QED BY <1>5 DEF Max

USE SizesAssumption DEF Versions, Tags, Modules, Steps, Unset

(***************************************************************************)
(* What the operators of a session return                                  *)
(***************************************************************************)
LEMMA PinnedType ==
  ASSUME published \in [Sources -> Versions], NEW m \in Modules \ ClientModules
  PROVE  PinnedVersion(m) \in Versions
BY ModulesAssumption, SourceVersionsAssumption DEF PinnedVersion, BaseVersion, Stable

LEMMA OldestType ==
  ASSUME published \in [Sources -> Versions], NEW source \in Sources, NEW steps \in SUBSET Steps
  PROVE  /\ OldestVersion(source, steps) \in OldestCandidates(source, steps)
         /\ OldestVersion(source, steps) \in Versions
         /\ \A v \in OldestCandidates(source, steps) : OldestVersion(source, steps) <= v
<1> DEFINE S == OldestCandidates(source, steps)
<1>1. S \in SUBSET Versions /\ S # {}
  BY SourceVersionsAssumption DEF OldestCandidates, BaseVersion
<1> HIDE DEF S
<1>2. Min(S) \in S /\ \A y \in S : Min(S) <= y
  BY <1>1, MinIsLeast
<1> QED BY <1>1, <1>2 DEF OldestVersion, S

LEMMA NewestType ==
  ASSUME published \in [Sources -> Versions], NEW source \in Sources,
         NEW steps \in SUBSET Steps, ReleasesExist(source, steps)
  PROVE  NewestVersion(source, steps) \in Versions
<1> DEFINE S == {PinnedVersion(m) : m \in SourceModules(source, steps)}
<1>1. CASE \/ OldestVersion(source, steps) = published[source]
           \/ \E m \in SourceModules(source, steps) : ModulePin[m] = Stable
  BY <1>1 DEF NewestVersion
<1>2. CASE ~(\/ OldestVersion(source, steps) = published[source]
             \/ \E m \in SourceModules(source, steps) : ModulePin[m] = Stable)
  <2>1. S \in SUBSET (0..MaxVersion) /\ S \in SUBSET Versions /\ S # {}
    BY <1>2, PinnedType DEF ReleasesExist, SourceModules
  <2> HIDE DEF S
  <2>2. Max(S) \in S
    BY <2>1, MaxIsGreatest
  <2>3. NewestVersion(source, steps) = Max(S)
    BY <1>2 DEF NewestVersion, S
  <2> QED BY <2>1, <2>2, <2>3
<1> QED BY <1>1, <1>2

\* A session has at most MaxVersion releases to go through.
LEMMA MostReleasesBound ==
  oldest \in [Sources -> Versions] /\ newest \in [Sources -> Versions] =>
    MostReleases \in Int /\ MostReleases <= MaxVersion
<1> SUFFICES ASSUME oldest \in [Sources -> Versions], newest \in [Sources -> Versions]
             PROVE  MostReleases \in Int /\ MostReleases <= MaxVersion
  OBVIOUS
<1> DEFINE S == {NumReleases(source) : source \in Sources}
           n == MaxVersion + MaxVersion
           T == {s + MaxVersion : s \in S}
<1>1. \A s \in S : s \in Int /\ s <= MaxVersion /\ s > -MaxVersion
  BY DEF NumReleases
<1>2. PICK s \in S : \A t \in S : s >= t
  <2>1. T \in SUBSET (0..n) /\ T # {} /\ n \in Nat
    BY <1>1, SourcesAssumption
  <2>2. Max(T) \in T /\ \A t \in T : Max(T) >= t
    <3> HIDE DEF T, n
    <3> QED BY <2>1, MaxIsGreatest
  <2>3. PICK s \in S : Max(T) = s + MaxVersion
    BY <2>2
  <2>4. ASSUME NEW t \in S PROVE s >= t
    <3>1. t + MaxVersion \in T
      OBVIOUS
    <3>2. s + MaxVersion >= t + MaxVersion
      BY <3>1, <2>2, <2>3
    <3>3. s \in Int /\ t \in Int
      BY <1>1
    <3> HIDE DEF S
    <3> QED BY <3>2, <3>3
  <2> QED BY <2>4
<1>3. Max(S) \in S
  <2> HIDE DEF S
  <2> QED BY <1>2 DEF Max
<1> QED BY <1>1, <1>3 DEF MostReleases

LEMMA VersionToExecuteType ==
  ASSUME TypeOK, NEW m \in Modules
  PROVE  VersionToExecute(m) \in Tags
<1>1. CASE m \in ClientModules
  BY <1>1, ModulesAssumption DEF VersionToExecute
<1>2. CASE Forced(m)
  BY <1>2, SourceVersionsAssumption, ModulesAssumption DEF VersionToExecute, Forced
<1>3. CASE m \notin ClientModules /\ ~Forced(m)
  <2>1. PinnedVersion(m) \in Versions
    BY <1>3, PinnedType DEF TypeOK
  <2>2. SourceOf[m] \in Sources /\ ~IsForced(SourceOf[m])
    BY <1>3, ModulesAssumption DEF Forced
  <2>3. ~PastReleases(SourceOf[m]) => Release(m) \in Versions
    BY <2>2 DEF PastReleases, NumReleases, Release, ReleaseAt, TypeOK
  <2>4. stateApplied[m] \in Tags
    BY DEF TypeOK
  <2> QED BY <1>3, <2>1, <2>3, <2>4 DEF VersionToExecute, Smaller
<1> QED BY <1>1, <1>2, <1>3

LEMMA AutoApproveOfType ==
  ASSUME NEW m \in Modules
  PROVE  AutoApproveOf(m) \in BOOLEAN
BY DEF AutoApproveOf, ModuleAutoApprove, StepAutoApprove

LEMMA ReleaseChecksumsType ==
  ASSUME TypeOK, NEW source \in Sources
  PROVE  ReleaseChecksums(source) \in Tags
BY SourceVersionsAssumption
   DEF ReleaseChecksums, ReleaseNoLaterThan, Smaller, TypeOK

LEMMA SessionOverType ==
  ASSUME TypeOK, SessionOver, Forget, deployed' \in [Modules -> Tags],
         storedVersion' \in [Modules -> Tags], storedApplied' \in [Modules -> Tags]
  PROVE  TypeOK'
<1>1. 1 \in Versions /\ 0 \in Tags /\ 0 \in 0..MaxVersion
  OBVIOUS
<1>2. /\ stateVersion' \in [Modules -> Tags] /\ stateApplied' \in [Modules -> Tags]
      /\ published' \in [Sources -> Versions]
  BY DEF TypeOK, SessionOver, Forget
<1>3. /\ oldest' \in [Sources -> Versions] /\ newest' \in [Sources -> Versions]
      /\ previous' \in [Sources -> Tags] /\ current' \in [Sources -> Tags]
      /\ executing' \in [Modules -> Tags] /\ autoApprove' \in [Modules -> BOOLEAN]
      /\ pipeline' \in [Steps -> {"none", "running", "applied"}]
  BY <1>1 DEF SessionOver
<1> QED BY <1>1, <1>2, <1>3 DEF TypeOK, SessionOver, Phases

LEMMA MarkAppliedType ==
  ASSUME TypeOK, NEW step, MarkApplied(step)
  PROVE  stateApplied' \in [Modules -> Tags] /\ stateVersion' \in [Modules -> Tags]
BY DEF TypeOK, MarkApplied

LEMMA InPlaceType ==
  ASSUME TypeOK, NEW steps, InPlace(steps)
  PROVE  deployed' \in [Modules -> Tags]
BY DEF TypeOK, InPlace
------------------------------------------------------------------------------
LEMMA TypeInit == Init => TypeOK
<1> SUFFICES ASSUME Init PROVE TypeOK
  OBVIOUS
<1>1. 1 \in Versions /\ 0 \in Tags /\ 0 \in 0..MaxVersion
  OBVIOUS
<1>2. /\ published \in [Sources -> Versions]
      /\ oldest \in [Sources -> Versions] /\ newest \in [Sources -> Versions]
      /\ previous \in [Sources -> Tags] /\ current \in [Sources -> Tags]
  BY <1>1 DEF Init
<1>3. /\ deployed \in [Modules -> Tags]
      /\ storedVersion \in [Modules -> Tags] /\ storedApplied \in [Modules -> Tags]
      /\ stateVersion \in [Modules -> Tags] /\ stateApplied \in [Modules -> Tags]
      /\ executing \in [Modules -> Tags] /\ autoApprove \in [Modules -> BOOLEAN]
      /\ pipeline \in [Steps -> {"none", "running", "applied"}]
  BY <1>1 DEF Init
<1> QED BY <1>1, <1>2, <1>3 DEF Init, TypeOK, Phases

\* StepFails and StepDone leave the rest of the type to their action.
LEMMA StepFailsType ==
  ASSUME TypeOK, NEW step \in Steps, StepFails(step), ~retrying,
         deployed' \in [Modules -> Tags],
         storedVersion' \in [Modules -> Tags], storedApplied' \in [Modules -> Tags],
         stateVersion' \in [Modules -> Tags], stateApplied' \in [Modules -> Tags]
  PROVE  TypeOK'
BY DEF TypeOK, StepFails, Phases, session, checksums

\* A step that fails in the loop of retrySteps ends the session.
LEMMA StepErrorType ==
  ASSUME TypeOK, NEW step \in Steps, StepFails(step),
         deployed' \in [Modules -> Tags], UNCHANGED stored,
         IF retrying THEN Forget
         ELSE stateVersion' \in [Modules -> Tags] /\ stateApplied' \in [Modules -> Tags]
  PROVE  TypeOK'
<1>1. storedVersion' \in [Modules -> Tags] /\ storedApplied' \in [Modules -> Tags]
  BY DEF TypeOK, stored
<1>2. CASE ~retrying
  BY <1>1, <1>2, StepFailsType
<1>3. CASE retrying
  <2>1. SessionOver
    BY <1>3 DEF StepFails
  <2> QED BY <1>1, <1>3, <2>1, SessionOverType
<1> QED BY <1>2, <1>3

LEMMA EnvironmentType ==
  ASSUME TypeOK, Environment
  PROVE  TypeOK'
<1>1. ASSUME NEW source \in Sources, Publish(source) PROVE TypeOK'
  <2>1. published' \in [Sources -> Versions]
    BY <1>1 DEF Publish, TypeOK
  <2> QED BY <1>1, <2>1 DEF Publish, TypeOK, stored, state, session, loop, checksums
<1>2. ASSUME NEW command \in {"run", "update"}, NEW steps \in Selections,
             NEW flag \in ParallelFlag, StartSession(command, steps, flag)
      PROVE  TypeOK'
  <2>1. steps \in SUBSET Steps /\ flag \in BOOLEAN
    BY SelectionsAssumption
  <2>2. oldest' \in [Sources -> Versions]
    BY <1>2, <2>1, OldestType DEF StartSession, TypeOK
  <2>3. newest' \in [Sources -> Versions]
    BY <1>2, <2>1, NewestType DEF StartSession, TypeOK
  <2>4. command = "update" => MaxVersion >= 2
    <3>1. (oldest \in [Sources -> Versions] /\ newest \in [Sources -> Versions])'
      BY <2>2, <2>3
    <3>2. (MostReleases \in Int /\ MostReleases <= MaxVersion)'
      BY <3>1, MostReleasesBound, PTL
    <3> QED BY <1>2, <3>2 DEF StartSession
  <2> QED BY <1>2, <2>1, <2>2, <2>3, <2>4
          DEF StartSession, TypeOK, Phases, stored, state, loop, checksums
<1>3. ASSUME Cancel PROVE TypeOK'
  BY <1>3 DEF Cancel, TypeOK, external, stored, state, session, loop, checksums
<1>4. ASSUME Crash PROVE TypeOK'
  <2>1. deployed' \in [Modules -> Tags]
    BY <1>4, InPlaceType DEF Crash
  <2> QED BY <1>4, <2>1, SessionOverType DEF Crash, stored, TypeOK
<1> QED BY <1>1, <1>2, <1>3, <1>4 DEF Environment

LEMMA ProcessStepType ==
  ASSUME TypeOK, NEW step \in Steps, ProcessStep(step)
  PROVE  TypeOK'
<1>1. CASE ResolveVersions(step)
  <2>1. /\ stateVersion' \in [Modules -> Tags] /\ executing' \in [Modules -> Tags]
        /\ autoApprove' \in [Modules -> BOOLEAN]
    BY <1>1, VersionToExecuteType, AutoApproveOfType DEF ResolveVersions, TypeOK
  <2> QED BY <1>1, <2>1
          DEF ResolveVersions, PutStateFile, TypeOK, Phases, external, session, loop, checksums
<1>2. CASE ResolveFails(step)
  <2>1. IF retrying THEN Forget
        ELSE stateVersion' \in [Modules -> Tags] /\ stateApplied' \in [Modules -> Tags]
    <3>1. CASE retrying
      BY <1>2, <3>1 DEF ResolveFails
    <3>2. CASE ~retrying
      <4>1. PICK reached \in ModulesOf(step) :
              /\ stateVersion' = [m \in Modules |->
                   IF StepOf[m] = step /\ m <= reached /\ Changed(m)
                   THEN VersionToExecute(m) ELSE stateVersion[m]]
              /\ UNCHANGED stateApplied
        BY <1>2, <3>2 DEF ResolveFails
      <4>2. stateVersion' \in [Modules -> Tags]
        BY <4>1, VersionToExecuteType DEF TypeOK
      <4> QED BY <3>2, <4>1, <4>2 DEF TypeOK
    <3> QED BY <3>1, <3>2
  <2> QED BY <1>2, <2>1, StepErrorType DEF ResolveFails, TypeOK
<1>3. CASE RetryLater(step)
  BY <1>3 DEF RetryLater, TypeOK, Phases, external, stored, state, session, checksums
<1>4. CASE PrepareFails(step)
  BY <1>4, StepErrorType DEF PrepareFails, TypeOK, state
<1>5. CASE SkipStep(step)
  BY <1>5 DEF SkipStep, StepDone, TypeOK, Phases, stored, state, session, checksums
<1>6. CASE RecordUnchanged(step)
  <2>1. stateApplied' \in [Modules -> Tags] /\ stateVersion' \in [Modules -> Tags]
    BY <1>6, MarkAppliedType DEF RecordUnchanged
  <2> QED BY <1>6, <2>1
          DEF RecordUnchanged, PutStateFile, StepDone, TypeOK, Phases, session, checksums
<1>7. CASE RecordUnchangedFails(step)
  BY <1>7, MarkAppliedType, StepErrorType DEF RecordUnchangedFails, TypeOK
<1>8. CASE StartPipeline(step)
  BY <1>8 DEF StartPipeline, TypeOK, Phases, external, stored, state, session, loop, checksums
<1>9. CASE StartParallel(step)
  BY <1>9 DEF StartParallel, StepDone, TypeOK, Phases, stored, state, session, checksums
<1> QED BY <1>1, <1>2, <1>3, <1>4, <1>5, <1>6, <1>7, <1>8, <1>9 DEF ProcessStep

LEMMA ParallelFailsType ==
  ASSUME TypeOK, NEW step \in Steps, ParallelFails(step), UNCHANGED stored,
         deployed' \in [Modules -> Tags],
         stateVersion' \in [Modules -> Tags], stateApplied' \in [Modules -> Tags]
  PROVE  TypeOK'
BY DEF ParallelFails, TypeOK, Phases, session, checksums, stored

LEMMA ExecutePipelineType ==
  ASSUME TypeOK, NEW step \in Steps, ExecutePipeline(step)
  PROVE  TypeOK'
<1>1. CASE PipelineSucceeds(step)
  <2>1. deployed' \in [Modules -> Tags]
    BY <1>1, InPlaceType DEF PipelineSucceeds
  <2> QED BY <1>1, <2>1
          DEF PipelineSucceeds, TypeOK, Phases, stored, state, session, loop, checksums
<1>2. CASE PipelineFails(step)
  <2>1. deployed' \in [Modules -> Tags]
    BY <1>2, InPlaceType DEF PipelineFails, TypeOK
  <2>2. UNCHANGED state =>
          stateVersion' \in [Modules -> Tags] /\ stateApplied' \in [Modules -> Tags]
    BY DEF state, TypeOK
  <2> QED BY <1>2, <2>1, <2>2, ParallelFailsType, StepErrorType DEF PipelineFails
<1>3. CASE RecordApplied(step)
  <2>1. stateApplied' \in [Modules -> Tags] /\ stateVersion' \in [Modules -> Tags]
    BY <1>3, MarkAppliedType DEF RecordApplied
  <2>2. CASE step \in parallel
    BY <1>3, <2>1, <2>2
       DEF RecordApplied, PutStateFile, TypeOK, Phases, session, loop, checksums, StepDone
  <2>3. CASE step \notin parallel
    BY <1>3, <2>1, <2>3
       DEF RecordApplied, PutStateFile, TypeOK, Phases, session, checksums, StepDone
  <2> QED BY <2>2, <2>3
<1>4. CASE RecordAppliedFails(step)
  <2>1. deployed' \in [Modules -> Tags]
    BY <1>4 DEF RecordAppliedFails, TypeOK
  <2>2. MarkApplied(step) =>
          stateVersion' \in [Modules -> Tags] /\ stateApplied' \in [Modules -> Tags]
    BY MarkAppliedType
  <2> QED BY <1>4, <2>1, <2>2, ParallelFailsType, StepErrorType DEF RecordAppliedFails
<1> QED BY <1>1, <1>2, <1>3, <1>4 DEF ExecutePipeline

LEMMA ProcessType ==
  ASSUME TypeOK, Process
  PROVE  TypeOK'
<1>1. CASE BeginRelease
  <2>1. current' \in [Sources -> Tags]
    BY <1>1, ReleaseChecksumsType DEF BeginRelease, TypeOK
  <2> QED BY <1>1, <2>1 DEF BeginRelease, TypeOK, Phases, external, stored, state, session
<1>2. CASE BeginFails
  BY <1>2, SessionOverType DEF BeginFails, TypeOK, stored
<1>3. CASE \E step \in Steps : ProcessStep(step)
  BY <1>3, ProcessStepType
<1>4. CASE LoopEnds
  BY <1>4 DEF LoopEnds, TypeOK, Phases, external, stored, state, session, loop, checksums
<1>5. CASE ReleaseCancelled
  BY <1>5, SessionOverType DEF ReleaseCancelled, TypeOK, stored
<1>6. CASE ReleaseFails
  BY <1>6, SessionOverType DEF ReleaseFails, TypeOK, stored
<1>7. CASE RetrySteps
  BY <1>7 DEF RetrySteps, PutStateFile, TypeOK, Phases, external, state, session, checksums
<1>8. CASE NextRelease
  <2>1. index + 1 < MaxVersion
    BY <1>8, MostReleasesBound DEF NextRelease, MoreReleases, TypeOK
  <2>2. index' \in 0..MaxVersion
    BY <1>8, <2>1, SizesAssumption DEF NextRelease, TypeOK
  <2>3. storedVersion' \in [Modules -> Tags] /\ storedApplied' \in [Modules -> Tags]
    BY <1>8 DEF NextRelease, PutStateFile, state, TypeOK
  <2>4. /\ phase' = "begin" /\ previous' = current
        /\ UNCHANGED <<published, deployed, stateVersion, stateApplied, autoApprove, cmd,
                       selected, oldest, newest, todo, retries, retrying, failed,
                       allowParallel, firstRunDone, current, executing, pipeline,
                       parallel, cancelled>>
    BY <1>8 DEF NextRelease, external, state, session, loop
  <2> QED BY <2>2, <2>3, <2>4 DEF TypeOK, Phases
<1>9. CASE SessionSucceeds
  BY <1>9, SessionOverType DEF SessionSucceeds, TypeOK
<1> QED BY <1>1, <1>2, <1>3, <1>4, <1>5, <1>6, <1>7, <1>8, <1>9 DEF Process

\* The types of the state, whatever the configuration: the version getModuleVersion
\* finds, and the applied one the state file gets, is a tag or none, and the index
\* Process counts up stays below the bound on the releases of a source.
THEOREM TypeCorrect == Spec => []TypeOK
<1>1. Init => TypeOK
  BY TypeInit
<1>2. TypeOK /\ [Next]_vars => TypeOK'
  <2> SUFFICES ASSUME TypeOK, [Next]_vars PROVE TypeOK'
    OBVIOUS
  <2>1. CASE Next
    BY <2>1, ProcessType, ExecutePipelineType, EnvironmentType DEF Next
  <2>2. CASE UNCHANGED vars
    BY <2>2 DEF vars, TypeOK
  <2> QED BY <2>1, <2>2
<1> QED BY <1>1, <1>2, PTL DEF Spec
------------------------------------------------------------------------------
(***************************************************************************)
(* Where the loop is                                                       *)
(***************************************************************************)
\* Which steps are still in the loop and which are out of it.
StepsInv ==
  /\ selected \subseteq Steps
  /\ todo \subseteq selected /\ retries \subseteq selected
  /\ parallel \subseteq selected /\ failed \subseteq selected
  /\ todo \cap parallel = {} /\ retries \cap todo = {} /\ retries \cap parallel = {}
  /\ failed \cap todo = {} /\ failed \cap parallel = {}

PhaseInv ==
  /\ retrying => ~allowParallel
  /\ phase \in {"idle", "begin", "save"} \/ retrying => parallel = {}
  /\ phase \in {"idle", "begin"} => failed = {}
  /\ phase = "save" => todo = {}
  /\ phase = "idle" => ~retrying /\ todo = {} /\ retries = {}

\* A step has an execution exactly when the loop waits for it or wg counts it.
PipelineInv ==
  \A step \in Steps :
    pipeline[step] # "none" <=> step \in parallel \/ (phase = "wait" /\ IsNext(step))

LoopInv == StepsInv /\ PhaseInv /\ PipelineInv

LEMMA LoopInit == Init => LoopInv
BY DEF Init, LoopInv, StepsInv, PhaseInv, PipelineInv, IsNext

LEMMA SessionOverLoop ==
  ASSUME SessionOver
  PROVE  LoopInv'
BY DEF SessionOver, LoopInv, StepsInv, PhaseInv, PipelineInv, IsNext

\* The step that fails is the next one of the loop, or was put to a goroutine.
LEMMA StepFailsLoop ==
  ASSUME LoopInv, TypeOK, NEW step \in Steps, IsNext(step), StepFails(step)
  PROVE  LoopInv'
<1>1. CASE retrying
  BY <1>1, SessionOverLoop DEF StepFails
<1>2. CASE ~retrying
  <2>1. /\ phase' = "steps" /\ todo' = {} /\ failed' = failed \cup {step}
        /\ UNCHANGED <<selected, retries, retrying, allowParallel, parallel>>
        /\ pipeline' = [pipeline EXCEPT ![step] = "none"]
    BY <1>2 DEF StepFails, session
  <2>2. step \in todo
    BY DEF IsNext
  <2>3. StepsInv' /\ PhaseInv'
    BY <1>2, <2>1, <2>2 DEF LoopInv, StepsInv, PhaseInv
  <2>4. PipelineInv'
    <3>1. \A other \in Steps : pipeline'[other] = IF other = step THEN "none" ELSE pipeline[other]
      BY <2>1 DEF TypeOK
    <3>2. step \notin parallel
      BY <2>2 DEF LoopInv, StepsInv
    <3>3. \A other \in Steps : IsNext(other) => other = step
      BY DEF IsNext, LoopInv, StepsInv
    <3> QED BY <2>1, <3>1, <3>2, <3>3 DEF LoopInv, PipelineInv, IsNext
  <2> QED BY <2>3, <2>4 DEF LoopInv
<1> QED BY <1>1, <1>2

\* StepDone moves the loop on to the next step.
LEMMA StepDoneLoop ==
  ASSUME LoopInv, TypeOK, NEW step \in Steps, IsNext(step), phase = "prepare",
         StepDone(step), UNCHANGED <<pipeline, parallel>>
  PROVE  LoopInv'
BY DEF StepDone, LoopInv, StepsInv, PhaseInv, PipelineInv, IsNext, TypeOK, session

LEMMA ProcessStepLoop ==
  ASSUME LoopInv, TypeOK, NEW step \in Steps, ProcessStep(step)
  PROVE  LoopInv'
<1> USE DEF LoopInv
<1>1. CASE ResolveVersions(step)
  BY <1>1 DEF ResolveVersions, StepsInv, PhaseInv, PipelineInv, IsNext, session, loop
<1>2. CASE ResolveFails(step)
  BY <1>2, StepFailsLoop DEF ResolveFails
<1>3. CASE RetryLater(step)
  BY <1>3 DEF RetryLater, Prepared, StepsInv, PhaseInv, PipelineInv, IsNext, TypeOK, session
<1>4. CASE PrepareFails(step)
  BY <1>4, StepFailsLoop DEF PrepareFails
<1>5. CASE SkipStep(step)
  BY <1>5, StepDoneLoop DEF SkipStep, Prepared
<1>6. CASE RecordUnchanged(step)
  BY <1>6, StepDoneLoop DEF RecordUnchanged, Unchanged, Prepared
<1>7. CASE RecordUnchangedFails(step)
  BY <1>7, StepFailsLoop DEF RecordUnchangedFails, Unchanged, Prepared
<1>8. CASE StartPipeline(step)
  BY <1>8 DEF StartPipeline, Prepared, StepsInv, PhaseInv, PipelineInv, IsNext, TypeOK,
              session, loop
<1>9. CASE StartParallel(step)
  BY <1>9 DEF StartParallel, StepDone, RunsParallel, Prepared, StepsInv, PhaseInv,
              PipelineInv, IsNext, TypeOK, session
<1> QED BY <1>1, <1>2, <1>3, <1>4, <1>5, <1>6, <1>7, <1>8, <1>9 DEF ProcessStep

LEMMA ParallelFailsLoop ==
  ASSUME LoopInv, TypeOK, NEW step \in Steps, ParallelFails(step)
  PROVE  LoopInv'
<1>1. /\ parallel' = parallel \ {step} /\ failed' = failed \cup {step} /\ step \in parallel
      /\ UNCHANGED <<selected, phase, todo, retries, retrying, allowParallel>>
      /\ pipeline' = [pipeline EXCEPT ![step] = "none"]
  BY DEF ParallelFails, session
<1>2. StepsInv'
  BY <1>1 DEF LoopInv, StepsInv
<1>3. PhaseInv'
  BY <1>1 DEF LoopInv, PhaseInv
<1>4. PipelineInv'
  <2>1. \A other \in Steps : pipeline'[other] = IF other = step THEN "none" ELSE pipeline[other]
    BY <1>1 DEF TypeOK
  <2>2. ~IsNext(step)
    BY <1>1 DEF LoopInv, StepsInv, IsNext
  <2> QED BY <1>1, <2>1, <2>2 DEF LoopInv, PipelineInv, IsNext
<1> QED BY <1>2, <1>3, <1>4 DEF LoopInv

LEMMA ExecutePipelineLoop ==
  ASSUME LoopInv, TypeOK, NEW step \in Steps, ExecutePipeline(step)
  PROVE  LoopInv'
<1>1. step \notin parallel /\ pipeline[step] # "none" => phase = "wait" /\ IsNext(step)
  BY DEF LoopInv, PipelineInv
<1>2. CASE PipelineSucceeds(step)
  BY <1>2 DEF PipelineSucceeds, LoopInv, StepsInv, PhaseInv, PipelineInv, IsNext, TypeOK,
              session, loop
<1>3. CASE PipelineFails(step)
  BY <1>1, <1>3, ParallelFailsLoop, StepFailsLoop DEF PipelineFails
<1>4. CASE RecordApplied(step)
  <2>1. \A other \in Steps : pipeline'[other] = IF other = step THEN "none" ELSE pipeline[other]
    BY <1>4 DEF RecordApplied, TypeOK
  <2>2. CASE step \in parallel
    <3>1. /\ parallel' = parallel \ {step}
          /\ UNCHANGED <<selected, phase, todo, retries, retrying, allowParallel, failed>>
      BY <1>4, <2>2 DEF RecordApplied, StepDone, session, loop
    <3>2. ~IsNext(step)
      BY <2>2 DEF LoopInv, StepsInv, IsNext
    <3>3. StepsInv' /\ PhaseInv'
      BY <3>1 DEF LoopInv, StepsInv, PhaseInv
    <3>4. PipelineInv'
      BY <2>1, <3>1, <3>2 DEF LoopInv, PipelineInv, IsNext
    <3> QED BY <3>3, <3>4 DEF LoopInv
  <2>3. CASE step \notin parallel
    <3>1. phase = "wait" /\ IsNext(step)
      BY <1>1, <1>4, <2>3 DEF RecordApplied
    <3>2. /\ phase' = "steps" /\ todo' = todo \ {step} /\ parallel' = parallel
          /\ UNCHANGED <<selected, retries, retrying, allowParallel, failed>>
      BY <1>4, <2>3 DEF RecordApplied, StepDone, session, loop
    <3>3. StepsInv' /\ PhaseInv'
      BY <3>1, <3>2 DEF LoopInv, StepsInv, PhaseInv
    <3>4. \A other \in Steps : IsNext(other) => other = step
      BY <3>1 DEF IsNext, LoopInv, StepsInv
    <3>5. PipelineInv'
      BY <2>1, <2>3, <3>1, <3>2, <3>4 DEF LoopInv, PipelineInv, IsNext
    <3> QED BY <3>3, <3>5 DEF LoopInv
  <2> QED BY <2>2, <2>3
<1>5. CASE RecordAppliedFails(step)
  BY <1>1, <1>5, ParallelFailsLoop, StepFailsLoop DEF RecordAppliedFails
<1> QED BY <1>2, <1>3, <1>4, <1>5 DEF ExecutePipeline

LEMMA ProcessLoop ==
  ASSUME LoopInv, TypeOK, Process
  PROVE  LoopInv'
<1>1. CASE BeginRelease
  BY <1>1 DEF BeginRelease, LoopInv, StepsInv, PhaseInv, PipelineInv, IsNext, session
<1>2. CASE BeginFails \/ ReleaseCancelled \/ ReleaseFails \/ SessionSucceeds
  BY <1>2, SessionOverLoop DEF BeginFails, ReleaseCancelled, ReleaseFails, SessionSucceeds
<1>3. CASE \E step \in Steps : ProcessStep(step)
  BY <1>3, ProcessStepLoop
<1>4. CASE LoopEnds
  BY <1>4 DEF LoopEnds, LoopInv, StepsInv, PhaseInv, PipelineInv, IsNext, session, loop
<1>5. CASE RetrySteps
  BY <1>5 DEF RetrySteps, LoopInv, StepsInv, PhaseInv, PipelineInv, IsNext, session
<1>6. CASE NextRelease
  <2>1. /\ phase = "save" /\ failed = {} /\ retries = {} /\ phase' = "begin"
        /\ UNCHANGED <<selected, todo, retries, retrying, failed, allowParallel, pipeline, parallel>>
    BY <1>6 DEF NextRelease, ReleaseDone, session, loop
  <2> QED BY <2>1 DEF LoopInv, StepsInv, PhaseInv, PipelineInv, IsNext
<1> QED BY <1>1, <1>2, <1>3, <1>4, <1>5, <1>6 DEF Process

LEMMA EnvironmentLoop ==
  ASSUME LoopInv, TypeOK, Environment
  PROVE  LoopInv'
<1>1. ASSUME NEW source \in Sources, Publish(source) PROVE LoopInv'
  BY <1>1 DEF Publish, LoopInv, StepsInv, PhaseInv, PipelineInv, IsNext, session, loop
<1>2. ASSUME NEW command \in {"run", "update"}, NEW steps \in Selections,
             NEW flag \in ParallelFlag, StartSession(command, steps, flag)
      PROVE  LoopInv'
  <2>1. steps \subseteq Steps
    BY SelectionsAssumption
  <2> QED BY <1>2, <2>1
          DEF StartSession, LoopInv, StepsInv, PhaseInv, PipelineInv, IsNext, loop
<1>3. ASSUME Cancel PROVE LoopInv'
  BY <1>3 DEF Cancel, LoopInv, StepsInv, PhaseInv, PipelineInv, IsNext, session, loop
<1>4. ASSUME Crash PROVE LoopInv'
  BY <1>4, SessionOverLoop DEF Crash
<1> QED BY <1>1, <1>2, <1>3, <1>4 DEF Environment

LEMMA LoopCorrect == Spec => [](TypeOK /\ LoopInv)
<1>1. Init => TypeOK /\ LoopInv
  BY TypeInit, LoopInit
<1>2. TypeOK /\ LoopInv /\ [Next]_vars => LoopInv'
  <2> SUFFICES ASSUME TypeOK, LoopInv, [Next]_vars PROVE LoopInv'
    OBVIOUS
  <2>1. CASE Next
    BY <2>1, ProcessLoop, ExecutePipelineLoop, EnvironmentLoop DEF Next
  <2>2. CASE UNCHANGED vars
    BY <2>2 DEF vars, LoopInv, StepsInv, PhaseInv, PipelineInv, IsNext
  <2> QED BY <2>1, <2>2
<1> QED BY <1>1, <1>2, TypeCorrect, PTL DEF Spec

\* wg.Wait() of processRelease: whatever the steps, and whichever of them fail or
\* are put off, the state is saved, the next release begun and the retries made
\* with no goroutine left of the loop that has ended.
THEOREM LoopJoined == Spec => []NothingOutlivesTheLoop
<1>1. TypeOK /\ LoopInv => NothingOutlivesTheLoop
  <2> SUFFICES ASSUME LoopInv, phase \in {"begin", "save"} \/ retrying,
                      NEW step \in Steps, pipeline[step] # "none"
               PROVE  phase = "wait" /\ IsNext(step) /\ step \notin parallel
    BY DEF NothingOutlivesTheLoop
  <2>1. parallel = {}
    BY DEF LoopInv, PhaseInv
  <2> QED BY <2>1 DEF LoopInv, PipelineInv
<1> QED BY <1>1, LoopCorrect, PTL
------------------------------------------------------------------------------
(***************************************************************************)
(* The versions of the modules                                             *)
(***************************************************************************)
\* What a module has to be at when its step is done with the release at i.
Reached(m, i) == Smaller(PinnedVersion(m), ReleaseNoLaterThan(SourceOf[m], i))

\* Each version of a module is at most one release ahead of the one it is made
\* from, in memory and in the bucket, and none is past the version asked for.
VersionsInv ==
  /\ phase = "idle" => stateVersion = storedVersion /\ stateApplied = storedApplied
  /\ \A m \in Modules : Regular(m) =>
       /\ storedVersion[m] <= PinnedVersion(m) /\ stateVersion[m] <= PinnedVersion(m)
       /\ stateApplied[m] <= stateVersion[m] /\ storedApplied[m] <= storedVersion[m]
       /\ stateApplied[m] # Unset => stateVersion[m] <= stateApplied[m] + 1
       /\ storedApplied[m] # Unset =>
            /\ storedVersion[m] <= storedApplied[m] + 1
            /\ storedApplied[m] <= stateApplied[m] /\ stateVersion[m] <= storedApplied[m] + 1

\* No module of the session is further back than the release before.
Has(version, applied) == IF applied = Unset THEN version ELSE applied
BegunInv ==
  phase # "idle" => \A m \in Modules : Regular(m) /\ StepOf[m] \in selected =>
    /\ storedApplied[m] # Unset => storedApplied[m] >= Reached(m, index - 1)
    /\ Has(stateVersion[m], stateApplied[m]) # Unset =>
         Has(stateVersion[m], stateApplied[m]) >= Reached(m, index - 1)

\* What the step being executed is going to record.
Executed(step) == step \in parallel \/ (phase \in {"prepare", "wait"} /\ IsNext(step))
Resolved(m, version) ==
  version >= Reached(m, index) \/ (version = Unset /\ PastReleases(SourceOf[m]))
ResolvedInv ==
  \A m \in Modules : Regular(m) /\ Executed(StepOf[m]) => Resolved(m, stateVersion[m])

\* The steps the loop is done with, unless it was left, have the release.
InLoop == phase \in {"steps", "prepare", "wait", "save"} /\ (todo # {} \/ failed = {})
StepsDone == selected \ (todo \cup retries \cup parallel \cup failed)
DoneInv ==
  InLoop => \A m \in Modules : Regular(m) /\ StepOf[m] \in StepsDone => HasRelease(m)

ReleasesInv == VersionsInv /\ BegunInv /\ ResolvedInv /\ DoneInv
IInv == TypeOK /\ LoopInv /\ ReleasesInv

LEMMA Numbers ==
  ASSUME TypeOK, NEW m \in Modules, Regular(m)
  PROVE  /\ PinnedVersion(m) \in Nat \ {0} /\ StepOf[m] \in Steps
         /\ stateVersion[m] \in Nat /\ stateApplied[m] \in Nat
         /\ storedVersion[m] \in Nat /\ storedApplied[m] \in Nat
         /\ Reached(m, index) \in Int /\ Reached(m, index - 1) \in Int
         /\ Reached(m, index - 1) <= Reached(m, index) /\ Reached(m, index) \in 1..PinnedVersion(m)
         /\ PastReleases(SourceOf[m]) => Reached(m, index - 1) = Reached(m, index)
         /\ ~PastReleases(SourceOf[m]) =>
              /\ Release(m) \in Nat \ {0}
              /\ Reached(m, index) = Smaller(PinnedVersion(m), Release(m))
              /\ Reached(m, index - 1) = Smaller(PinnedVersion(m), Release(m) - 1)
<1>1. PinnedVersion(m) \in Versions
  BY PinnedType DEF Regular, TypeOK
<1>2. /\ SourceOf[m] \in Sources /\ StepOf[m] \in Steps /\ ~IsForced(SourceOf[m])
      /\ oldest[SourceOf[m]] \in Versions /\ newest[SourceOf[m]] \in Versions /\ index \in Nat
  BY ModulesAssumption DEF Regular, TypeOK
<1>3. PastReleases(SourceOf[m]) <=> index > newest[SourceOf[m]] - oldest[SourceOf[m]]
  BY <1>2 DEF PastReleases, NumReleases
<1>4. /\ stateVersion[m] \in Nat /\ stateApplied[m] \in Nat
      /\ storedVersion[m] \in Nat /\ storedApplied[m] \in Nat
  BY DEF TypeOK
<1> QED BY <1>1, <1>2, <1>3, <1>4, SizesAssumption
       DEF Reached, ReleaseNoLaterThan, Smaller, Release, ReleaseAt

LEMMA SamePinned == ASSUME UNCHANGED published PROVE \A m : PinnedVersion(m)' = PinnedVersion(m)
BY DEF PinnedVersion, BaseVersion

\* The versions of m that the session may have in memory.
MayHave(m, version, applied) ==
  /\ version <= PinnedVersion(m) /\ applied <= version
  /\ applied # Unset => version <= applied + 1
  /\ storedApplied[m] # Unset => storedApplied[m] <= applied /\ version <= storedApplied[m] + 1
  /\ StepOf[m] \in selected /\ Has(version, applied) # Unset =>
       Has(version, applied) >= Reached(m, index - 1)

LEMMA AsItIs ==
  ASSUME ReleasesInv, phase # "idle", NEW m \in Modules, Regular(m)
  PROVE  MayHave(m, stateVersion[m], stateApplied[m])
BY DEF ReleasesInv, VersionsInv, BegunInv, MayHave

\* What updateModuleVersions makes of the version of a module.
NewVersion(m) == IF Changed(m) THEN VersionToExecute(m) ELSE stateVersion[m]

\* It is the next release, unless the module is held back or its source has no more.
LEMMA ResolvesNext ==
  ASSUME IInv, phase # "idle", NEW m \in Modules, Regular(m), StepOf[m] \in selected
  PROVE  /\ MayHave(m, NewVersion(m), stateApplied[m]) /\ Resolved(m, NewVersion(m))
         /\ ~Changed(m) => HasRelease(m)
<1> DEFINE pinned == PinnedVersion(m)  past == PastReleases(SourceOf[m])
           now == Reached(m, index)  before == Reached(m, index - 1)
           version == stateVersion[m]  applied == stateApplied[m]  release == Release(m)
<1>1. /\ pinned \in Nat \ {0} /\ version \in Nat /\ applied \in Nat /\ storedApplied[m] \in Nat
      /\ now \in Int /\ before \in Int /\ before <= now /\ now \in 1..pinned
      /\ past => before = now
      /\ ~past => release \in Nat \ {0} /\ now = Smaller(pinned, release)
                  /\ before = Smaller(pinned, release - 1)
  BY Numbers DEF IInv
<1>2. /\ version <= pinned /\ applied <= version /\ (applied # 0 => version <= applied + 1)
      /\ storedApplied[m] # 0 => /\ storedApplied[m] <= applied /\ version <= storedApplied[m] + 1
                                 /\ storedApplied[m] >= before
      /\ Has(version, applied) # 0 => Has(version, applied) >= before
  BY DEF IInv, ReleasesInv, VersionsInv, BegunInv, Unset
<1>3. /\ m \notin ClientModules /\ ~Forced(m)
      /\ Fresh(m) <=> applied = 0
      /\ HeldBack(m) <=> (pinned = applied /\ pinned < release) \/ applied > release
      /\ Changed(m) <=> ~past /\ (applied = 0 \/ ~HeldBack(m))
      /\ HasRelease(m) <=> applied >= now \/ (applied = 0 /\ past)
  BY DEF Regular, Forced, Fresh, HeldBack, Changed, Follows, HasRelease, Reached, Unset
<1>4. Changed(m) => NewVersion(m) = IF applied = 0 THEN Smaller(pinned, release) ELSE release
  BY <1>3 DEF NewVersion, VersionToExecute
<1>5. ~Changed(m) => NewVersion(m) = version
  BY DEF NewVersion
<1> DEFINE next == NewVersion(m)
<1> HIDE DEF pinned, past, now, before, version, applied, release, next
<1>6. /\ next <= pinned /\ applied <= next /\ (applied # 0 => next <= applied + 1)
      /\ storedApplied[m] # 0 => storedApplied[m] <= applied /\ next <= storedApplied[m] + 1
      /\ Has(next, applied) # 0 => Has(next, applied) >= before
      /\ next >= now \/ (next = 0 /\ past)
      /\ ~Changed(m) => HasRelease(m)
  <2>1. CASE Changed(m) /\ applied = 0
    <3>1. next = Smaller(pinned, release)
      BY <1>4, <2>1 DEF next
    <3> QED BY <1>1, <1>2, <1>3, <2>1, <3>1 DEF Has, Smaller, Unset
  <2>2. CASE Changed(m) /\ applied # 0
    <3>1. next = release
      BY <1>4, <2>2 DEF next
    <3> QED BY <1>1, <1>2, <1>3, <2>2, <3>1 DEF Has, Smaller, Unset
  <2>3. CASE ~Changed(m) /\ past
    <3>1. next = version
      BY <1>5, <2>3 DEF next
    <3> QED BY <1>1, <1>2, <1>3, <2>3, <3>1 DEF Has, Unset
  <2>4. CASE ~Changed(m) /\ ~past
    <3>1. next = version
      BY <1>5, <2>4 DEF next
    <3> QED BY <1>1, <1>2, <1>3, <2>4, <3>1 DEF Has, Smaller, Unset
  <2> QED BY <2>1, <2>2, <2>3, <2>4
<1> QED BY <1>6 DEF MayHave, Resolved, pinned, past, now, before, applied, next, Unset

\* What putAppliedStateFile makes of the applied version.
LEMMA MarksReached ==
  ASSUME IInv, phase # "idle", NEW m \in Modules, Regular(m), Executed(StepOf[m])
  PROVE  /\ MayHave(m, stateVersion[m], stateVersion[m]) /\ Resolved(m, stateVersion[m])
<1>1. Resolved(m, stateVersion[m])
  BY DEF IInv, ReleasesInv, ResolvedInv
<1> QED BY <1>1, Numbers DEF IInv, ReleasesInv, VersionsInv, MayHave, Resolved, Has, Unset

(***************************************************************************)
(* What a step does to them                                                *)
(***************************************************************************)
Stays == UNCHANGED <<published, selected, oldest, newest, index>>
LEMMA StaysReached ==
  ASSUME Stays, NEW m \in Modules
  PROVE  /\ Reached(m, index)' = Reached(m, index) /\ Reached(m, index - 1)' = Reached(m, index - 1)
         /\ PastReleases(SourceOf[m])' = PastReleases(SourceOf[m])
         /\ PinnedVersion(m)' = PinnedVersion(m)
<1>1. PinnedVersion(m)' = PinnedVersion(m)
  BY SamePinned DEF Stays
<1> QED BY <1>1 DEF Stays, Reached, ReleaseNoLaterThan, PastReleases, NumReleases

\* The session is over, and memory is what the bucket has.
LEMMA SessionOverReleases ==
  ASSUME IInv, SessionOver, Forget, UNCHANGED stored \/ (storedVersion' = stateVersion /\ storedApplied' = stateApplied)
  PROVE  ReleasesInv'
<1>1. \A m : PinnedVersion(m)' = PinnedVersion(m)
  BY SamePinned DEF SessionOver
<1>2. VersionsInv'
  BY <1>1, Numbers DEF IInv, ReleasesInv, VersionsInv, Forget, stored
<1>3. BegunInv' /\ ResolvedInv' /\ DoneInv'
  BY DEF SessionOver, BegunInv, ResolvedInv, DoneInv, Executed, InLoop
<1> QED BY <1>2, <1>3 DEF ReleasesInv

\* The session goes on with the release: what it has in memory it may have.
Keeps(m) == MayHave(m, stateVersion'[m], stateApplied'[m])
LEMMA VersionsKept ==
  ASSUME IInv, TypeOK', Stays, phase # "idle", phase' # "idle", UNCHANGED stored \/ PutStateFile,
         \A m \in Modules : Regular(m) => Keeps(m)
  PROVE  VersionsInv' /\ BegunInv'
<1>1. ASSUME NEW m \in Modules, Regular(m)
      PROVE  /\ (storedVersion[m] <= PinnedVersion(m) /\ stateVersion[m] <= PinnedVersion(m))'
             /\ (stateApplied[m] <= stateVersion[m] /\ storedApplied[m] <= storedVersion[m])'
             /\ (stateApplied[m] # Unset => stateVersion[m] <= stateApplied[m] + 1)'
             /\ (storedApplied[m] # Unset =>
                  /\ storedVersion[m] <= storedApplied[m] + 1
                  /\ storedApplied[m] <= stateApplied[m] /\ stateVersion[m] <= storedApplied[m] + 1)'
             /\ StepOf[m] \in selected =>
                  /\ (storedApplied[m] # Unset => storedApplied[m] >= Reached(m, index - 1))'
                  /\ (Has(stateVersion[m], stateApplied[m]) # Unset =>
                        Has(stateVersion[m], stateApplied[m]) >= Reached(m, index - 1))'
  <2>1. Keeps(m) /\ PinnedVersion(m)' = PinnedVersion(m)
    BY <1>1, StaysReached
  <2>2. /\ stateVersion[m]' \in Nat /\ stateApplied[m]' \in Nat
        /\ storedVersion[m]' \in Nat /\ storedApplied[m]' \in Nat
    BY DEF TypeOK
  <2>3. Reached(m, index - 1)' = Reached(m, index - 1)
    BY StaysReached
  <2>4. CASE UNCHANGED stored
    BY <1>1, <2>1, <2>2, <2>3, <2>4
       DEF Keeps, MayHave, IInv, ReleasesInv, VersionsInv, BegunInv, stored, Has, Unset
  <2>5. CASE PutStateFile
    <3>1. storedVersion'[m] = stateVersion'[m] /\ storedApplied'[m] = stateApplied'[m]
      BY <2>5 DEF PutStateFile
    <3> QED BY <2>1, <2>2, <2>3, <3>1 DEF Keeps, MayHave, Has, Unset
  <2> QED BY <2>4, <2>5
<1>2. VersionsInv'
  BY <1>1 DEF VersionsInv, Regular
<1>3. BegunInv'
  BY <1>1 DEF BegunInv, Regular, Stays
<1> QED BY <1>2, <1>3

\* What a step is going to record stays, or was just resolved.
LEMMA ResolvedKept ==
  ASSUME IInv, Stays,
         \A m \in Modules : Regular(m) /\ Executed(StepOf[m])' =>
           \/ Executed(StepOf[m]) /\ stateVersion'[m] = stateVersion[m]
           \/ Resolved(m, stateVersion'[m])
  PROVE  ResolvedInv'
<1>1. SUFFICES ASSUME NEW m \in Modules, Regular(m), Executed(StepOf[m])'
               PROVE  Resolved(m, stateVersion[m])'
  BY DEF ResolvedInv, Regular
<1>2. Resolved(m, stateVersion'[m])
  BY <1>1 DEF IInv, ReleasesInv, ResolvedInv
<1> QED BY <1>2, StaysReached DEF Resolved

\* Done is what was done, or has just been recorded.
LEMMA DoneKept ==
  ASSUME IInv, TypeOK', Stays,
         InLoop' => \A m \in Modules : Regular(m) /\ StepOf[m] \in StepsDone' =>
           \/ InLoop /\ StepOf[m] \in StepsDone /\ stateApplied'[m] = stateApplied[m]
           \/ HasRelease(m) /\ stateApplied'[m] = stateApplied[m]
           \/ Resolved(m, stateVersion[m]) /\ stateApplied'[m] = stateVersion[m]
  PROVE  DoneInv'
<1>1. SUFFICES ASSUME InLoop', NEW m \in Modules, Regular(m), StepOf[m] \in StepsDone'
               PROVE  HasRelease(m)'
  BY DEF DoneInv, Regular
<1>2. /\ Reached(m, index)' = Reached(m, index)
      /\ PastReleases(SourceOf[m])' = PastReleases(SourceOf[m])
  BY StaysReached
<1>3. /\ HasRelease(m) <=> stateApplied[m] >= Reached(m, index) \/ (stateApplied[m] = Unset /\ PastReleases(SourceOf[m]))
      /\ HasRelease(m)' <=> \/ stateApplied'[m] >= Reached(m, index)'
                            \/ stateApplied'[m] = Unset /\ PastReleases(SourceOf[m])'
  BY DEF HasRelease, Reached, Fresh
<1>4. CASE HasRelease(m) /\ stateApplied'[m] = stateApplied[m]
  BY <1>2, <1>3, <1>4
<1>5. CASE Resolved(m, stateVersion[m]) /\ stateApplied'[m] = stateVersion[m]
  BY <1>2, <1>3, <1>5 DEF Resolved
<1>6. CASE InLoop /\ StepOf[m] \in StepsDone /\ stateApplied'[m] = stateApplied[m]
  BY <1>1, <1>4, <1>6 DEF IInv, ReleasesInv, DoneInv
<1> QED BY <1>1, <1>4, <1>5, <1>6

\* Nothing is written: only the loop goes on.
LEMMA OnlyLoop ==
  ASSUME IInv, TypeOK', Stays, UNCHANGED <<stored, state>>, phase # "idle", phase' # "idle",
         \A step \in Steps : Executed(step)' => Executed(step),
         InLoop' => InLoop /\ StepsDone' \subseteq StepsDone
  PROVE  ReleasesInv'
<1>1. \A m \in Modules : Regular(m) => Keeps(m)
  BY AsItIs DEF IInv, Keeps, state
<1>2. VersionsInv' /\ BegunInv'
  BY <1>1, VersionsKept
<1>3. \A m \in Modules : StepOf[m] \in Steps
  BY ModulesAssumption
<1>4. ResolvedInv'
  BY <1>3, ResolvedKept DEF state
<1>5. DoneInv'
  BY <1>3, DoneKept DEF state
<1> QED BY <1>2, <1>4, <1>5 DEF ReleasesInv

\* A step that fails leaves the loop, and with it what it had resolved.
LEMMA StepFailsReleases ==
  ASSUME IInv, TypeOK', NEW step \in Steps, IsNext(step), phase # "idle", StepFails(step),
         UNCHANGED stored,
         IF retrying THEN Forget
         ELSE \A m \in Modules : Regular(m) =>
                Keeps(m) /\ (StepOf[m] # step => stateVersion'[m] = stateVersion[m])
  PROVE  ReleasesInv'
<1>1. CASE retrying
  <2>1. SessionOver /\ Forget
    BY <1>1 DEF StepFails
  <2> QED BY <2>1, SessionOverReleases
<1>2. CASE ~retrying
  <2>1. /\ Stays /\ phase' = "steps" /\ todo' = {} /\ failed' = failed \cup {step}
        /\ UNCHANGED parallel
    BY <1>2 DEF StepFails, session, Stays
  <2>2. VersionsInv' /\ BegunInv'
    BY <1>2, <2>1, VersionsKept
  <2>3. ResolvedInv'
    <3>1. step \notin parallel
      BY DEF IInv, LoopInv, StepsInv, IsNext
    <3> QED BY <1>2, <2>1, <3>1, ResolvedKept DEF Executed
  <2>4. DoneInv'
    BY <2>1 DEF DoneInv, InLoop
  <2> QED BY <2>2, <2>3, <2>4 DEF ReleasesInv
<1> QED BY <1>1, <1>2

LEMMA OneIsNext == ASSUME NEW step \in Steps, NEW other \in Steps, LoopInv, IsNext(step), IsNext(other)
                   PROVE  step = other
BY DEF IsNext, LoopInv, StepsInv

(***************************************************************************)
(* The steps                                                               *)
(***************************************************************************)
\* The modules of a step, once the loop has come to it.
LEMMA OfTheSession ==
  ASSUME IInv, NEW step \in Steps, IsNext(step) \/ step \in parallel
  PROVE  step \in selected
BY DEF IInv, LoopInv, StepsInv, IsNext

\* updateModuleVersions resolves the versions of all modules of the step, or of
\* those up to the one that fails.
LEMMA ResolvesKeep ==
  ASSUME IInv, phase # "idle", NEW step \in Steps, IsNext(step), NEW some \in SUBSET Modules,
         UNCHANGED stateApplied,
         \A m \in Modules : stateVersion'[m] = IF m \in some /\ StepOf[m] = step /\ Changed(m)
                                               THEN VersionToExecute(m) ELSE stateVersion[m]
  PROVE  \A m \in Modules : Regular(m) =>
           /\ Keeps(m) /\ (StepOf[m] # step => stateVersion'[m] = stateVersion[m])
           /\ m \in some /\ StepOf[m] = step => Resolved(m, stateVersion'[m])
<1>1. SUFFICES ASSUME NEW m \in Modules, Regular(m)
               PROVE  /\ Keeps(m) /\ (StepOf[m] # step => stateVersion'[m] = stateVersion[m])
                      /\ m \in some /\ StepOf[m] = step => Resolved(m, stateVersion'[m])
  OBVIOUS
<1>2. CASE m \in some /\ StepOf[m] = step
  <2>1. MayHave(m, NewVersion(m), stateApplied[m]) /\ Resolved(m, NewVersion(m))
    BY <1>1, <1>2, OfTheSession, ResolvesNext
  <2>2. stateVersion'[m] = NewVersion(m)
    BY <1>2 DEF NewVersion
  <2> QED BY <1>2, <2>1, <2>2 DEF Keeps
<1>3. CASE ~(m \in some /\ StepOf[m] = step)
  <2>1. stateVersion'[m] = stateVersion[m]
    BY <1>3
  <2> QED BY <1>1, <1>3, <2>1, AsItIs DEF Keeps, IInv
<1> QED BY <1>2, <1>3

\* putAppliedStateFile records what the step was executed with.
LEMMA MarksKeep ==
  ASSUME IInv, phase # "idle", NEW step \in Steps, Executed(step), MarkApplied(step)
  PROVE  \A m \in Modules : Regular(m) =>
           /\ Keeps(m) /\ stateVersion'[m] = stateVersion[m]
           /\ IF StepOf[m] = step
              THEN Resolved(m, stateVersion[m]) /\ stateApplied'[m] = stateVersion[m]
              ELSE stateApplied'[m] = stateApplied[m]
<1>1. SUFFICES ASSUME NEW m \in Modules, Regular(m)
               PROVE  /\ Keeps(m) /\ stateVersion'[m] = stateVersion[m]
                      /\ IF StepOf[m] = step
                         THEN Resolved(m, stateVersion[m]) /\ stateApplied'[m] = stateVersion[m]
                         ELSE stateApplied'[m] = stateApplied[m]
  OBVIOUS
<1>2. /\ stateVersion' = stateVersion
      /\ stateApplied'[m] = IF StepOf[m] = step THEN stateVersion[m] ELSE stateApplied[m]
  BY DEF MarkApplied
<1>3. CASE StepOf[m] = step
  BY <1>1, <1>2, <1>3, MarksReached DEF Keeps
<1>4. CASE StepOf[m] # step
  BY <1>1, <1>2, <1>4, AsItIs DEF Keeps, IInv
<1> QED BY <1>3, <1>4

LEMMA ProcessStepReleases ==
  ASSUME IInv, TypeOK', NEW step \in Steps, ProcessStep(step)
  PROVE  ReleasesInv'
<1>t. TypeOK /\ LoopInv /\ ReleasesInv /\ \A m \in Modules : StepOf[m] \in Steps
  BY ModulesAssumption DEF IInv
<1>1. CASE ResolveVersions(step)
  <2>1. /\ phase = "steps" /\ phase' = "prepare" /\ IsNext(step) /\ PutStateFile
        /\ stateApplied' = stateApplied /\ Stays /\ UNCHANGED <<todo, retries, failed, parallel>>
    BY <1>1 DEF ResolveVersions, Stays, session, external, loop
  <2>2. \A m \in Modules : stateVersion'[m] =
          IF m \in Modules /\ StepOf[m] = step /\ Changed(m) THEN VersionToExecute(m) ELSE stateVersion[m]
    BY <1>1 DEF ResolveVersions
  <2>3. \A m \in Modules : Regular(m) =>
          /\ Keeps(m) /\ (StepOf[m] # step => stateVersion'[m] = stateVersion[m])
          /\ StepOf[m] = step => Resolved(m, stateVersion'[m])
    BY <2>1, <2>2, ResolvesKeep
  <2>4. VersionsInv' /\ BegunInv'
    BY <2>1, <2>3, VersionsKept
  <2>5. \A other \in Steps : Executed(other)' => other = step \/ other \in parallel
    BY <1>t, <2>1, OneIsNext DEF Executed, IsNext
  <2>6. ResolvedInv'
    BY <1>t, <2>1, <2>3, <2>5, ResolvedKept DEF Executed
  <2>7. DoneInv'
    BY <2>1, DoneKept DEF InLoop, StepsDone, Stays
  <2> QED BY <2>4, <2>6, <2>7 DEF ReleasesInv
<1>2. CASE ResolveFails(step)
  <2>1. /\ phase = "steps" /\ IsNext(step) /\ UNCHANGED stored /\ StepFails(step)
    BY <1>2 DEF ResolveFails
  <2>2. IF retrying THEN Forget
        ELSE \A m \in Modules : Regular(m) =>
               Keeps(m) /\ (StepOf[m] # step => stateVersion'[m] = stateVersion[m])
    <3>1. CASE retrying
      BY <1>2, <3>1 DEF ResolveFails
    <3>2. CASE ~retrying
      <4>1. PICK reached \in ModulesOf(step) :
              /\ stateVersion' = [m \in Modules |->
                   IF StepOf[m] = step /\ m <= reached /\ Changed(m)
                   THEN VersionToExecute(m) ELSE stateVersion[m]]
              /\ UNCHANGED stateApplied
        BY <1>2, <3>2 DEF ResolveFails
      <4> DEFINE some == {m \in Modules : m <= reached}
      <4>2. \A m \in Modules : stateVersion'[m] =
              IF m \in some /\ StepOf[m] = step /\ Changed(m) THEN VersionToExecute(m) ELSE stateVersion[m]
        BY <4>1
      <4>3. some \in SUBSET Modules
        OBVIOUS
      <4> HIDE DEF some
      <4> QED BY <2>1, <3>2, <4>1, <4>2, <4>3, ResolvesKeep
    <3> QED BY <3>1, <3>2
  <2> QED BY <2>1, <2>2, StepFailsReleases
<1>3. CASE RetryLater(step)
  <2>1. /\ phase = "prepare" /\ IsNext(step) /\ phase' = "steps" /\ Stays
        /\ UNCHANGED <<stored, state, failed, parallel>>
        /\ todo' = todo \ {step} /\ retries' = retries \cup {step}
    BY <1>3 DEF RetryLater, Prepared, external, session, Stays
  <2>2. \A other \in Steps : Executed(other)' => Executed(other)
    BY <2>1 DEF Executed
  <2>3. InLoop' => InLoop /\ StepsDone' \subseteq StepsDone
    BY <2>1 DEF InLoop, StepsDone, IsNext, Stays
  <2> QED BY <2>1, <2>2, <2>3, OnlyLoop
<1>4. CASE PrepareFails(step)
  <2>1. \A m \in Modules : Regular(m) => MayHave(m, stateVersion[m], stateApplied[m])
    BY <1>t, <1>4, AsItIs DEF PrepareFails
  <2> QED BY <1>4, <2>1, StepFailsReleases DEF PrepareFails, Keeps, state
<1>5. CASE SkipStep(step)
  <2>1. /\ phase = "prepare" /\ IsNext(step) /\ phase' = "steps" /\ Stays
        /\ UNCHANGED <<stored, state, failed, parallel, retries>>
        /\ todo' = todo \ {step} /\ ~ExecutePipelines(step)
    BY <1>5 DEF SkipStep, Prepared, StepDone, session, Stays
  <2>2. \A m \in Modules : Regular(m) => Keeps(m)
    BY <1>t, <2>1, AsItIs DEF Keeps, state
  <2>3. VersionsInv' /\ BegunInv'
    BY <2>1, <2>2, VersionsKept
  <2>4. ResolvedInv'
    BY <1>t, <2>1, ResolvedKept DEF Executed, state
  <2>5. \A m \in Modules : Regular(m) /\ StepOf[m] = step => HasRelease(m)
    BY <2>1, OfTheSession, ResolvesNext DEF ExecutePipelines, ModulesOf
  <2>6. InLoop' => InLoop /\ StepsDone' \subseteq StepsDone \cup {step}
    BY <2>1 DEF InLoop, StepsDone, IsNext, Stays
  <2>7. DoneInv'
    BY <1>t, <2>1, <2>5, <2>6, DoneKept DEF state
  <2> QED BY <2>3, <2>4, <2>7 DEF ReleasesInv
<1>6. CASE RecordUnchanged(step)
  <2>1. /\ phase = "prepare" /\ IsNext(step) /\ phase' = "steps" /\ Stays
        /\ UNCHANGED <<failed, parallel, retries>> /\ PutStateFile /\ MarkApplied(step)
        /\ todo' = todo \ {step}
    BY <1>6 DEF RecordUnchanged, Unchanged, Prepared, StepDone, session, Stays
  <2>2. \A m \in Modules : Regular(m) =>
          /\ Keeps(m) /\ stateVersion'[m] = stateVersion[m]
          /\ IF StepOf[m] = step
             THEN Resolved(m, stateVersion[m]) /\ stateApplied'[m] = stateVersion[m]
             ELSE stateApplied'[m] = stateApplied[m]
    BY <2>1, MarksKeep DEF Executed
  <2>3. VersionsInv' /\ BegunInv'
    BY <2>1, <2>2, VersionsKept
  <2>4. ResolvedInv'
    BY <1>t, <2>1, <2>2, ResolvedKept DEF Executed
  <2>5. InLoop' => InLoop /\ StepsDone' \subseteq StepsDone \cup {step}
    BY <2>1 DEF InLoop, StepsDone, IsNext, Stays
  <2>6. DoneInv'
    BY <1>t, <2>1, <2>2, <2>5, DoneKept
  <2> QED BY <2>3, <2>4, <2>6 DEF ReleasesInv
<1>7. CASE RecordUnchangedFails(step)
  <2>1. phase = "prepare" /\ IsNext(step) /\ UNCHANGED stored /\ StepFails(step)
        /\ (retrying => Forget) /\ (~retrying => MarkApplied(step))
    BY <1>7 DEF RecordUnchangedFails, Unchanged, Prepared
  <2>2. ~retrying => \A m \in Modules : Regular(m) => Keeps(m) /\ stateVersion'[m] = stateVersion[m]
    BY <2>1, MarksKeep DEF Executed
  <2> QED BY <2>1, <2>2, StepFailsReleases
<1>8. CASE StartPipeline(step) \/ StartParallel(step)
  <2>1. /\ phase = "prepare" /\ IsNext(step) /\ phase' \in {"wait", "steps"} /\ Stays
        /\ UNCHANGED <<stored, state, failed, retries>>
        /\ \/ phase' = "wait" /\ todo' = todo /\ parallel' = parallel
           \/ phase' = "steps" /\ todo' = todo \ {step} /\ parallel' = parallel \cup {step}
    BY <1>8 DEF StartPipeline, StartParallel, Prepared, StepDone, external, session, loop, Stays
  <2>2. \A other \in Steps : Executed(other)' => Executed(other)
    BY <2>1 DEF Executed, IsNext
  <2>3. InLoop' => InLoop /\ StepsDone' \subseteq StepsDone
    BY <2>1 DEF InLoop, StepsDone, IsNext, Stays
  <2> QED BY <2>1, <2>2, <2>3, OnlyLoop
<1> QED BY <1>1, <1>2, <1>3, <1>4, <1>5, <1>6, <1>7, <1>8 DEF ProcessStep

LEMMA ExecutePipelineReleases ==
  ASSUME IInv, TypeOK', NEW step \in Steps, ExecutePipeline(step)
  PROVE  ReleasesInv'
<1>t. TypeOK /\ LoopInv /\ ReleasesInv /\ \A m \in Modules : StepOf[m] \in Steps
  BY ModulesAssumption DEF IInv
<1>w. /\ step \in parallel \/ (phase = "wait" /\ IsNext(step) /\ step \notin parallel)
      /\ step \in parallel => phase \notin {"idle", "begin", "save"} /\ step \notin todo
                              /\ step \notin retries /\ step \notin failed /\ step \in selected
  BY <1>t DEF ExecutePipeline, PipelineSucceeds, PipelineFails, RecordApplied, RecordAppliedFails,
              LoopInv, PipelineInv, PhaseInv, StepsInv, IsNext
<1>e. phase # "idle" /\ Executed(step)
  BY <1>w DEF Executed
\* A goroutine fails.
<1>f. ASSUME ParallelFails(step), UNCHANGED stored,
             \A m \in Modules : Regular(m) =>
               /\ Keeps(m) /\ stateVersion'[m] = stateVersion[m]
               /\ StepOf[m] # step => stateApplied'[m] = stateApplied[m]
      PROVE  ReleasesInv'
  <2>1. /\ Stays /\ UNCHANGED <<phase, todo, retries, retrying>> /\ step \in parallel
        /\ parallel' = parallel \ {step} /\ failed' = failed \cup {step}
    BY <1>f DEF ParallelFails, session, Stays
  <2>2. VersionsInv' /\ BegunInv'
    BY <1>e, <1>f, <2>1, VersionsKept
  <2>3. ResolvedInv'
    BY <1>t, <1>f, <2>1, ResolvedKept DEF Executed, IsNext
  <2>4. InLoop' => InLoop /\ StepsDone' \subseteq StepsDone /\ step \notin StepsDone'
    BY <2>1 DEF InLoop, StepsDone, Stays
  <2>5. DoneInv'
    BY <1>t, <1>f, <2>4, <2>1, DoneKept
  <2> QED BY <2>2, <2>3, <2>5 DEF ReleasesInv
<1>1. CASE PipelineSucceeds(step)
  <2>1. /\ Stays /\ UNCHANGED <<stored, state, phase, todo, retries, failed, parallel>>
    BY <1>1 DEF PipelineSucceeds, session, loop, Stays
  <2>2. /\ \A other \in Steps : Executed(other)' => Executed(other)
        /\ InLoop' => InLoop /\ StepsDone' \subseteq StepsDone
    BY <2>1 DEF Executed, IsNext, InLoop, StepsDone, Stays
  <2> QED BY <1>e, <2>1, <2>2, OnlyLoop
<1>2. CASE PipelineFails(step)
  <2>1. \A m \in Modules : Regular(m) => MayHave(m, stateVersion[m], stateApplied[m])
    BY <1>t, <1>e, AsItIs
  <2>2. CASE ParallelFails(step) /\ UNCHANGED state
    BY <1>2, <1>f, <2>1, <2>2 DEF PipelineFails, Keeps, state
  <2>3. CASE step \notin parallel /\ StepFails(step)
    BY <1>2, <1>w, <2>1, <2>3, StepFailsReleases DEF PipelineFails, Keeps, state, ParallelFails
  <2> QED BY <1>2, <2>2, <2>3 DEF PipelineFails
<1>m. MarkApplied(step) =>
        \A m \in Modules : Regular(m) =>
          /\ Keeps(m) /\ stateVersion'[m] = stateVersion[m]
          /\ IF StepOf[m] = step
             THEN Resolved(m, stateVersion[m]) /\ stateApplied'[m] = stateVersion[m]
             ELSE stateApplied'[m] = stateApplied[m]
  BY <1>e, MarksKeep
<1>3. CASE RecordApplied(step)
  <2>1. /\ Stays /\ PutStateFile /\ MarkApplied(step) /\ phase' # "idle"
        /\ UNCHANGED <<retries, failed>> /\ parallel' = parallel \ {step}
        /\ \/ step \in parallel /\ UNCHANGED <<phase, todo>>
           \/ step \notin parallel /\ phase = "wait" /\ IsNext(step)
              /\ phase' = "steps" /\ todo' = todo \ {step}
    BY <1>3, <1>w DEF RecordApplied, StepDone, session, loop, Stays
  <2>2. VersionsInv' /\ BegunInv'
    BY <1>e, <1>m, <2>1, VersionsKept
  <2>3. \A other \in Steps : Executed(other)' => Executed(other)
    BY <2>1 DEF Executed, IsNext
  <2>4. ResolvedInv'
    BY <1>t, <1>m, <2>1, <2>3, ResolvedKept
  <2>5. InLoop' => InLoop /\ StepsDone' \subseteq StepsDone \cup {step}
    BY <2>1 DEF InLoop, StepsDone, Stays, IsNext
  <2>6. DoneInv'
    BY <1>t, <1>m, <2>1, <2>5, DoneKept
  <2> QED BY <2>2, <2>4, <2>6 DEF ReleasesInv
<1>4. CASE RecordAppliedFails(step)
  <2>1. CASE ParallelFails(step) /\ MarkApplied(step)
    BY <1>4, <1>f, <1>m, <2>1 DEF RecordAppliedFails
  <2>2. CASE step \notin parallel /\ StepFails(step)
    BY <1>4, <1>w, <1>m, <2>2, StepFailsReleases DEF RecordAppliedFails, ParallelFails
  <2> QED BY <1>4, <2>1, <2>2 DEF RecordAppliedFails
<1> QED BY <1>1, <1>2, <1>3, <1>4 DEF ExecutePipeline

LEMMA ProcessReleases ==
  ASSUME IInv, TypeOK', Process
  PROVE  ReleasesInv'
<1>t. TypeOK /\ LoopInv /\ ReleasesInv /\ \A m \in Modules : StepOf[m] \in Steps
  BY ModulesAssumption DEF IInv
<1>1. CASE BeginRelease
  <2>1. /\ Stays /\ UNCHANGED <<stored, state, parallel>> /\ phase = "begin" /\ phase' = "steps"
        /\ todo' = selected /\ parallel = {}
    BY <1>1, <1>t DEF BeginRelease, external, session, Stays, LoopInv, PhaseInv
  <2>2. \A m \in Modules : Regular(m) => Keeps(m)
    BY <1>t, <2>1, AsItIs DEF Keeps, state
  <2>3. VersionsInv' /\ BegunInv'
    BY <2>1, <2>2, VersionsKept
  <2>4. ResolvedInv' /\ DoneInv'
    BY <2>1 DEF ResolvedInv, Executed, DoneInv, StepsDone, Stays
  <2> QED BY <2>3, <2>4 DEF ReleasesInv
<1>2. CASE BeginFails \/ ReleaseCancelled \/ ReleaseFails \/ SessionSucceeds
  BY <1>2, SessionOverReleases DEF BeginFails, ReleaseCancelled, ReleaseFails, SessionSucceeds, stored
<1>3. CASE \E step \in Steps : ProcessStep(step)
  BY <1>3, ProcessStepReleases
<1>4. CASE LoopEnds
  <2>1. /\ Stays /\ UNCHANGED <<stored, state, todo, retries, failed, parallel>>
        /\ phase = "steps" /\ phase' = "save"
    BY <1>4 DEF LoopEnds, external, session, loop, Stays
  <2>2. /\ \A other \in Steps : Executed(other)' => Executed(other)
        /\ InLoop' => InLoop /\ StepsDone' \subseteq StepsDone
    BY <2>1 DEF Executed, IsNext, InLoop, StepsDone, Stays
  <2> QED BY <2>1, <2>2, OnlyLoop
<1>5. CASE RetrySteps
  <2>1. /\ Stays /\ UNCHANGED <<state, failed, parallel>> /\ PutStateFile /\ failed = {}
        /\ phase = "save" /\ phase' = "steps" /\ todo = {} /\ todo' = retries /\ retries' = {}
    BY <1>5, <1>t DEF RetrySteps, external, session, Stays, LoopInv, PhaseInv
  <2>2. \A m \in Modules : Regular(m) => Keeps(m)
    BY <1>t, <2>1, AsItIs DEF Keeps, state
  <2>3. VersionsInv' /\ BegunInv'
    BY <2>1, <2>2, VersionsKept
  <2>4. /\ \A other \in Steps : Executed(other)' => Executed(other)
        /\ InLoop /\ StepsDone' \subseteq StepsDone
    BY <2>1 DEF Executed, IsNext, InLoop, StepsDone, Stays
  <2>5. ResolvedInv' /\ DoneInv'
    BY <1>t, <2>1, <2>4, ResolvedKept, DoneKept DEF state
  <2> QED BY <2>3, <2>5 DEF ReleasesInv
<1>6. CASE NextRelease
  <2>1. /\ UNCHANGED <<published, selected, oldest, newest, state, parallel>> /\ PutStateFile
        /\ phase = "save" /\ phase' = "begin" /\ index' = index + 1
        /\ todo = {} /\ retries = {} /\ failed = {} /\ parallel = {}
    BY <1>6, <1>t DEF NextRelease, ReleaseDone, external, session, LoopInv, PhaseInv
  <2>2. ASSUME NEW m \in Modules, Regular(m)
        PROVE  /\ PinnedVersion(m)' = PinnedVersion(m) /\ Reached(m, index - 1)' = Reached(m, index)
               /\ storedVersion'[m] = stateVersion[m] /\ storedApplied'[m] = stateApplied[m]
               /\ stateVersion'[m] = stateVersion[m] /\ stateApplied'[m] = stateApplied[m]
    <3>1. PinnedVersion(m)' = PinnedVersion(m)
      BY <2>1, SamePinned
    <3>2. index \in Nat
      BY <1>t DEF TypeOK
    <3>3. index' - 1 = index
      BY <2>1, <3>2
    <3> QED BY <2>1, <3>1, <3>3 DEF Reached, ReleaseNoLaterThan, PutStateFile, state
  <2>3. VersionsInv'
    BY <1>t, <2>1, <2>2, Numbers DEF ReleasesInv, VersionsInv, Regular
  <2>4. ASSUME NEW m \in Modules, Regular(m), StepOf[m] \in selected
        PROVE  /\ stateApplied[m] # Unset => stateApplied[m] >= Reached(m, index)
               /\ Has(stateVersion[m], stateApplied[m]) # Unset =>
                    Has(stateVersion[m], stateApplied[m]) >= Reached(m, index)
    <3>1. HasRelease(m)
      BY <1>t, <2>1, <2>4 DEF ReleasesInv, DoneInv, InLoop, StepsDone
    <3>2. \/ stateApplied[m] >= Reached(m, index)
          \/ stateApplied[m] = Unset /\ Reached(m, index - 1) = Reached(m, index)
      BY <1>t, <2>4, <3>1, Numbers DEF HasRelease, Reached, Fresh
    <3>3. Has(stateVersion[m], stateApplied[m]) # Unset =>
            Has(stateVersion[m], stateApplied[m]) >= Reached(m, index - 1)
      BY <1>t, <2>1, <2>4 DEF ReleasesInv, BegunInv
    <3>4. stateApplied[m] \in Nat /\ Reached(m, index) \in Int /\ Reached(m, index) >= 1
      BY <1>t, <2>4, Numbers
    <3> QED BY <3>2, <3>3, <3>4 DEF Has, Unset
  <2>5. BegunInv'
    BY <2>1, <2>2, <2>4 DEF BegunInv, Regular
  <2>6. ResolvedInv' /\ DoneInv'
    BY <2>1 DEF ResolvedInv, Executed, DoneInv, InLoop
  <2> QED BY <2>3, <2>5, <2>6 DEF ReleasesInv
<1> QED BY <1>1, <1>2, <1>3, <1>4, <1>5, <1>6 DEF Process

LEMMA EnvironmentReleases ==
  ASSUME IInv, TypeOK', Environment
  PROVE  ReleasesInv'
<1>t. TypeOK /\ LoopInv /\ ReleasesInv /\ \A m \in Modules : StepOf[m] \in Steps
  BY ModulesAssumption DEF IInv
<1>1. ASSUME NEW source \in Sources, Publish(source) PROVE ReleasesInv'
  <2>1. /\ phase = "idle" /\ published' = [published EXCEPT ![source] = @ + 1]
        /\ UNCHANGED <<stored, state, phase, parallel>>
    BY <1>1 DEF Publish
  <2>2. \A m \in Modules : Regular(m) => PinnedVersion(m)' \in Nat /\ PinnedVersion(m)' >= PinnedVersion(m)
    <3>1. SUFFICES ASSUME NEW m \in Modules, Regular(m)
                   PROVE  PinnedVersion(m)' \in Nat /\ PinnedVersion(m)' >= PinnedVersion(m)
      OBVIOUS
    <3>2. \A s \in Sources : published'[s] \in Nat /\ published[s] \in Nat /\ published'[s] >= published[s]
      BY <1>t, <2>1 DEF TypeOK
    <3>3. SourceOf[m] \in Sources /\ ModulePin[m] \in Nat /\ SourceVersion[SourceOf[m]] \in Nat
      BY ModulesAssumption, SourceVersionsAssumption, SizesAssumption DEF Stable
    <3> QED BY <3>2, <3>3 DEF PinnedVersion, BaseVersion
  <2>3. VersionsInv'
    <3>1. ASSUME NEW m \in Modules, Regular(m)
          PROVE  storedVersion[m] <= PinnedVersion(m)' /\ stateVersion[m] <= PinnedVersion(m)'
      <4>1. storedVersion[m] <= PinnedVersion(m) /\ stateVersion[m] <= PinnedVersion(m)
        BY <1>t, <3>1 DEF ReleasesInv, VersionsInv
      <4>2. /\ storedVersion[m] \in Nat /\ stateVersion[m] \in Nat
            /\ PinnedVersion(m) \in Int
        BY <1>t, <3>1, Numbers
      <4> QED BY <2>2, <3>1, <4>1, <4>2
    <3> QED BY <1>t, <2>1, <3>1 DEF ReleasesInv, VersionsInv, stored, state, Regular
  <2>4. BegunInv' /\ ResolvedInv' /\ DoneInv'
    BY <1>t, <2>1 DEF BegunInv, ResolvedInv, Executed, DoneInv, InLoop, LoopInv, PhaseInv
  <2> QED BY <2>3, <2>4 DEF ReleasesInv
<1>2. ASSUME NEW command \in {"run", "update"}, NEW steps \in Selections,
             NEW flag \in ParallelFlag, StartSession(command, steps, flag)
      PROVE  ReleasesInv'
  <2>1. /\ phase = "idle" /\ phase' = "begin" /\ selected' = steps /\ steps \in SUBSET Steps
        /\ index' \in {0, 1} /\ UNCHANGED <<published, stored, state, parallel>> /\ parallel = {}
        /\ stateVersion = storedVersion /\ stateApplied = storedApplied
        /\ oldest' = [source \in Sources |->
                         IF IsForced(source) THEN 1 ELSE OldestVersion(source, steps)]
    BY <1>2, <1>t, SelectionsAssumption
       DEF StartSession, ReleasesInv, VersionsInv, LoopInv, PhaseInv
  <2>2. \A m : PinnedVersion(m)' = PinnedVersion(m)
    BY <2>1, SamePinned
  <2>3. VersionsInv'
    BY <1>t, <2>1, <2>2 DEF ReleasesInv, VersionsInv, stored, state, Regular
  <2>4. ASSUME NEW m \in Modules, Regular(m), StepOf[m] \in steps, KnownVersion(m) # Unset
        PROVE  KnownVersion(m) >= Reached(m, index - 1)'
    <3> DEFINE source == SourceOf[m]
    <3>1. source \in Sources /\ ~IsForced(source) /\ m \in SourceModules(source, steps)
      BY <2>4, ModulesAssumption DEF Regular, SourceModules
    <3>2. KnownVersion(m) \in Versions
      BY <1>t, <2>4 DEF KnownVersion, TypeOK
    <3>3. KnownVersion(m) \in OldestCandidates(source, steps)
      BY <3>1, <3>2 DEF OldestCandidates
    <3>4. OldestVersion(source, steps) <= KnownVersion(m) /\ OldestVersion(source, steps) \in Versions
      BY <1>t, <2>1, <3>1, <3>3, OldestType DEF TypeOK
    <3>5. oldest'[source] = OldestVersion(source, steps) /\ newest'[source] \in Versions
      BY <2>1, <3>1 DEF TypeOK
    <3>6. PinnedVersion(m)' \in Nat
      BY <1>t, <2>2, <2>4, Numbers
    <3> QED BY <2>1, <3>2, <3>4, <3>5, <3>6 DEF Reached, ReleaseNoLaterThan, Smaller
  <2>5. BegunInv'
    <3>1. ASSUME NEW m \in Modules, Regular(m), StepOf[m] \in steps
          PROVE  /\ (storedApplied[m] # Unset => storedApplied[m] >= Reached(m, index - 1))'
                 /\ (Has(stateVersion[m], stateApplied[m]) # Unset =>
                       Has(stateVersion[m], stateApplied[m]) >= Reached(m, index - 1))'
      BY <2>1, <2>4, <3>1 DEF KnownVersion, Has, stored, state
    <3> QED BY <2>1, <3>1 DEF BegunInv, Regular
  <2>6. ResolvedInv' /\ DoneInv'
    BY <2>1 DEF ResolvedInv, Executed, DoneInv, InLoop
  <2> QED BY <2>3, <2>5, <2>6 DEF ReleasesInv
<1>3. CASE Cancel
  <2>1. /\ Stays /\ UNCHANGED <<stored, state, phase, todo, retries, failed, parallel>>
        /\ phase # "idle"
    BY <1>3 DEF Cancel, external, session, loop, Stays
  <2>2. /\ \A other \in Steps : Executed(other)' => Executed(other)
        /\ InLoop' => InLoop /\ StepsDone' \subseteq StepsDone
    BY <2>1 DEF Executed, IsNext, InLoop, StepsDone, Stays
  <2> QED BY <2>1, <2>2, OnlyLoop
<1>4. CASE Crash
  BY <1>4, SessionOverReleases DEF Crash
<1> QED BY <1>1, <1>2, <1>3, <1>4 DEF Environment

LEMMA ReleasesInit == Init => ReleasesInv
<1> SUFFICES ASSUME Init PROVE ReleasesInv
  OBVIOUS
<1>1. VersionsInv
  <2>1. TypeOK
    BY TypeInit
  <2> QED BY <2>1, Numbers DEF Init, VersionsInv, Unset
<1>2. BegunInv /\ ResolvedInv /\ DoneInv
  BY DEF Init, BegunInv, ResolvedInv, Executed, DoneInv, InLoop
<1> QED BY <1>1, <1>2 DEF ReleasesInv

\* Release by release, what every module has of it in memory and in the bucket,
\* what is about to be recorded and which steps are done, whatever failed, was
\* cancelled or killed before.
THEOREM ReleaseByRelease == Spec => []IInv
<1>1. Init => IInv
  BY TypeInit, LoopInit, ReleasesInit DEF IInv
<1>2. IInv /\ TypeOK' /\ [Next]_vars => ReleasesInv'
  <2> SUFFICES ASSUME IInv, TypeOK', [Next]_vars PROVE ReleasesInv'
    OBVIOUS
  <2>1. CASE Next
    BY <2>1, ProcessReleases, ExecutePipelineReleases, EnvironmentReleases DEF Next
  <2>2. CASE UNCHANGED vars
    <3>1. \A m : /\ PinnedVersion(m)' = PinnedVersion(m) /\ Reached(m, index)' = Reached(m, index)
                 /\ Reached(m, index - 1)' = Reached(m, index - 1) /\ HasRelease(m)' = HasRelease(m)
                 /\ PastReleases(SourceOf[m])' = PastReleases(SourceOf[m])
      <4>1. \A m : PinnedVersion(m)' = PinnedVersion(m)
        BY <2>2, SamePinned DEF vars
      <4> QED BY <2>2, <4>1 DEF vars, Reached, ReleaseNoLaterThan, HasRelease, Fresh, PastReleases, NumReleases
    <3> QED BY <2>2, <3>1 DEF vars, IInv, ReleasesInv, VersionsInv, BegunInv, ResolvedInv, Resolved,
               Executed, IsNext, DoneInv, InLoop, StepsDone, Regular
  <2> QED BY <2>1, <2>2
<1>3. IInv /\ TypeOK' /\ LoopInv' /\ [Next]_vars => IInv'
  BY <1>2 DEF IInv
<1> QED BY <1>1, <1>3, LoopCorrect, PTL DEF Spec

\* The state file takes what memory has, when it takes anything.
LEMMA Stores ==
  ASSUME Next, NEW m \in Modules
  PROVE  storedApplied'[m] \in {storedApplied[m], stateApplied[m], stateVersion[m]}
<1>1. CASE Process
  <2>1. ASSUME NEW step \in Steps, ProcessStep(step)
        PROVE  storedApplied'[m] \in {storedApplied[m], stateApplied[m], stateVersion[m]}
    BY <2>1 DEF ProcessStep, ResolveVersions, ResolveFails, RetryLater, PrepareFails, SkipStep,
       RecordUnchanged, RecordUnchangedFails, StartPipeline, StartParallel, PutStateFile, MarkApplied, stored
  <2>2. CASE BeginRelease \/ BeginFails \/ LoopEnds \/ ReleaseCancelled \/ ReleaseFails
    BY <2>2 DEF BeginRelease, BeginFails, LoopEnds, ReleaseCancelled, ReleaseFails, stored
  <2>3. CASE RetrySteps \/ NextRelease \/ SessionSucceeds
    BY <2>3 DEF RetrySteps, NextRelease, SessionSucceeds, PutStateFile, state
  <2> QED BY <1>1, <2>1, <2>2, <2>3 DEF Process
<1>2. ASSUME NEW step \in Steps, ExecutePipeline(step)
      PROVE  storedApplied'[m] \in {storedApplied[m], stateApplied[m], stateVersion[m]}
  BY <1>2 DEF ExecutePipeline, PipelineSucceeds, PipelineFails, RecordApplied, RecordAppliedFails,
     PutStateFile, MarkApplied, stored
<1>3. CASE Environment
  BY <1>3 DEF Environment, Publish, StartSession, Cancel, Crash, stored
<1> QED BY <1>1, <1>2, <1>3 DEF Next

\* Sessions of any commands and steps that fail, are cancelled or killed move a
\* recorded module one release at a time (getOldestVersion, getModuleVersion,
\* putAppliedStateFile).
THEOREM NoneSkipped == Spec => NoReleaseSkipped
<1>1. IInv /\ [Next]_vars =>
        [\A m \in Modules : Regular(m) /\ storedApplied[m] # Unset =>
           storedApplied'[m] \in {storedApplied[m], storedApplied[m] + 1}]_vars
  <2> SUFFICES ASSUME IInv, Next, NEW m \in Modules, Regular(m), storedApplied[m] # Unset
               PROVE  storedApplied'[m] \in {storedApplied[m], storedApplied[m] + 1}
    OBVIOUS
  <2>1. /\ storedApplied[m] <= stateApplied[m] /\ stateApplied[m] <= stateVersion[m]
        /\ stateVersion[m] <= storedApplied[m] + 1
    BY DEF IInv, ReleasesInv, VersionsInv
  <2>2. storedApplied[m] \in Nat /\ stateApplied[m] \in Nat /\ stateVersion[m] \in Nat
    BY Numbers DEF IInv
  <2> QED BY <2>1, <2>2, Stores
<1> QED BY <1>1, ReleaseByRelease, PTL DEF Spec, NoReleaseSkipped

\* A step that the main goroutine applies has no step before it that is behind,
\* unless that one is in flight, failed or put off (processRelease).
THEOREM StepsInOrder == Spec => []EarlierStepsFirst
<1>1. IInv => EarlierStepsFirst
  <2>1. SUFFICES ASSUME IInv, phase = "wait", ~retrying, NEW step \in Steps \ parallel,
                        NEW earlier \in selected, pipeline[step] # "none", earlier < step,
                        earlier \notin parallel \cup failed \cup retries,
                        NEW m \in ModulesOf(earlier), Regular(m)
                 PROVE  HasRelease(m)
    BY DEF EarlierStepsFirst
  <2>2. IsNext(step) /\ selected \subseteq Steps
    BY <2>1 DEF IInv, LoopInv, PipelineInv, StepsInv
  <2>3. earlier \notin todo /\ step \in todo
    BY <2>1, <2>2 DEF IsNext
  <2> QED BY <2>1, <2>3 DEF IInv, ReleasesInv, DoneInv, InLoop, StepsDone, ModulesOf
<1> QED BY <1>1, ReleaseByRelease, PTL
==============================================================================
