------------------------------- MODULE Updater -------------------------------
(***************************************************************************)
(* The release processor of service/update.go: an agent session (the       *)
(* `run` or the `update` command) loads the state file from the bucket,    *)
(* works out the releases every source has to go through, and applies them *)
(* one after another; in each release it walks the configured steps, some  *)
(* of them in goroutines, and records what it applied in the state file.   *)
(*                                                                         *)
(* Sessions follow each other for ever on the same bucket, may be          *)
(* cancelled or killed at any point, and new releases are published        *)
(* between them.                                                           *)
(***************************************************************************)
EXTENDS Integers, FiniteSets, FiniteSetsExt

CONSTANTS
  NumSteps,       \* number of configured steps, in config order
  NumModules,     \* number of configured modules, in config order
  Sources,        \* the git sources of the config
  MaxVersion,     \* newest release tag a source ever publishes (bound)
  StepOf,         \* module -> the step it belongs to
  SourceOf,       \* module -> the source it is taken from
  ClientModules,  \* modules whose source is an external git:: or git@ URL
  ArgoCDSteps,    \* steps of type argocd-apps; the others are terraform
  ModulePin,      \* module -> configured version: Unset, Stable or a tag
  SourceVersion,  \* source -> configured version: Unset (stable) or a tag
  ForcedVersion,  \* source -> version forced on its modules, or Unset
  Approve,        \* step -> its `approve` property
  Major, Minor,   \* version -> its first two semver segments
  Content,        \* module -> version -> checksum of the module's files
  Selections,     \* the sets of steps a session may be asked to run
  ParallelFlag    \* the values --allow-parallel may be given

Unset == 0
Stable == MaxVersion + 1
Steps == 1..NumSteps
Modules == 1..NumModules
Versions == 1..MaxVersion
Tags == Versions \cup {Unset}
ApproveTypes == {"always", "never", "major", "minor"}

ASSUME SizesAssumption ==
  NumSteps \in Nat \ {0} /\ NumModules \in Nat \ {0} /\ MaxVersion \in Nat \ {0}
ASSUME SourcesAssumption == Sources # {} /\ IsFiniteSet(Sources)
ASSUME ModulesAssumption ==
  /\ StepOf \in [Modules -> Steps]
  /\ SourceOf \in [Modules -> Sources]
  /\ ClientModules \subseteq Modules
  /\ ArgoCDSteps \subseteq Steps
  /\ ModulePin \in [Modules -> Tags \cup {Stable}]
  /\ \A m \in ClientModules : ModulePin[m] \in Versions
ASSUME SourceVersionsAssumption ==
  SourceVersion \in [Sources -> Tags] /\ ForcedVersion \in [Sources -> Tags]
ASSUME VersionsAssumption ==
  /\ Major \in [Versions -> Nat] /\ Minor \in [Versions -> Nat]
  /\ \A v, w \in Versions : v <= w => Major[v] <= Major[w]
ASSUME ApproveAssumption == Approve \in [Steps -> ApproveTypes]
ASSUME SelectionsAssumption ==
  Selections \subseteq (SUBSET Steps) \ {{}} /\ ParallelFlag \subseteq BOOLEAN

VARIABLES
  published,      \* source -> its newest release tag            (git)
  deployed,       \* module -> version last put in place         (cloud)
  storedVersion,  \* module -> version in the state file         (bucket)
  storedApplied,  \* module -> applied_version in the state file (bucket)
  stateVersion,   \* module -> version in u.state                (memory)
  stateApplied,   \* module -> applied version in u.state        (memory)
  autoApprove,    \* module -> AutoApprove in u.state            (memory)
  cmd,            \* "run" or "update"
  selected,       \* u.steps
  oldest, newest, \* source -> first and last of its Releases
  index,          \* position in Releases of the release in progress
  phase,          \* where the main goroutine is
  todo,           \* steps the running loop has still to process
  retries,        \* retrySteps
  retrying,       \* the loop is the one of retrySteps()
  failed,         \* failedSteps and what errChan holds
  allowParallel,  \* pipelineFlags.AllowParallel
  firstRunDone,   \* steps whose first run of this session is done
  previous,       \* source -> release PreviousChecksums belongs to
  current,        \* source -> release CurrentChecksums belongs to
  executing,      \* module -> version its step's pipeline is given
  pipeline,       \* step -> state of its execution
  parallel,       \* steps whose goroutine wg counts
  cancelled       \* the context was cancelled

external == <<published, deployed>>
stored == <<storedVersion, storedApplied>>
state == <<stateVersion, stateApplied>>
session == <<cmd, selected, oldest, newest>>
checksums == <<previous, current>>
loop == <<todo, retries, retrying, failed>>
executions == <<deployed, executing, pipeline, parallel>>
vars == <<published, deployed, storedVersion, storedApplied, stateVersion,
          stateApplied, autoApprove, cmd, selected, oldest, newest, index,
          phase, todo, retries, retrying, failed, allowParallel, firstRunDone,
          previous, current, executing, pipeline, parallel, cancelled>>

Phases == {"idle", "begin", "steps", "prepare", "wait", "save"}

TypeOK ==
  /\ published \in [Sources -> Versions]
  /\ deployed \in [Modules -> Tags]
  /\ storedVersion \in [Modules -> Tags] /\ storedApplied \in [Modules -> Tags]
  /\ stateVersion \in [Modules -> Tags] /\ stateApplied \in [Modules -> Tags]
  /\ autoApprove \in [Modules -> BOOLEAN]
  /\ cmd \in {"run", "update"} /\ selected \subseteq Steps
  /\ oldest \in [Sources -> Versions] /\ newest \in [Sources -> Versions]
  /\ index \in 0..MaxVersion /\ phase \in Phases
  /\ todo \subseteq Steps /\ retries \subseteq Steps /\ retrying \in BOOLEAN
  /\ failed \subseteq Steps
  /\ allowParallel \in BOOLEAN /\ firstRunDone \subseteq Steps
  /\ previous \in [Sources -> Tags] /\ current \in [Sources -> Tags]
  /\ executing \in [Modules -> Tags]
  /\ pipeline \in [Steps -> {"none", "running", "applied"}]
  /\ parallel \subseteq Steps /\ cancelled \in BOOLEAN
------------------------------------------------------------------------------
(***************************************************************************)
(* Choosing the releases: NewUpdater, addSourceReleases, getSourceReleases *)
(***************************************************************************)
Smaller(a, b) == IF a <= b THEN a ELSE b

ModulesOf(step) == {m \in Modules : StepOf[m] = step}
IsForced(source) == ForcedVersion[source] # Unset
Regular(m) == m \notin ClientModules /\ ~IsForced(SourceOf[m])

\* The modules of a source among the steps the session runs.
SourceModules(source, steps) ==
  {m \in Modules \ ClientModules : SourceOf[m] = source /\ StepOf[m] \in steps}

\* source.Version: the configured version, by default the stable tag.
BaseVersion(source) ==
  IF SourceVersion[source] = Unset THEN published[source] ELSE SourceVersion[source]

\* What getOldestVersion takes from the state: applied version, else version.
KnownVersion(m) == IF storedApplied[m] # Unset THEN storedApplied[m] ELSE storedVersion[m]

\* Mutant: the state is not asked what the modules have.
CandidatesOfConfig(source, steps) ==
  {BaseVersion(source)}
    \cup ({ModulePin[m] : m \in SourceModules(source, steps)} \cap Versions)

OldestCandidates(source, steps) ==
  {BaseVersion(source)}
    \cup ({ModulePin[m] : m \in SourceModules(source, steps)} \cap Versions)
    \cup ({KnownVersion(m) : m \in SourceModules(source, steps)} \cap Versions)

OldestVersion(source, steps) == Min(OldestCandidates(source, steps))

PinnedVersion(m) ==
  CASE ModulePin[m] = Unset -> BaseVersion(SourceOf[m])
    [] ModulePin[m] = Stable -> published[SourceOf[m]]
    [] OTHER -> ModulePin[m]

\* The upper end of GetReleases: open when a module asks for `stable`.
NewestVersion(source, steps) ==
  IF \/ OldestVersion(source, steps) = published[source]
     \/ \E m \in SourceModules(source, steps) : ModulePin[m] = Stable
  THEN published[source]
  ELSE Max({PinnedVersion(m) : m \in SourceModules(source, steps)})

\* getSourceReleases fails when the oldest or the newest version has no tag,
\* and when a source with a version of its own has no module to run.
ReleasesExist(source, steps) ==
  \/ OldestVersion(source, steps) = published[source]
  \/ /\ SourceModules(source, steps) # {}
     /\ OldestVersion(source, steps) <= published[source]
     /\ NewestVersion(source, steps) <= published[source]

\* source.Releases is oldest..newest: its length and its element at i.
NumReleases(source) == IF IsForced(source) THEN 0 ELSE newest[source] - oldest[source] + 1
ReleaseAt(source, i) == oldest[source] + i

\* A source that has run out of releases stays at its last one.
ReleaseNoLaterThan(source, i) == Smaller(oldest[source] + i, newest[source])
MostReleases == Max({NumReleases(source) : source \in Sources})
------------------------------------------------------------------------------
(***************************************************************************)
(* The version a module is executed with: getModuleVersion                 *)
(***************************************************************************)
\* The cases of getModuleVersion, in its order.
Forced(m) == m \notin ClientModules /\ IsForced(SourceOf[m])
PastReleases(source) == index > NumReleases(source) - 1
Release(m) == ReleaseAt(SourceOf[m], index)
Fresh(m) == stateApplied[m] = Unset
HeldBack(m) ==
  \/ PinnedVersion(m) = stateApplied[m] /\ PinnedVersion(m) < Release(m)
  \/ stateApplied[m] > Release(m)

\* The modules reported as changed: the others leave stateVersion as it was.
Follows(m) == ~PastReleases(SourceOf[m]) /\ (Fresh(m) \/ ~HeldBack(m))
Changed(m) == m \in ClientModules \/ Forced(m) \/ Follows(m)

VersionToExecute(m) ==
  IF m \in ClientModules THEN ModulePin[m]
  ELSE IF Forced(m) THEN ForcedVersion[SourceOf[m]]
  ELSE IF PastReleases(SourceOf[m]) THEN PinnedVersion(m)
  ELSE IF Fresh(m) THEN Smaller(PinnedVersion(m), Release(m))
  ELSE IF HeldBack(m) THEN stateApplied[m]
  ELSE Release(m)

StepAutoApprove(approve) == approve # "always"

\* Mutant: the comparison of the major segments the wrong way round.
ApprovesUpgrades(from, to, approve) ==
  \/ approve = "never"
  \/ approve = "major" /\ Major[from] <= Major[to]
  \/ approve = "minor" /\ Major[from] >= Major[to] /\ Minor[from] >= Minor[to]

ModuleAutoApprove(from, to, approve) ==
  \/ approve = "never"
  \/ approve = "major" /\ Major[from] >= Major[to]
  \/ approve = "minor" /\ Major[from] >= Major[to] /\ Minor[from] >= Minor[to]

\* Only a module that moves from an applied version to a release is looked at.
AutoApproveOf(m) ==
  IF m \notin ClientModules /\ ~Forced(m) /\ Follows(m) /\ ~Fresh(m)
  THEN ModuleAutoApprove(stateApplied[m], Release(m), Approve[StepOf[m]])
  ELSE StepAutoApprove(Approve[StepOf[m]])

\* getAutoApprove: what the pipeline of a step is told.
AutoApproved(step) == \A m \in ModulesOf(step) : autoApprove[m]

(***************************************************************************)
(* Whether a step is executed, and how: updateStepFiles, hasChanged,       *)
(* appliedVersionMatchesRelease                                            *)
(***************************************************************************)
ExecutePipelines(step) == step \in ArgoCDSteps \/ \E m \in ModulesOf(step) : Changed(m)

\* Mutant: the checksum of the wrong module is compared.
FirstFilesChanged(m) ==
  LET was == previous[SourceOf[m]]
      is == current[SourceOf[m]]
  IN {was, is} \subseteq Versions => Content[1][was] # Content[1][is]

FilesChanged(m) ==
  LET was == previous[SourceOf[m]]
      is == current[SourceOf[m]]
  IN {was, is} \subseteq Versions => Content[m][was] # Content[m][is]

HasChanged(step) ==
  \E m \in ModulesOf(step) : m \in ClientModules \/ FilesChanged(m)

\* The loop over the modules returns TRUE at the first forced one it accepts.
AppliedMatches(m) ==
  /\ stateApplied[m] # Unset
  /\ Forced(m) \/ stateApplied[m] = ReleaseNoLaterThan(SourceOf[m], index)

AppliedVersionMatchesRelease(step) ==
  \A m \in ModulesOf(step) \ ClientModules :
    \/ AppliedMatches(m)
    \/ \E k \in ModulesOf(step) : k < m /\ Forced(k)

FirstRun(step) == step \notin firstRunDone
RunsParallel(step) == FirstRun(step) /\ allowParallel /\ AppliedVersionMatchesRelease(step)
------------------------------------------------------------------------------
Init ==
  /\ published = [source \in Sources |-> 1]
  /\ deployed = [m \in Modules |-> Unset]
  /\ storedVersion = [m \in Modules |-> Unset]
  /\ storedApplied = [m \in Modules |-> Unset]
  /\ stateVersion = [m \in Modules |-> Unset]
  /\ stateApplied = [m \in Modules |-> Unset]
  /\ autoApprove = [m \in Modules |-> FALSE]
  /\ cmd = "run" /\ selected = {} /\ index = 0 /\ phase = "idle"
  /\ oldest = [source \in Sources |-> 1] /\ newest = [source \in Sources |-> 1]
  /\ todo = {} /\ retries = {} /\ retrying = FALSE /\ failed = {}
  /\ allowParallel = FALSE /\ firstRunDone = {}
  /\ previous = [source \in Sources |-> Unset]
  /\ current = [source \in Sources |-> Unset]
  /\ executing = [m \in Modules |-> Unset]
  /\ pipeline = [step \in Steps |-> "none"]
  /\ parallel = {} /\ cancelled = FALSE

\* PutFile of the state file: the bucket takes the whole state, or nothing.
PutStateFile == storedVersion' = stateVersion' /\ storedApplied' = stateApplied'

\* The process is gone: only the bucket, the cloud and the tags remain. The
\* values of the session are reset, so that idle states do not differ in them.
SessionOver ==
  /\ phase' = "idle" /\ cmd' = "run" /\ selected' = {} /\ index' = 0
  /\ oldest' = [source \in Sources |-> 1] /\ newest' = [source \in Sources |-> 1]
  /\ todo' = {} /\ retries' = {} /\ retrying' = FALSE /\ failed' = {}
  /\ allowParallel' = FALSE /\ firstRunDone' = {} /\ cancelled' = FALSE
  /\ previous' = [source \in Sources |-> Unset]
  /\ current' = [source \in Sources |-> Unset]
  /\ executing' = [m \in Modules |-> Unset]
  /\ pipeline' = [step \in Steps |-> "none"] /\ parallel' = {}
  /\ autoApprove' = [m \in Modules |-> FALSE]
  /\ UNCHANGED published

\* Memory is lost with the process: the next session reads the bucket.
Forget == stateVersion' = storedVersion' /\ stateApplied' = storedApplied'

(***************************************************************************)
(* Between sessions a source publishes its next release. Tags are read     *)
(* when a session starts, so a later tag is one of the next session's.     *)
(***************************************************************************)
Publish(source) ==
  /\ phase = "idle" /\ published[source] < MaxVersion
  /\ published' = [published EXCEPT ![source] = @ + 1]
  /\ UNCHANGED <<deployed, stored, state, autoApprove, session, index, phase,
                 loop, allowParallel, firstRunDone, checksums, executing,
                 pipeline, parallel, cancelled>>

(***************************************************************************)
(* NewUpdater and the head of Process. A session that cannot start, or     *)
(* an update that finds no releases to go through, changes nothing.        *)
(***************************************************************************)
StartSession(command, steps, flag) ==
  /\ phase = "idle"
  /\ \A source \in Sources : IsForced(source) \/ ReleasesExist(source, steps)
  /\ cmd' = command /\ selected' = steps /\ allowParallel' = flag
  /\ oldest' = [source \in Sources |->
                  IF IsForced(source) THEN 1 ELSE OldestVersion(source, steps)]
  /\ newest' = [source \in Sources |->
                  IF IsForced(source) THEN 1 ELSE NewestVersion(source, steps)]
  /\ command = "update" => MostReleases' >= 2
  /\ index' = (IF command = "update" THEN 1 ELSE 0)
  /\ phase' = "begin"
  /\ UNCHANGED <<published, deployed, stored, state, autoApprove, loop,
                 firstRunDone, checksums, executing, pipeline, parallel, cancelled>>

(***************************************************************************)
(* The head of processRelease: an update takes the checksums of the        *)
(* release, or gives up when a source cannot be read. A source that has    *)
(* run out of releases keeps the checksums it has.                         *)
(***************************************************************************)
ReleaseChecksums(source) ==
  IF index # 1 /\ PastReleases(source) THEN current[source]
  ELSE IF IsForced(source) THEN ForcedVersion[source]
  ELSE ReleaseNoLaterThan(source, index)

BeginRelease ==
  /\ phase = "begin" /\ phase' = "steps"
  /\ todo' = selected /\ retries' = {} /\ retrying' = FALSE /\ failed' = {}
  /\ current' = IF cmd = "update"
                THEN [source \in Sources |-> ReleaseChecksums(source)]
                ELSE current
  /\ UNCHANGED <<external, stored, state, autoApprove, session, index,
                 allowParallel, firstRunDone, previous, executing, pipeline,
                 parallel, cancelled>>

BeginFails ==
  /\ phase = "begin" /\ cmd = "update"
  /\ UNCHANGED <<deployed, stored>>
  /\ SessionOver /\ Forget

\* Mutant: the steps are taken in the order of a map, not of the config.
InAnyOrder(step) == step \in todo

(***************************************************************************)
(* processStep, for the first step left in the running loop. An error      *)
(* leaves the loop; in the loop of retrySteps it ends the session.         *)
(***************************************************************************)
IsNext(step) == step \in todo /\ \A other \in todo : step <= other

StepDone(step) ==
  /\ phase' = "steps" /\ todo' = todo \ {step}
  /\ UNCHANGED <<published, session, index, retries, retrying, failed,
                 allowParallel, checksums, cancelled>>

StepFails(step) ==
  \/ /\ ~retrying
     /\ phase' = "steps" /\ todo' = {} /\ failed' = failed \cup {step}
     /\ UNCHANGED <<published, autoApprove, session, index, retries, retrying,
                    allowParallel, firstRunDone, checksums, executing, parallel,
                    cancelled>>
     /\ pipeline' = [pipeline EXCEPT ![step] = "none"]
  \/ retrying /\ SessionOver

\* updateModuleVersions, under stateLock. It stops at a module the release
\* does not have, or fails to save; what it has set stays in memory.
ResolveVersions(step) ==
  /\ phase = "steps" /\ IsNext(step) /\ phase' = "prepare"
  /\ stateVersion' = [m \in Modules |->
       IF StepOf[m] = step /\ Changed(m) THEN VersionToExecute(m) ELSE stateVersion[m]]
  /\ autoApprove' = [m \in Modules |->
       IF StepOf[m] = step THEN AutoApproveOf(m) ELSE autoApprove[m]]
  /\ executing' = [m \in Modules |->
       IF StepOf[m] = step THEN VersionToExecute(m) ELSE executing[m]]
  /\ UNCHANGED stateApplied /\ PutStateFile
  /\ UNCHANGED <<external, session, index, loop, allowParallel,
                 firstRunDone, checksums, pipeline, parallel, cancelled>>

ResolveFails(step) ==
  /\ phase = "steps" /\ IsNext(step)
  /\ UNCHANGED <<deployed, stored>>
  /\ \E reached \in ModulesOf(step) :
       IF retrying THEN Forget
       ELSE /\ stateVersion' = [m \in Modules |->
                 IF StepOf[m] = step /\ m <= reached /\ Changed(m)
                 THEN VersionToExecute(m) ELSE stateVersion[m]]
            /\ UNCHANGED stateApplied
  /\ StepFails(step)

\* processModules reads the files of every module at the version it executes,
\* which must be a tag of the source.
Prepared(step) ==
  /\ phase = "prepare" /\ IsNext(step)
  /\ \A m \in ModulesOf(step) : Regular(m) => executing[m] <= published[SourceOf[m]]

\* A value the step takes from the output of another one is not there yet:
\* wait for the goroutines and try again, when there are any.
RetryLater(step) ==
  /\ Prepared(step) /\ parallel # {}
  /\ retries' = retries \cup {step} /\ todo' = todo \ {step} /\ phase' = "steps"
  /\ UNCHANGED <<external, stored, state, autoApprove, session, index, retrying,
                 failed, allowParallel, firstRunDone, checksums, executing,
                 pipeline, parallel, cancelled>>

\* Any other error before applyRelease, or that one with nothing to wait for.
PrepareFails(step) ==
  /\ phase = "prepare" /\ IsNext(step)
  /\ UNCHANGED <<deployed, stored>>
  /\ IF retrying THEN Forget ELSE UNCHANGED state
  /\ StepFails(step)

(***************************************************************************)
(* applyRelease                                                            *)
(***************************************************************************)
SkipStep(step) ==
  /\ Prepared(step)
  /\ ~ExecutePipelines(step) /\ ~FirstRun(step)
  /\ StepDone(step)
  /\ UNCHANGED <<deployed, stored, state, autoApprove, firstRunDone, executing,
                 pipeline, parallel>>

\* Mutant: the modules of all steps are recorded.
MarkAllApplied(step) ==
  /\ stateApplied' = [m \in Modules |-> IF stateVersion[m] # Unset
                                         THEN stateVersion[m] ELSE stateApplied[m]]
  /\ UNCHANGED stateVersion

\* putAppliedStateFile: every module of the step is recorded as applied at
\* the version the state holds for it.
MarkApplied(step) ==
  /\ stateApplied' = [m \in Modules |->
       IF StepOf[m] = step THEN stateVersion[m] ELSE stateApplied[m]]
  /\ UNCHANGED stateVersion

Unchanged(step) ==
  Prepared(step) /\ ExecutePipelines(step) /\ ~FirstRun(step) /\ ~HasChanged(step)

RecordUnchanged(step) ==
  /\ Unchanged(step)
  /\ MarkApplied(step) /\ PutStateFile /\ StepDone(step)
  /\ UNCHANGED <<deployed, autoApprove, firstRunDone, executing, pipeline, parallel>>

RecordUnchangedFails(step) ==
  /\ Unchanged(step)
  /\ UNCHANGED <<deployed, stored>>
  /\ IF retrying THEN Forget ELSE MarkApplied(step)
  /\ StepFails(step)

\* executePipeline on the main goroutine, which waits for it.
StartPipeline(step) ==
  /\ Prepared(step) /\ ~RunsParallel(step)
  /\ ~FirstRun(step) => ExecutePipelines(step) /\ HasChanged(step)
  /\ pipeline' = [pipeline EXCEPT ![step] = "running"] /\ phase' = "wait"
  /\ UNCHANGED <<external, stored, state, autoApprove, session, index, loop,
                 allowParallel, firstRunDone, checksums, executing, parallel,
                 cancelled>>

\* executePipeline in a goroutine: the loop goes on with the next step.
StartParallel(step) ==
  /\ Prepared(step) /\ RunsParallel(step)
  /\ pipeline' = [pipeline EXCEPT ![step] = "running"]
  /\ parallel' = parallel \cup {step}
  /\ firstRunDone' = firstRunDone \cup {step}
  /\ StepDone(step)
  /\ UNCHANGED <<deployed, stored, state, autoApprove, executing>>

(***************************************************************************)
(* executePipeline: the step's own goroutine, or the main one in "wait"    *)
(***************************************************************************)
InPlace(steps) ==
  deployed' = [m \in Modules |-> IF StepOf[m] \in steps THEN executing[m] ELSE deployed[m]]

PipelineSucceeds(step) ==
  /\ pipeline[step] = "running"
  /\ pipeline' = [pipeline EXCEPT ![step] = "applied"]
  /\ InPlace({step})
  /\ UNCHANGED <<published, stored, state, autoApprove, session, index, phase,
                 loop, allowParallel, firstRunDone, checksums, executing,
                 parallel, cancelled>>

\* The error of a goroutine goes to errChan, which is read after wg.Wait().
ParallelFails(step) ==
  /\ step \in parallel
  /\ pipeline' = [pipeline EXCEPT ![step] = "none"]
  /\ failed' = failed \cup {step} /\ parallel' = parallel \ {step}
  /\ UNCHANGED <<published, autoApprove, session, index, phase, todo, retries,
                 retrying, allowParallel, firstRunDone, checksums, executing,
                 cancelled>>

\* A pipeline that fails may have put in place what it was given, or not.
PipelineFails(step) ==
  /\ pipeline[step] = "running"
  /\ InPlace({step}) \/ UNCHANGED deployed
  /\ UNCHANGED stored
  /\ \/ ParallelFails(step) /\ UNCHANGED state
     \/ /\ step \notin parallel /\ StepFails(step)
        /\ IF retrying THEN Forget ELSE UNCHANGED state

RecordApplied(step) ==
  /\ pipeline[step] = "applied"
  /\ MarkApplied(step) /\ PutStateFile
  /\ pipeline' = [pipeline EXCEPT ![step] = "none"]
  /\ \/ step \in parallel /\ UNCHANGED <<published, session, index, phase, loop,
                                         allowParallel, firstRunDone, checksums, cancelled>>
     \/ /\ step \notin parallel /\ StepDone(step)
        /\ firstRunDone' = firstRunDone \cup {step}
  /\ parallel' = parallel \ {step}
  /\ UNCHANGED <<deployed, autoApprove, executing>>

\* The pipeline has succeeded but the bucket refuses the state file.
RecordAppliedFails(step) ==
  /\ pipeline[step] = "applied"
  /\ UNCHANGED <<deployed, stored>>
  /\ \/ ParallelFails(step) /\ MarkApplied(step)
     \/ /\ step \notin parallel /\ StepFails(step)
        /\ IF retrying THEN Forget ELSE MarkApplied(step)

\* Mutant: wg.Wait() is missing.
LoopEndsWithoutWaiting ==
  /\ phase = "steps" /\ todo = {}
  /\ ~cancelled \/ retrying
  /\ phase' = "save"
  /\ UNCHANGED <<external, stored, state, autoApprove, session, index, loop,
                 allowParallel, firstRunDone, checksums, executing, pipeline,
                 parallel, cancelled>>

(***************************************************************************)
(* The rest of processRelease, once the loop and its goroutines are done   *)
(***************************************************************************)
\* wg.Wait(), then ctx.Err(): a cancelled release is left as it stands.
LoopEnds ==
  /\ phase = "steps" /\ todo = {} /\ parallel = {}
  /\ ~cancelled \/ retrying
  /\ phase' = "save"
  /\ UNCHANGED <<external, stored, state, autoApprove, session, index, loop,
                 allowParallel, firstRunDone, checksums, executing, pipeline,
                 parallel, cancelled>>

ReleaseCancelled ==
  /\ phase = "steps" /\ todo = {} /\ parallel = {}
  /\ cancelled /\ ~retrying
  /\ UNCHANGED <<deployed, stored>> /\ SessionOver /\ Forget

\* putStateFileOrDie refused, or steps failed: Process returns the error.
ReleaseFails ==
  /\ phase = "save"
  /\ \/ UNCHANGED stored
     \/ failed # {} /\ storedVersion' = stateVersion /\ storedApplied' = stateApplied
  /\ SessionOver /\ Forget /\ UNCHANGED deployed

\* Mutant: what has been retried stays on the list.
RetryStepsAgain ==
  /\ phase = "save" /\ failed = {} /\ retries # {}
  /\ UNCHANGED state /\ PutStateFile
  /\ phase' = "steps" /\ todo' = retries /\ retries' = retries /\ retrying' = TRUE
  /\ allowParallel' = FALSE
  /\ UNCHANGED <<external, autoApprove, session, index, failed, firstRunDone,
                 checksums, executing, pipeline, parallel, cancelled>>

RetrySteps ==
  /\ phase = "save" /\ failed = {} /\ retries # {}
  /\ UNCHANGED state /\ PutStateFile
  /\ phase' = "steps" /\ todo' = retries /\ retries' = {} /\ retrying' = TRUE
  /\ allowParallel' = FALSE
  /\ UNCHANGED <<external, autoApprove, session, index, failed, firstRunDone,
                 checksums, executing, pipeline, parallel, cancelled>>

\* Mutant: the steps put off are forgotten.
ReleaseDoneWithoutRetries == phase = "save" /\ failed = {}

\* Mutant: off by one.
MoreReleasesButOne == cmd = "update" /\ index + 2 < MostReleases

\* The release is applied: an update goes on with the next one.
ReleaseDone == phase = "save" /\ failed = {} /\ retries = {}
MoreReleases == cmd = "update" /\ index + 1 < MostReleases

NextRelease ==
  /\ ReleaseDone /\ MoreReleases
  /\ UNCHANGED state /\ PutStateFile
  /\ phase' = "begin" /\ index' = index + 1 /\ previous' = current
  /\ UNCHANGED <<external, autoApprove, session, loop, allowParallel,
                 firstRunDone, current, executing, pipeline, parallel, cancelled>>

SessionSucceeds ==
  /\ ReleaseDone /\ ~MoreReleases
  /\ storedVersion' = stateVersion /\ storedApplied' = stateApplied
  /\ SessionOver /\ Forget /\ UNCHANGED deployed

(***************************************************************************)
(* The context is cancelled by a signal; the process is killed. A pipeline *)
(* in the cloud does not stop with the agent that waits for it.            *)
(***************************************************************************)
Cancel ==
  /\ phase # "idle" /\ ~cancelled /\ cancelled' = TRUE
  /\ UNCHANGED <<external, stored, state, autoApprove, session, index, phase,
                 loop, allowParallel, firstRunDone, checksums, executing,
                 pipeline, parallel>>

Crash ==
  /\ phase # "idle"
  /\ \E finished \in SUBSET {step \in Steps : pipeline[step] = "running"} : InPlace(finished)
  /\ UNCHANGED stored /\ SessionOver /\ Forget
------------------------------------------------------------------------------
ProcessStep(step) ==
  \/ ResolveVersions(step) \/ ResolveFails(step)
  \/ RetryLater(step) \/ PrepareFails(step)
  \/ SkipStep(step) \/ RecordUnchanged(step) \/ RecordUnchangedFails(step)
  \/ StartPipeline(step) \/ StartParallel(step)

ExecutePipeline(step) ==
  \/ PipelineSucceeds(step) \/ PipelineFails(step)
  \/ RecordApplied(step) \/ RecordAppliedFails(step)

Process ==
  \/ BeginRelease \/ BeginFails
  \/ \E step \in Steps : ProcessStep(step)
  \/ LoopEnds \/ ReleaseCancelled \/ ReleaseFails
  \/ RetrySteps \/ NextRelease \/ SessionSucceeds

Environment ==
  \/ \E source \in Sources : Publish(source)
  \/ \E command \in {"run", "update"}, steps \in Selections, flag \in ParallelFlag :
       StartSession(command, steps, flag)
  \/ Cancel \/ Crash

Next == Process \/ (\E step \in Steps : ExecutePipeline(step)) \/ Environment

Spec == Init /\ [][Next]_vars

(***************************************************************************)
(* The main goroutine runs as long as it can; every pipeline execution     *)
(* ends, one way or the other. Nobody has to start, cancel or kill one.    *)
(***************************************************************************)
Fairness ==
  WF_vars(Process) /\ \A step \in Steps : WF_vars(ExecutePipeline(step))
FairSpec == Spec /\ Fairness
------------------------------------------------------------------------------
(***************************************************************************)
(* Properties                                                              *)
(***************************************************************************)
SameFiles(m, v, w) == v # Unset /\ w # Unset /\ Content[m][v] = Content[m][w]

\* A module that has been recorded moves release by release: the state file
\* never goes back, nor past a release that was not applied to the module.
\* (getOldestVersion, getModuleVersion and Process together; several sessions,
\* failed, cancelled or killed, of any commands and steps.)
NoReleaseSkipped ==
  [][\A m \in Modules : Regular(m) /\ storedApplied[m] # Unset =>
       storedApplied'[m] \in {storedApplied[m], storedApplied[m] + 1}]_vars

\* What the state file calls applied is what the last pipeline of the step
\* put in place, or a release whose files of the module are the same.
RecordsWhatIsDeployed ==
  [][\A m \in Modules : storedApplied'[m] # storedApplied[m] =>
       SameFiles(m, storedApplied'[m], deployed'[m])]_vars

\* With approve = major, a pipeline that moves an applied module over a major
\* version is never told to approve itself (README, Auto approval logic).
MajorChangeNeedsApproval ==
  \A step \in Steps : pipeline[step] = "running" /\ Approve[step] = "major" /\ AutoApproved(step) =>
    \A m \in ModulesOf(step) : Regular(m) /\ storedApplied[m] # Unset =>
      \/ Major[executing[m]] <= Major[deployed[m]]
      \/ SameFiles(m, executing[m], deployed[m])

\* No goroutine outlives the loop that started it: the state is saved, the
\* next release begun and the retries made (AllowParallel is off by then, and
\* errChan is nil) with nothing else in flight.
NothingOutlivesTheLoop ==
  phase \in {"begin", "save"} \/ retrying =>
    \A step \in Steps : pipeline[step] # "none" =>
      phase = "wait" /\ IsNext(step) /\ step \notin parallel

\* While a step is applied by the main goroutine, each step before it has
\* the release already, or runs it again in a goroutine, or has failed to, or
\* is put off to the retries: a step never runs ahead of what it builds on. Of a
\* new module whose source has fewer releases than another, which is run but not
\* recorded, nothing is known (as in UpdateReachesVersions).
HasRelease(m) ==
  \/ stateApplied[m] >= Smaller(PinnedVersion(m), ReleaseNoLaterThan(SourceOf[m], index))
  \/ Fresh(m) /\ PastReleases(SourceOf[m])
EarlierStepsFirst ==
  phase = "wait" /\ ~retrying =>
    \A step \in Steps \ parallel, earlier \in selected :
      pipeline[step] # "none" /\ earlier < step =>
        \/ earlier \in parallel \cup failed \cup retries
        \/ \A m \in ModulesOf(earlier) : Regular(m) => HasRelease(m)

\* An update that reports success has brought every module it was asked to
\* run to its version, in place and in the state file; a new module whose source
\* has fewer releases than another is not recorded before the next session
\* (getModuleVersion: such a module is run, but has not changed).
UpdateReachesVersions ==
  [][SessionSucceeds /\ cmd = "update" =>
       \A m \in Modules : Regular(m) /\ StepOf[m] \in selected =>
         /\ SameFiles(m, PinnedVersion(m), deployed[m])
         /\ \/ storedApplied'[m] = PinnedVersion(m)
            \/ Fresh(m) /\ PastReleases(SourceOf[m])]_vars

\* A session ends, whatever fails in it: no step is put off for ever and
\* wg.Wait() always returns.
SessionEnds == phase # "idle" ~> phase = "idle"
==============================================================================
