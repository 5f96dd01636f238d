# Entigo infralib agent: a TLA+ model

The agent applies versioned infrastructure modules to a cloud account. It reads
a configuration, finds the releases of the module sources between what is
installed and what is asked for, generates the files of every configured step
for one release after the other, and lets a pipeline (AWS CodePipeline, Google
Cloud Deploy, or a local process) plan and apply each step. What was applied is
kept in a state file in a bucket. Inside a pipeline a small wrapper runs the
entrypoint and streams its output to a backend.

This directory holds TLA+ modules of the parts whose correctness depends on
orders of events, failures and several actors, the TLC configurations that
check them on small instances, and TLAPS proofs of what matters most for all
instances.

## Inventory

| Part | Source | State it keeps | Operations | What is hard | Module |
|---|---|---|---|---|---|
| Release processor | `service/update.go`, `model/workgroup.go` | `u.state` and its copy in the bucket, releases and checksums of the sources, retried and failed steps, `wg`, `errChan`, flags | `NewUpdater`, `Process`, `processRelease`, `processStep`, `applyRelease`, `executePipeline`, `retrySteps` | steps in goroutines, partial failure, sessions that die between a pipeline and the state file, release lists of different lengths | `Updater` |
| Log stream | `wrapper/client.go`, `wrapper/wrapper.go` | channels, pending batch and summary, the stream, `done`, `finished` | `Connect`, `SendLog`, `SendPlan`, `Disconnect`, `supervise`, `runEpoch`, `reconnect` | a stream that breaks at any point, retries without loss or duplicates, bounded waiting | `LogStream`, `LogDelivery` |
| Plan summary | `wrapper/plan.go`, `mapping.go` | none | parse a plan, map names | - | - |
| AWS pipelines | `aws/pipeline.go`, `codebuild.go`, `cloudwatch.go` | none in the agent; pipelines, executions and stages at AWS | create, update, start, wait, approve, stop | polling a state others change; executions of two sessions in one pipeline | `CodePipeline` |
| Google pipelines | `gcloud/deploy.go`, `job.go`, `logging.go` | none in the agent; releases, rollouts and jobs | the same | rollouts and jobs shared by all sessions, cancelling with a context that is over | `CloudDeploy` |
| Local pipeline | `service/local.go`, `terraform/`, `argocd/` | the terminal lock, the process output | plan, approve, apply | several goroutines, one terminal and one log | `LocalPipeline` |
| Approval decisions | `util/util.go` | none | `ShouldStopPipeline`, `ShouldApprovePipeline` | a table of cases shared by three providers | `Approval`, `StepPipeline` |
| Git destination | `git/dest.go` | worktree, local branches, the remote | `UpdateFiles`: checkout, pull, write, commit, push | a push that fails after the commit; other writers; a repository left by a session that died | `GitDestination` |
| Git source | `git/source.go` | current release of the worktree, pulled branches, cached trees | `GetFile`, `PathExists`, `CalculateChecksums` | checkouts under a mutex shared by goroutines; stale caches; a clone kept between sessions | `SourceCheckout`; release lists in `Updater` |
| Destroy, delete | `service/delete.go` | the state file | `Destroy`, `Delete` | one step of several failing; tools that were only half made | `Destroyer` with `DestroyState`; `Delete` in `CloudAccount` |
| Runner, agent | `service/runner.go`, `agent.go` | `finalize` | `Run`, `notifyTermination...`, `CreatePipeline`, `UpdateProjectImage` | cancellation against a last message; an agent that replaces itself | `RunMessages`; `CreatePipeline` in `CloudAccount` |
| Notifications | `notify/` | `pipelineIndex` | `Notify`, `fanout`, HTTP retries | order of messages of several goroutines, deadlines over retries | `RunMessages` |
| Configuration | `service/config.go`, `model/config.go` | files in the bucket | validate, merge, read and replace the included files | copies in the bucket that outlive the local files | - |
| Replacement | `service/replace.go` | outputs of steps | text substitution | precedence of the lookups | its one effect on control is in `Updater` |
| AWS resources | `aws/aws.go`, `iam.go`, `s3.go`, `dynamodb.go`, `scheduler.go` | none in the agent; the account | set up, service account, delete | long series of calls, each of which may fail; what exists is taken as it is; two sessions at once | `CloudAccount` with `AwsAccount` |
| Google resources | `gcloud/gcloud.go`, `iam.go`, `storage.go`, `apiusage.go` | none in the agent; the project | the same | the same | `CloudAccount` with `GoogleAccount` |
| Migration | `migrate/` | none | turn a state file into a script | - | - |
| Command line | `cli/`, `commands/`, `common/`, `main.go` | flags | dispatch | - | - |

How they interact: the runner builds an updater and calls `Process` once per
session. The updater asks a source client for releases, files and checksums,
puts files to the bucket (and to the git destinations), starts and waits for a
pipeline of each step through the provider, and sends messages to the
notification manager. Nothing is shared between sessions but the bucket, the
source repositories and the infrastructure itself. The wrapper runs in another
process, inside the pipeline, and reaches the backend only.

What makes each part correct, in one line: the processor never skips a release
of a module and records only what is deployed; the stream loses nothing while
it is up, repeats nothing when it is not, and never delays the work; a pipeline
is approved only for the plan it was decided on; a destination branch holds a
file set that was generated; a source returns the files of the release asked
for; an account is whole after a setup and empty after a delete; destroy stops
at the first step that fails and forgets only what is gone.

The hazards behind these lines are listed at their source lines in
`PROJECT.json`, each with the properties that cover it or the reason none does.

## Plan

Done, in this order: `Updater`, `LogDelivery` and `LogStream`,
`CodePipeline`, `GitDestination` and `SourceCheckout`, each with its proofs;
the accounts (`CloudAccount` over `AwsAccount` and `GoogleAccount`); what a
pipeline promises (`StepPipeline`, over `Approval`) and two implementations of
it (`CloudDeploy` and `LocalPipeline`), with their proofs in one module;
`Destroyer` and `RunMessages`, with theirs; last the proofs about
`CloudAccount`.

Left:

1. That `CodePipeline` implements `StepPipeline` as long as sessions do not
   overlap (with overlap it does not, see there).
2. Pure algorithms as operators: the included files of `service/config.go`,
   the lookup order of `replace.go`, the matching of `migrate/`.

## Updater

One module for the whole release processor, because its parts only make sense
together: `getModuleVersion` relies on what `putAppliedStateFile` wrote in an
earlier session, and both on the order in which `processRelease` runs steps.

State. `published` is the newest tag of each source; tags are the numbers up
to it, and `Major`, `Minor` give their semver segments. `deployed` is what the
cloud has. `storedVersion`/`storedApplied` are the two version fields of each
module in `state.yaml`, `stateVersion`/`stateApplied` the same fields of
`u.state`. `phase` is where the main goroutine is: `begin` (top of
`processRelease`), `steps` (its loop), `prepare` (in `processStep`, versions
resolved), `wait` (in `executePipeline` without a goroutine), `save` (after
`wg.Wait()`). `todo`, `retries`, `failed`, `parallel` are the loop's local
variables; `todo` in the order of the configuration is a set whose least
element is next (`IsNext`). `previous` and `current` are the releases whose
checksums a source holds; a checksum is a member of `Content`.

Actions. `Publish`; `StartSession` (`NewUpdater` and the head of `Process`:
oldest and newest releases); `BeginRelease`, `BeginFails`; `ResolveVersions`,
`ResolveFails` (`updateModuleVersions` under `stateLock`, with the save that
ends it); `RetryLater`, `PrepareFails` (the parameter error, any other);
`SkipStep`, `RecordUnchanged`, `RecordUnchangedFails`, `StartPipeline`,
`StartParallel` (the branches of `applyRelease`); `PipelineSucceeds`,
`PipelineFails`, `RecordApplied`, `RecordAppliedFails` (`executePipeline`);
`LoopEnds`, `ReleaseCancelled`, `ReleaseFails`, `RetrySteps`, `NextRelease`,
`SessionSucceeds` (what follows the loop); `Cancel`, `Crash`.

A pipeline is external here: it succeeds, or fails having changed the cloud or
not. A crash leaves running pipelines to finish or not. The bucket takes a
whole file or refuses it.

| Run | What it asks |
|---|---|
| `releases` | Sessions that run all steps or the first, with two sources that have releases of their own and a forced one, a pinned module and one that asks for `stable`, an argocd step, a module whose files do not change from 2 to 3: `RecordsWhatIsDeployed`, `MajorChangeNeedsApproval`, `NothingOutlivesTheLoop`, `EarlierStepsFirst`, `NoReleaseSkipped`, `UpdateReachesVersions`, and that every session ends (`SessionEnds`) |
| `major` | With sessions that run any selection of two steps of one module `MajorChangeNeedsApproval` is violated (below) |

`UpdateReachesVersions` has an exception in it: a new module of a source that
has run out of releases is executed by an update but, counting as unchanged, not
recorded before the next session. `EarlierStepsFirst` has the same one; in
`releases` it is not needed, as the first step is of the source with the most
releases, but the theorem, for any constants, does not hold without it.

Bounds: `MaxVersion` = 3 gives a middle release, so that one can be skipped and
a pin can lie strictly inside; two steps give an order and a parallel pair;
four modules give two of a step and one of each source. Parallel
execution is allowed, which it need not make use of. Session
count is not bounded: the session's variables are reset when it ends, so that
sequences of sessions of any length are covered.

Fairness: weak fairness of the main goroutine and of each
pipeline execution. The code justifies both: no operation of the main goroutine
waits for anything but a pipeline or `wg`, and each provider bounds or polls its
pipeline until it ends or the context is cancelled. Nobody is obliged to start,
cancel or kill a session, or to publish.

A finding, in `major`: `putAppliedStateFile` copies `Version` to
`AppliedVersion` for every module of the step, also where an earlier session
stored a `Version` it then failed to apply, so the next comparison of majors
starts from a version that was never there. In `releases` both sources change
their major at the second release already, and this does not happen. The same cause
makes `RecordsWhatIsDeployed` depend on the constants: with the sessions of
`major` a later session may hold a module at its old release, run its step for
the first time of the session, and record the release that was never applied.

A known limit that no run repeats: a client module (one that does not come from
a source of the agent's) takes the step's auto approval before anything else is
asked (update.go:1503), although README.md:536 requires manual approval for it.

Taken as one where the code has two: `wg` and its counter (a sleep of a second
stands between `Wait` and the next use). Not modelled: configuration changes
between sessions, a module that changes its source, and the text of files.

## LogStream

Three goroutines and a stream. `main` follows `Provision`; `supervisor` is
where `supervise`, `runEpoch`, `drainPending` and `reconnect` are; `receiver`
is `runReceive`. `logs`, `planSummary`, `done`, `finished` are the channels,
`pendingLogs` and `pendingPlan` what a failed send leaves. `flight` holds what
the stream has accepted and the server has not received. The other variables
are history, used by the properties only.

The stream is gRPC's, external: `Send` hands a message over or fails when the
stream is broken, it blocks while the flow-control window is full; a stream that
breaks loses what is in flight, a suffix of what was handed over; the server
takes the messages of a stream in order, and those of a stream before those of
the next. The server may stop reading at any time.

| Run | What it asks |
|---|---|
| `stream` | `EveryLineOnce`: handed over, pending and buffered lines together are the accepted ones, once each, in order. `UnbrokenStreamDelivers`, that the server sees a delivery (`ServerSeesDelivery`: refinement of `LogDelivery`), and that the caller gets back and all goroutines end (`ProvisionEnds`), with no assumption on network or server |

Bounds: four lines, a buffer of three and batches of two give a batch that is
full, one that is not, and a line that is dropped; two breaks give a second
failure of what the first left pending. Fairness: the goroutines and timers
run, and a cancelled context breaks its stream. Nothing is assumed of the
server.

`UnbrokenStreamDelivers` speaks of streams that never broke, and must: a batch
that `Send` accepted is lost with a stream that breaks before it is on the wire,
and the outcome then arrives on the next stream without it, although the comment
on `drainPending` says that what was sent before `Disconnect` arrives first.

Abstraction: `LogDelivery` is what the backend may rely on: some of the lines
taken, each once and in order, at most one summary, and after the outcome
nothing. `LogStream` implements it under the identity mapping of `accepted`,
`planned` and `arrived`.

## CodePipeline

The apply pipeline of one step at AWS, and the sessions of the agent that use
it. A session is `createExecutePipelines` of the updater: `CreateApplyPipeline`
(or the start of an existing pipeline), then `WaitPipelineExecution`. Every call
to AWS is a step, so that what one call returned may be old when the next one
is made; `pc` names the call that comes next (`create`, `disable`, `intercept`,
`stopAuto`, `enable`, `start`, then per tick `poll`, `list`, and out of `list`
`previous`/`stopPrevious`, `decide`, `stop`, `token`, `put`). `own` is
`executionId`, `status` the `approvalStatus`.

AWS and the people are external: executions pass the stages in the order they
start, a stage holds one, one that comes to wait for a stage supersedes an older
one that waits for it; a created pipeline starts once on its own, which happens
before the agent's wait for it is over; an action fails at any time, an approval
after an hour.

| Run | What it asks |
|---|---|
| `pipeline` | Sessions one after the other, each of which may die anywhere, the first creating the pipeline: `ApprovedAsDocumented` relates every approval by the agent to the plan of that execution and to the table of the documentation |
| `pipeline_shared` | Two sessions at once, one of which creates the pipeline: `ResultIsTrue`, `StopsNoNewer`, and `WaitEnds` under fairness of the sessions and of AWS; people need not do anything |

`NeedsPerson` (in `Approval`) is written from the documentation, `ShouldApprove`
and `ShouldStop` from the code. `ApprovedAsDocumented` holds of sessions that do
not overlap. With two at once it does not, a known limit: the decision is right,
but the token that is approved is that of whatever execution is in the stage by
then (pipeline.go:1114).
`WaitEnds` has an exception in it that is a hazard of the code: a session that
dies between `disableStageTransition` and `enableStageTransition` leaves a
pipeline (`Stranded`) in which all later executions wait.

Bounds: two sessions; two executions where they overlap, so that one of them
can wait for, supersede or overtake the other; a session that would start one
more stops there, which `WaitEnds` excepts (`BeyondBound`). Approval settings are one of each kind the decision tells apart;
`DecidesAsDocumented` is proved for all of them. Not modelled here: the destroy
pipeline (`Destroyer`) and the agent's own pipelines, the declarations of stages and
environment variables, the parsing of the plan's log.

## GitDestination

A git destination is a repository to which the agent pushes what it generated:
`NewDestClient` opens it and sees to the branches `plan` and `apply`,
`UpdateFiles` replaces the folder of a step by a set of files, commits and
pushes. The local repository is in the temporary directory and outlives the
session, which is what makes it more than a sequence of calls: a session starts
from whatever the last one left, while others push to the same branches.

State. `remote`, `tracking` and `local` map a ref to the sequence of its
commits, as the remote has it, as it was fetched last, and in the local
repository; a commit is its whole tree, folder by folder. `configured` holds the
branches in the local repository's configuration, which `localBranchExists`
reads and which is written apart from the reference itself (`CreateBranch`,
`SetReference`). `head` is checked out. `at` is the next call, `ref` the branch
`getRepo` is at. `planned` holds, for each step, the files with which its
pipeline runs, since `ApplyFiles` comes after it with the same files.
`unpushed` and `interrupted` are history.

Actions. `OpenRepo`, `CloneRepo`, `InitRepo` (`getRepo`); `BranchReady`,
`CreateBranch`, `SetReference`, `CheckoutNew`, `BranchExists`, `PushRef`
(`ensureBranch`, for one branch after the other); `PlanFiles`, `ApplyFiles` (the
calls of the updater, in any order between steps, as they come from goroutines;
the mutex of `UpdateFiles` admits one); `CheckoutCleanBranch` or its errors
`NoReference` and `NonFastForward`; `Commit`, `NoChanges` or `CannotRemove`
(files written, unused ones removed, changes looked for); `Push`, `PushFails`;
`UpdateFails` (any other error); `EndSession` anywhere, `LoseDirectory`; `Other`
writers.

go-git and the remote are external: a push without force, and a pull, take a
fast-forward only; a pull that finds nothing to fetch does not fail for a branch
that is ahead; a push that fails may have arrived. Worktree and index are no
state, because the forced checkout at the head of an update takes back what an
earlier one wrote or staged. One process uses a temporary directory; several
destinations share nothing, so one of them is modelled.

| Run | What it asks |
|---|---|
| `destination` | `RemoteKeepsHistory`, `WholeFolders`, `LocalIsPushed` |

A known limit: `UpdateFiles` pushes only after a commit of its own (dest.go:298).
A commit whose push failed stays in the local branch, and the next update with
the same files sees a clean worktree and returns without an error. `LocalIsPushed`
says that this is the only way to keep commits; it also means that when somebody
else pushes after such a failure, every later pull of the branch fails
(`NonFastForward`) until the directory is lost. That a repository can always be
opened again (`OpensAgain`) is proved only.

Bounds: five commits of the two branches together, two of which are their first:
three more let an update fail to push, another writer push, and a second update
follow. One step and one foreign folder; three file sets, of which two share a
path with other contents, one has a directory and one keeps files only in a
directory further down. No fairness: nothing is promised to happen, as an
update that fails is a warning.

Not modelled: a clone killed midway, the shallow history of a clone (only the
first pull of it could differ), branches deleted at the remote, credentials.

## SourceCheckout

A module source is read through a clone: files and checksums from its worktree,
in which one release at a time is checked out, and what exists in a release from
the trees of commits. The clone lies in the temporary directory (or where
`repoPath` says) and is kept between sessions; others commit to the branches and
publish tags at any time. What must not happen is that a session mixes the
contents of two commits under the name of one release.

State. `branches` and `tags` are the repository; `tracking`, `known` and `heads`
the refs of the clone (`refs/remotes/origin`, `refs/tags`, and the one branch of
its own); `worktree` the commit whose files are there, or `Broken`. `pulled`,
`current` (`currentRelease`) and `trees` (`treesCache`) are the client's, which
a new session starts without. `read`, `atStart` and `failed` are history. A
commit is a number that stands for its content, so that "not older" is `>=`.

Actions. `Clone`, `Open` with the reset of HEAD, `OpenBreaks`
(`getSourceRepo`, `openSourceRepo`, then `NewSourceClient`); `ReadCurrent`,
`Read`, `ReadBreaks` (`GetFile` and `CalculateChecksums`, both under the mutex
from `checkoutClean` to their last file, so each is one step); `LookUp`
(`getReleaseTree`, whose fetch may fail unnoticed); `EndSession`, `Killed` in a
checkout, `LoseDirectory`; `CommitTo` and `Tag` of the others.

go-git is external: a name resolves to a tag, else to a branch of the clone's
own, else to one of the remote; checking out a tag or a remote branch detaches
HEAD; a hard reset moves the branch HEAD is on, and nothing if HEAD is detached.
Tags do not move and nothing is deleted at the remote. Each source has a
directory of its own, and one process uses it.

| Run | What it asks |
|---|---|
| `source` | `ReadsRelease`: what is read for a release is of one commit, the one the clone has for it. `NothingStale`: no branch is seen as it was before the session |

That lookups agree with what is read (`LookupsMatchReads`) is proved only. Two
exceptions in the three are hazards of the code. After a checkout that fails half
way `currentRelease` still names the release before, so a caller that reads on
is given its files from a broken worktree (`ReadsRelease` holds until then).
And the name of the default branch resolves to the clone's own branch, which
nothing moves once HEAD is detached: lookups in it answer from the commit of the
first session, reads from the one just fetched; the properties about lookups
leave it out.

Bounds: two tags and two branches, one of them the default: a second release to
check out in between, of either kind. Three commits: the first, one between
sessions and one within. Sessions are not bounded. No fairness: every method
returns, and nobody has to call it.

Not modelled: sorting the versions, the checksums of directories, the mode of
go-git that Azure DevOps needs (a global of the library).

## CloudAccount, AwsAccount, GoogleAccount

What the agent needs in a cloud account and every command that makes or deletes
it: `bootstrap` and `run` (`local`: with a local pipeline) set it up, the
service account commands (`user`, `trust`) add an account with a key or with
trust in another, `delete` takes everything away. There is no transaction: a
session is a series of calls, each of which may fail, and what an earlier
session left is found again. Roles, users and buckets that are found are
returned as they are, so a setup that was broken off between making a role and
attaching its policies is never completed. The properties say that this is the
only way to lose a part, and which parts a setup repairs all the same.

`AwsAccount` and `GoogleAccount` have the parts of an account and the sequences
of calls (`Setup`, `CreateServiceAccount`, `Delete` name the functions of the
code they follow), in the vocabulary of `AccountCalls`; `CloudAccount` has the
sessions that make them, for either.

State. `parts` exist; `pages` is what the listing of the bucket's versions
returns, page by page; `saVersions` counts the versions of the policy of the
service account. A session is `command` and `todo`, the calls it has yet to
make: `Make`, `Look` (replaced by the calls that follow what it found),
`Remove` (an error ends the session), `Try` and `Truncate` (an error is a
warning, and skips what the code skips), `UpdatePolicy`. `takes`, `warned`,
`failed`, `refused`, `overlapped`, `listing` and `unfinished` are history, used
by the properties only. `Family` lists, with each part, those the code makes only
right after it.

Actions. `BeginSetup`, `BeginServiceAccount`, `BeginDelete` put the calls of a
command into `todo`; `LookUp`, `MakePart`, `UpdateSAPolicy`,
`RemovePart`, `RemovalRefused`, `RemovalFails`, `TruncateBucket`,
`TruncateFails` make the next one; `End`; `BreaksOff` (an error or a kill),
`Collides`, `UpdateCollides` (the part is there, or what it needs is gone, since
the session looked: among them the nil that `CreateRole` and `CreateUser` return
for one that exists, and the operation `createTarget` has not got when its target
exists by then, deploy.go:166-173; both are dereferenced); `FilesChange`. The
clouds are external: what a part needs to be made (`Needs`), what goes with it
(`Contents`) and what AWS refuses to delete (`RefusedParts`).

| Run | What it asks |
|---|---|
| `account` | `MissingWasLeftUndone`: a part is missing only where a session was broken off, or one that deletes got half way. `SetupCompletes`: after a setup all else is there, and what it repairs whatever happened. `DeleteLeavesNothing`: a delete without warnings took all that was asked. `DeleteInOrder`: what the cloud refuses is never due to the order of the calls |

Google's setup repairs more than AWS's: it adds the roles of the agent's account
whether the account was there or not. Its delete, on the other hand, first makes
the targets that are missing, without a service account.

Limits of the code that show. A service account's policy at AWS that has been
updated cannot be deleted, as `DeletePolicy` deletes no versions. Emptying the
bucket stops at the first page of the listing without a version (then without a
marker), so that a bucket with several pages may need several deletes. And once
bucket and configuration are gone the flags are dropped, so repeating
`delete --delete-service-account` does not reach a service account that the
first one failed to delete (`BeginDelete`).

Bounds: two sessions at a time and any number after each other; two failures or
kills, so that a session can meet what another left and fail as well; a session
makes only the calls about the parts of a scope, a part of one account that has
with each part what it needs, what it is made with and what it belongs to
(`ScopesAssumption`; the whole account is one), since calls about different
groups do not depend on each other: `Chapters` are twelve such groups, and the
theorems are about any. The states are compared by `VIEW Seen`, which leaves out
the calls about other parts, never made, and of the history of a session what no
property asks of its command; neither is read by a guard. Two versions of the
policy where AWS keeps five, which is enough to reach the limit; listings of two
and three pages. Sessions are symmetric. No fairness: nothing is promised to
happen, a session may end at any call.

Not modelled: encryption with a key (`AddEncryption`), the retention of log
groups, the trust policy of a role, the trusted principal and the expression of a
schedule that exist, secrets and parameters (among them the one that holds a key),
the repair of a target that does not require approval, changes of the steps
between sessions.

## Approval and StepPipeline

`Approval` has the decision that all three providers share: from what the plan
found, the step's properties and the command, is it stopped, approved by the
agent, or left to a person. `NeedsPerson` says the same from the documentation.

`StepPipeline` is what the updater may rely on when it runs the pipeline of a
step, whoever provides it: it plans once; it is applied only with consent, which
the agent gives where `NeedsPerson` does not ask for a person's; a run that
returns without an error has been applied, or its plan found nothing to apply.
`CloudDeploy` and `LocalPipeline` implement it (`KeepsPromise`): the runs are the
sessions and the steps, plan and result are the same, consent is who approved
the rollout or answered the question, applied follows the execution of the apply
job or command. `CodePipeline` does not: with two sessions at once the consent
may be that for another plan.

## CloudDeploy

The pipeline of one step at Google Cloud and the sessions that run it. A session
puts the manifests of two jobs into the bucket, makes a release of what the
bucket holds, rolls it out to the plan target, which replaces the definition of
the plan job, and executes that job; if the plan is not stopped the same follows
for apply, whose target requires approval. Bucket, targets and jobs are shared
by all sessions of the step, and jobs are executed by name.

State. `bundle` is whose manifests are in the bucket, `release`, `render`,
`rollout` the release of each session and its two rollouts, `job` whose
definition each job has, `execution` and `ran` the executions and the definition
they took. `pc` names the next call; `notified` whether a person has been asked.
Actions up to `CreateRelease` are `CreatePipeline` and `StartPipelineExecution`,
those after it `WaitPipelineExecution`, poll by poll; `Fails` is an error, a
cancelled context or a kill at any call, after which what the session began goes
on. Cloud Deploy is external: a target takes one rollout at a time, a rollout
ends either way, a person may approve or reject at any time.

| Run | What it asks |
|---|---|
| `cloud` | Two sessions, one after the other: `DefinitionsAreOwn`, `KeepsPromise`, and `WaitEnds` |

`ApplyTimesOut` shows a limit of the code: the rollout that is not approved in an
hour is cancelled with the context whose hour is over, so the call never leaves
the process and the rollout stays. A person who approves it later brings
back the old definition of the job, which a later session may execute. A rollout
that waits for its target when its session ends does the same, as it begins when
a later session's has succeeded. `DefinitionsAreOwn` excepts these two (`late`).

Bounds: two sessions, so that one meets what the other left; the second kind of
`late` takes three, which `DefinitionsOwn` covers, as it is for any number. They
do not overlap, as sessions that do share a job and hence a definition by
construction. Three
kinds of approval and four plans. Fairness: a session goes on, and executions
end, as the job's `TimeoutSeconds` makes them; strong fairness for
`ApplyTimesOut` because calls made from inside the loop come in between.
Nobody has to approve.

## LocalPipeline

Steps that the agent runs itself, in parallel goroutines that share a terminal
and the log. `getManualApproval` takes a lock, turns the log to a buffer, prints
its question, reads a line, restores the log, prints the buffer and unlocks.
Commands write to the writer the log had when they began, which the log does not
serialise.

State. `pc` per step; `lock`, `log` (the terminal or a step's buffer),
`original`, `buffer`, `writer`; `question` on the terminal and the `line` that a
person typed. `readFor`, `via`, `printed` and `shared` are history: which
question an answer was typed for, where a message went, how often the terminal
shows it, which buffers a command writes to.

| Run | What it asks |
|---|---|
| `local` | Two steps in parallel: `AnswerIsForItsQuestion`, `LogComesBack`, `KeepsPromise`, and `StepsEnd` |

A limit of the code is the exception in `LogComesBack`: a command that begins
while a question of another step is open keeps that step's buffer, also when it
has been printed; what it writes may be lost.

Bounds: two steps, one message of each command. Fairness: commands end, input
that is read ends or brings a yes or no in the end.

## Destroyer

What a session that runs a step prepares for its destruction, and the destroy
command, which runs the steps from the last to the first and removes each from
the state file. At AWS a destroy pipeline is made, whose first execution starts
by itself, so its transitions are disabled and the execution is stopped; at
Google Cloud two jobs are made; a local pipeline needs nothing.

State. `infra` is what is there, `listed` the state file, `tools` and `closed`
what there is to destroy a step with and which transitions are disabled, `place`
where the executions are; `pc`, `at`, `selected`, `known` are the session's.
`asked` and `early` are history. Actions follow `CreatePipeline`,
`CreateDestroyPipeline`, `WaitPipelineExecution` for a run and
`StartDestroyExecution`, `removeStepFromState` for a destroy.

| Run | What it asks |
|---|---|
| `destroyer` | `DestroyedWhenAsked`, `AppliedCanBeDestroyed`, `InReverse`, `ForgetsOnlyGone`, `GoneAreForgotten` |

Limits of the code: a destroy leaves the transitions enabled, and a run killed
between making the destroy pipeline and disabling its transitions never disables
them later, as it then finds the pipeline. What keeps the infrastructure is the
approval stage (`DestroyedWhenAsked`). A step without its pipeline or jobs is
skipped with a warning, and stays in the state file.

Bounds: two steps give an order; three sessions let a run be followed by a
destroy and that by another; two executions of a destroy pipeline at a time, one
pipeline started by a person at a time. An apply that waits for approval when
its session has ended is approved before the next session or not at all, as an
approval expires; a job of Google Cloud that is left running counts as ended
before the kill. No fairness.

## RunMessages

`Run` with its messages: the loops of `Process` and `processRelease` as far as
they tell something, the fan-out to the notifiers, the API client, and the
signal.

State. `main` is where `Run` is, `release` and `at` where the loops are; steps
in goroutines are `running` or `recording` and send messages of their own.
`post` holds, for each goroutine, the message it is sending and the attempts per
notifier; a goroutine that sends waits for all notifiers. `cancelled` and
`finalize` are the context and the `sync.Once`. `heard`, `told` and `lost` are
history. A message is a record of its level, release, step, attempt and status.

Actions. `Started` to `NotifyTerminationIfCanceled` are `Run` and `Process`;
`BeginStep`, `ApplyRelease`, `ExecutePipeline`, `PutAppliedStateFile`,
`StepsDone`, `Barrier` are `processRelease`, its retries included; `Accepted`,
`Retry`, `Refused`, `TimesOut`, `Cut` are the client's `Do`; `Cancel` and
`GraceOver` are `main.go`. Receivers are external: a request may have arrived
although it failed, and an API may go down for good (`GoesDown`).

| Run | What it asks |
|---|---|
| `messages` | `LevelsNest`: what a receiver hears nests, as the documentation says. `FailuresSurface`: no success is told over a failure. `OutcomeIsHeard`: a run that returns has told its outcome once. `RunEnds`, whatever the APIs do |

Limits of the code that the properties except. A step whose values are missing
tells a failure and is then tried again, so a step's failure does not always
surface. A run that is cancelled while it sends its outcome, or after its last
step, uses up `finalize` with a dead context, and an API then hears no outcome.
A run that updates its own image ends with a message of a failure. Slack's
client has no time limit; the fairness assumes that a chat answers.

Bounds: two steps, up to two releases, an API that hears all and a chat that
hears of failures, one message that meets trouble with any number of attempts,
one cancellation. A request that a receiver handles after the client gave up
counts as not heard. Left out: the messages of modules, schedules and approvals,
and the cases in which one is not sent for want of its metadata, which are as if
it was lost. Fairness: the process runs, pipelines end, and a notifier answers or
the deadline comes. Deadlock is not checked, as nothing is left to do after the
run.

## Not modelled

Configuration (`service/config.go`): merging and validation of YAML, without
state of its own; its included files could be added. Replacement
(`service/replace.go`): text substitution; whether a value is there yet is the
one effect on control, and is in `Updater` and `RunMessages`. Migration
(`migrate/`): one pass over a file. Plan summary and log parsing: text. Local
source: plain reads. Command line and providers: dispatch. Generated clients.

## Proofs

Assumptions on the constants are named in the modules that declare them
(`SizesAssumption`, `SourcesAssumption`, `ModulesAssumption`, ...), and TLC
evaluates them on every run.

`Updater_proofs`. `TypeCorrect`: the types are invariant. The work is in the
version arithmetic: `Min` and `Max` of the candidates are members of them
(`MinIsLeast` and `MaxIsGreatest` prove it from the definition of the community
module, by well-foundedness of finite sets of numbers, that a non-empty bounded set has
them), so a release index stays inside `1..MaxVersion`. `LoopJoined`: nothing
outlives the loop. `NothingOutlivesTheLoop` is not inductive; `LoopInv` is. It
says which steps are in the loop and which out of it (`StepsInv`: `todo`,
`retries`, `parallel` and `failed` are disjoint where they have to be), what
each phase implies (`PhaseInv`: above all that retries run with parallelism
off, without which a goroutine could be started after `wg.Wait()`), and that a
step has a pipeline exactly when the loop waits for it or `wg` counts it
(`PipelineInv`). `NoneSkipped` and `StepsInOrder` follow from one more invariant
(`ReleaseByRelease`), in four parts: `VersionsInv` chains the four version fields
of a module, each at most one release ahead of the one it is made from;
`BegunInv` says that no module of the session is further back than the release
before the one in progress, in memory or in the bucket, which at the start of a
session is what the oldest version is chosen for and in `NextRelease` what the
loop has achieved; `ResolvedInv` says what a step in execution is going to
record, `DoneInv` that a step the loop is done with has the release. Whatever an
action does to the versions is resolving them (`ResolvesNext`), recording them
(`MarksReached`), losing memory (`SessionOverReleases`) or nothing, and
`VersionsKept`, `ResolvedKept` and `DoneKept` say once what that means for the
invariant; the rest is control.

`LogStream_proofs`. `TypeCorrect`; `LinesKept` for `EveryLineOnce` and
`OutcomeLast` for `CompleteComesLast`. The inductive invariant adds to them
where the supervisor is (`SupervisorInv`: in no state but the sending one is
there a pending batch while a stream is used), that the summary is in one place
(`PlanKept`), and that after `done` was seen and the channels drained nothing
more can be put into them (`NothingLeft`).

What the server sees needs what is on the wire besides (`WireInv`). Lines are
taken in rising order (`TakenInv`); what has arrived and is in flight was handed
over (`OriginInv`) and is in order, each message before those behind it
(`OrderInv`); the summary comes once, before the outcome (`PlanInv`); a stream is
used only where the supervisor is with one (`StreamInv`); and as long as none has
broken, all that was handed over is in flight or has arrived (`NothingLost`).
`UnbrokenDelivered`, for `UnbrokenStreamDelivers`, combines the last with
`OutcomeIsLast`. `ImplementsDelivery`, for `ServerSeesDelivery`, is the
refinement: taking a line or the summary is `TakeLine` or `TakePlan`, an arrival
is `Receive` (`Received` of what has arrived is `OrderInv`, `OriginInv` and
`PlanInv`), and everything else is nothing the server sees.

`StepPipeline_proofs`, about both implementations: it extends `LocalPipeline` and
has `CloudDeploy` as the instance `Google`, whose properties it names so, but for
`DefinitionsAreOwn`, which `JobDefinitions` has for both. First, for any number
of steps in parallel, `LocalPipeline`. `DecidesAsDocumented`
compares the decisions of the code and of the documentation case by case, for
every plan and setting and both commands. `AnswersBelong` for
`AnswerIsForItsQuestion` needs an invariant (`RunsConsistent`) of two parts:
what a step has planned, decided and applied where it is (`Progress`), and that
only the step that holds the lock has its question on the terminal, is the one
that reads, and gets the line that was typed (`TerminalInv`). `PromiseKept` is
the refinement: every step of a goroutine is a step of the same run of
`StepPipeline` or changes nothing it sees (`StepMapped`, one case per action).
That the agent's consent is one `StepPipeline` allows is `DecidesAsDocumented`;
that a run which returns without an error was applied, or had nothing to apply,
is `Progress`. `LogReturns` for `LogComesBack` needs where the log is while a
step asks (`RedirectInv`: it is redirected by the one step that asks, and from
the terminal, so that restoring `original` cannot bring back another buffer)
and what is in the buffers (`BufferInv`: a message is in the buffer it was
written to, unprinted, until its step has asked, and printed once from then
on). Only a buffer in `shared`, to which a command writes, may lose something;
`BufferInv` says that a step has none before it has asked.

Second, for any number of sessions, `CloudDeploy`. `SessionsConsistent` is the
types and `Course`: where a session is, what its execution of the plan job has
come to, which state its rollouts and their approvals are in. It is about each
session by itself, as a step of one changes none of that of another
(`MovesApart` to `TermsApart`). `SessionsKeepPromise` for `KeepsPromise` is the
refinement, and holds also while sessions overlap: `PromiseSays` states the
steps of `StepPipeline` in the terms of `CloudDeploy`, and each action is one of
them or none (`StepPromises`); the agent's consent is allowed because a session
comes to `approve` only with a plan it decided on itself (`AgentApproves`, by
`DecidesAsDocumented`). `DefinitionsOwn` for `DefinitionsAreOwn` assumes
`~Overlap`. It needs that one session is active at a time (`Alone`), that an
active one has released its own bundle, and nothing is rolled out before
(`OwnRelease`), and what keeps others from its jobs (`OwnJob`): a target takes
one rollout at a time, so when one of an active session has succeeded, any other
in progress has begun since, hence is `late`.

`CodePipeline_proofs`. `AsksOnce` needs that a session which has asked never comes to
`decide` again (`AskInv`: who has asked is waiting, or approved, or over).
`ResultCorrect` needs that what a session knows of its execution stays true
while others act (`Progress`: an execution's plan, once there, does not change,
and success is final), which `OwnKept` lifts to the session. `NoNewerStopped` needs the order
of the executions: `Queued` says that one that runs is ahead of every later one
(`QueueKept`: one moves a place at a time, and only to where no older one runs
any more), and `StopInv` that a session is about to stop only what
began before its own. `ApprovesAsDocumented` is about sessions that do not
overlap, which is when the documentation's promise is meant to hold and when TLC
finds it to: without `~Overlap` it is false, see `CodePipeline`. It needs that at
most one session is active and has the newest execution (`AloneInv`), and that a
session which asks for a token decided on the plan of that very execution
(`DecisionInv`).

`GitDestination_proofs`. All properties of `destination`, and `OpensAgain`. The remote only
grows (`RemoteExtends`) because every step that changes it appends or replaces a
history by one it is a prefix of; that prefixes compose is proved from
the definition of `IsPrefix`. `LocalIsPushed` needs besides the types that
what was fetched is a prefix of what the remote has (`TrackingOld`), and is then
inductive: `LocalStep` lists what a step can make of a local branch. `WholeInv`
says of all three copies that each commit of the agent is an update of the one
before it. `OpenInv` adds to `OpensAgain` where a branch may be half prepared.

`SourceCheckout_proofs`. All properties of `source`, and `LookupsMatchReads`. Neither of the two about
reading is inductive: they need that a client has fetched every branch it has
used (`Pulled` in `CheckoutInv`), so that a later fetch, which is only made for
what was not fetched (`FetchedContent`), cannot change what a name stands for,
and that the worktree is that of `current` unless a checkout failed; `TreesInv`
is the same of the cache. `AgesInv` orders the copies of a branch: as it was
when the session began, as it was fetched, as it is.

`CloudAccount_proofs`, for any number of sessions at a time and after each
other, of calls that fail and of kills, for any scope, and with other sessions
acting between any two calls. A session is the series of the calls it has yet to
make, a tree of looks two deep (`AnyCall`), of which nothing is known but where
it came from. So the first two parts of the module say of series what the proofs need and
show it once of those of the commands (`Setup`, `CreateServiceAccount`, `Delete`
of either account), by putting them together from their segments.

`MissingKnown` for `MissingWasLeftUndone` rests on `AccountInv`: a series is
`Tidy` (what a deletion that fails skips are deletions, never something to make)
or has `Begun` an owner, which is then the first call and its family comes right
after it; and whatever an owner lacks of its family is `unfinished` or under way in
a session that has made the owner already (`MissingIsMade`). That is what
`MissingWasLeftUndone` does not say, and without it the session might still find
the owner there and end (`Collides`).

`QuietDeleteTakesAll` for `DeleteLeavesNothing` rests on `DeleteInv`: what is left
of a delete's series only deletes, but for the targets it makes first
(`Deleting`); and a delete that has warned of nothing and was alone has, of what
it is to take, all that exists still among what its series deletes, together with
what goes with that (`Promising`). No other session is there to make anything,
because one that begins would be `overlapped`; what the bucket contains goes with
the bucket and is never without it (`BucketHolds`).

`SetupLeavesAll` for `SetupCompletes` rests on `SetupInv`, stated of the end
of a session as well as of its way there: as long as no delete is at its side,
for each part a setup is for there is a part that stands for it (`StandsFor`:
itself, or the owner it is only made with, whose missing parts `AccountInv`
accounts for), or the series `Supplies` it, that is, has a call after which
there is one whatever the looks answer (`SeesTo`). That nobody takes it away again needs what the sessions at its side may
delete: a setup the schedules that are not wanted, a service account command
parts of a service account (`Careful`, `DeletesOnly`), and that two sessions which
run at the same time know of each other.

`DeletesInOrder` for `DeleteInOrder` rests on `OrderInv`: as long as a delete is
alone and none of its calls has failed, what would make AWS refuse a deletion it
has yet to make (`Hinders`) is gone or deleted by an earlier call (`InOrder`);
what it makes on its way hinders nothing (`HarmlessCall`), and a refusal, which
there is then of the policy or of the bucket only, leaves out no call that is
needed. The series of the commands are in order whatever exists (`AwsPlanned`,
`GooglePlanned`), and stay so as they get shorter and the account smaller
(`OrderedSuffix`). That a bucket which is refused has fewer entries than before
is about `Without`, the pages that emptying leaves: that these are the ones that
are not empty, in their order (`WithoutIs`), needs that a finite set of numbers
can be enumerated upwards (`Enumerated`, from the library's facts about
cardinality); that they hold fewer entries, that the remaining ones map to
entries of before, one by one and not onto (`FewerEntries`). The first page has
versions, or has delete markers only: so one of the two ways of emptying takes
something away, and of a listing of one page everything (`SomethingIsLeft`).

In the same module, about `Destroyer` (as the instance `Destroy`; the properties
are those of `DestroyState`): all properties of `destroyer`, for any number of
steps and sessions and every provider. None is inductive. `CallsInv` says where the session
is for which command and provider; `AskedInv` that an execution past the
approval stage, and a session on its way to destroy, belong to a step that was
asked for; `ToolsInv` that the tools are there from the call that makes them on,
hence before the pipeline is waited for; `GoneInv` that a destroy command has
done with all steps behind the one it is at; `StateInv` the same of the state it
holds in memory, and how that differs from the file while the file is not
written. `LastFirst` and `StateForgets` follow at the moment the command returns;
`OnlyWhenAsked` and `GoneFirst` are about steps, one case per action.

`RunMessages_proofs`. The safety properties of `run_messages`, for any number of
steps, releases, notifiers and faults. What a notifier hears is what someone is
posting (`HeardIsSent`), so that the order of what it hears (`NestInv`) comes
from the order in which the run can tell (`ToldInv`: at which point of the run
which messages have been told) and from who can post at the same time: by
`PostInv` only for different steps of one release (`AtATime`). `FailInv` follows a failure
from the step, by way of the second attempt or the barrier, to the pipeline and
the run; `OutcomeInv` says which outcomes were told with a context that was
over. `NotifyDoes`, `SendsDo` and `WorksDo` say once what the operators for
sending do to the posts of everybody, and all other proofs use only these.

Only model-checked: of `Updater`, `RecordsWhatIsDeployed`, `UpdateReachesVersions`
and `MajorChangeNeedsApproval`, which do not hold for all constants (see
`Updater`): `major` is a violation of the last, and no assumption on sources and
selections that the code would justify excludes it. And everything about
liveness, which TLAPS 1.4.5 cannot prove under fairness.

## Files

`<Module>.tla` is a component; `MC<Module>.tla` gives its constants values;
`<Module>_<run>.cfg` is a run; `<Module>_proofs.tla` holds the theorems.
`PROJECT.json` maps each definition to the lines it models. Definitions whose
comment says `Mutant` are plausible bugs of the definition that follows; no
specification uses them: each shows that a property would notice.
