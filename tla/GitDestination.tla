--------------------------- MODULE GitDestination ---------------------------
(***************************************************************************)
(* A git destination: the repository to which the agent pushes the files   *)
(* of its steps, to the branch plan before a step's pipeline and to apply  *)
(* after it (git/dest.go, updateDestinationsFiles of service/update.go).   *)
(*                                                                         *)
(* The local repository is kept in the temporary directory and used again  *)
(* by the next session, whatever the last one left in it. Other writers    *)
(* push to the same branches at any time. A branch is the sequence of its  *)
(* commits; what go-git does is external.                                  *)
(***************************************************************************)
EXTENDS Integers, Sequences, SequencesExt

CONSTANTS
  Steps,         \* the folders of the agent's steps
  Foreign,       \* the folders of others in the repository
  FileSets,      \* what may be generated for a step: sets of files
  OtherChanges,  \* what another writer may commit: folder -> its new files
  MaxCommits     \* commits of the two branches                        (bound)

Folders == Steps \union Foreign
Branches == {"plan", "apply"}
Refs == Branches \union {"main"}

\* A file is its path in the folder, the names of it, and its content.
Paths(files) == {file.path : file \in files}
IsFileSet(files) ==
  /\ \A file \in files : DOMAIN file = {"path", "content"} /\ file.path \in Seq(STRING) \ {<<>>}
  /\ \A f, g \in files : f.path = g.path => f = g
ASSUME FilesAssumption ==
  /\ \A files \in FileSets : IsFileSet(files) /\ files # {}
  /\ \A change \in OtherChanges :
       DOMAIN change \subseteq Folders /\ \A folder \in DOMAIN change : IsFileSet(change[folder])
ASSUME FoldersAssumption == Steps # {} /\ Steps \intersect Foreign = {} /\ MaxCommits \in Nat

VARIABLES
  remote,       \* ref -> its commits at the remote, none if it is not there
  tracking,     \* ref -> the same as of the last fetch or push (refs/remotes/origin)
  local,        \* ref -> the same in the local repository (refs/heads)
  configured,   \* the branches that the configuration of the local repository lists
  present,      \* the temporary directory has the repository
  head,         \* the ref checked out
  at,           \* what the session does next; "none" without a session
  ref,          \* the ref that NewDestClient prepares
  call,         \* the branch, folder and files of the (last) update
  result,       \* what the last update of the session returned
  planned,      \* step -> the files its pipeline runs with, {} before that
  unpushed,     \* history: the branches of which a push has not succeeded
  interrupted   \* history: the first session on the repository did not end its preparations

repository == <<tracking, local, configured, present, head>>
caller == <<call, result, planned>>
history == <<unpushed, interrupted>>
vars == <<remote, repository, at, ref, caller, history>>

NoFiles == [folder \in Folders |-> {}]
FirstCommit == [by |-> "other", tree |-> NoFiles]
Absent == [name \in Refs |-> <<>>]
NoCall == [branch |-> "plan", folder |-> CHOOSE step \in Steps : TRUE, files |-> {}]

Init ==
  /\ remote \in {Absent, [Absent EXCEPT !["main"] = <<FirstCommit>>]}
  /\ tracking = Absent /\ local = Absent /\ configured = {} /\ present = FALSE /\ head = "main"
  /\ at = "none" /\ ref = "main" /\ call = NoCall /\ result = "none"
  /\ planned = [step \in Steps |-> {}]
  /\ unpushed = {} /\ interrupted = FALSE

Size(refs) == Len(refs["plan"]) + Len(refs["apply"])
Exists(name) == remote[name] # <<>>
------------------------------------------------------------------------------
(***************************************************************************)
(* The remote                                                              *)
(***************************************************************************)
\* Mutant: a push with force.
PushableByForce(name) == local[name] # <<>>

\* A push without force: go-git and the server take a fast-forward only.
Pushable(name) == IsPrefix(remote[name], local[name])

Other(branch) ==
  /\ Exists(branch) /\ Size(remote) < MaxCommits
  /\ \E change \in OtherChanges :
       LET tree == Last(remote[branch]).tree
           changed == [folder \in Folders |->
                         IF folder \in DOMAIN change THEN change[folder] ELSE tree[folder]]
       IN  /\ changed # tree
           /\ remote' = [remote EXCEPT ![branch] = Append(@, [by |-> "other", tree |-> changed])]
  /\ UNCHANGED <<repository, at, ref, caller, history>>
------------------------------------------------------------------------------
(***************************************************************************)
(* NewDestClient                                                           *)
(***************************************************************************)
Fetched == tracking' = remote
Goto(where) == at' = where /\ UNCHANGED ref
Prepare(where, name) == at' = where /\ ref' = name

\* openRepo, which fails on an empty remote.
OpenRepo ==
  /\ at = "none" /\ present /\ Exists("main") /\ Fetched /\ Prepare("ensure", "plan")
  /\ UNCHANGED <<remote, local, configured, present, head, caller, history>>

CloneRepo ==
  /\ at = "none" /\ ~present /\ Exists("main") /\ Fetched /\ Prepare("ensure", "plan")
  /\ local' = [Absent EXCEPT !["main"] = remote["main"]] /\ head' = "main"
  /\ configured' = {} /\ present' = TRUE /\ unpushed' = {} /\ interrupted' = FALSE
  /\ UNCHANGED <<remote, caller>>

\* initRepo, for an empty remote.
InitRepo ==
  /\ at = "none" /\ ~present /\ ~Exists("main") /\ Prepare("pushref", "main")
  /\ local' = [Absent EXCEPT !["main"] = <<FirstCommit>>] /\ head' = "main"
  /\ tracking' = Absent /\ configured' = {} /\ present' = TRUE
  /\ unpushed' = {} /\ interrupted' = FALSE
  /\ UNCHANGED <<remote, caller>>

\* ensureBranch, for plan and then for apply. A branch that the remote has and
\* the configuration lists needs nothing.
NextRef ==
  CASE ref = "main" -> Prepare("ensure", "plan")
    [] ref = "plan" -> Prepare("ensure", "apply")
    [] OTHER -> Goto("idle")

BranchReady ==
  /\ at = "ensure" /\ tracking[ref] # <<>> /\ ref \in configured /\ NextRef
  /\ UNCHANGED <<remote, repository, caller, history>>

\* createLocalBranch: first the configuration, then the reference, which may
\* exist already.
CreateBranch ==
  /\ at = "ensure" /\ tracking[ref] # <<>> /\ ref \notin configured
  /\ configured' = configured \union {ref} /\ Goto("reference")
  /\ UNCHANGED <<remote, tracking, local, present, head, caller, history>>

SetReference ==
  /\ at = "reference" /\ NextRef
  /\ local' = [local EXCEPT ![ref] = tracking[ref]]
  /\ unpushed' = unpushed \ {ref}
  /\ UNCHANGED <<remote, tracking, configured, present, head, caller, interrupted>>

\* createRemoteBranch: a new branch of what is checked out, which fails if a
\* branch of this name is there.
CheckoutNew ==
  /\ at = "ensure" /\ tracking[ref] = <<>> /\ local[ref] = <<>>
  /\ local' = [local EXCEPT ![ref] = local[head]] /\ head' = ref /\ Goto("pushref")
  /\ UNCHANGED <<remote, tracking, configured, present, caller, history>>

BranchExists ==
  /\ at = "ensure" /\ tracking[ref] = <<>> /\ local[ref] # <<>> /\ Goto("none")
  /\ UNCHANGED <<remote, repository, caller, history>>

Pushed(name) ==
  /\ remote' = [remote EXCEPT ![name] = local[name]]
  /\ tracking' = [tracking EXCEPT ![name] = local[name]]
  /\ unpushed' = unpushed \ {name}

\* The push of initRepo or createRemoteBranch.
PushRef ==
  /\ at = "pushref" /\ Pushable(ref) /\ Pushed(ref) /\ NextRef
  /\ UNCHANGED <<local, configured, present, head, caller, interrupted>>
------------------------------------------------------------------------------
(***************************************************************************)
(* updateDestinationsPlanFiles and -ApplyFiles: the calls of UpdateFiles.  *)
(* Its mutex lets one of them run at a time.                               *)
(***************************************************************************)
UpdateFiles(branch, step, files) ==
  /\ call' = [branch |-> branch, folder |-> step, files |-> files]
  /\ result' = "none" /\ Goto("checkout")

\* Before the pipeline of a step, with the files generated for it.
PlanFiles(step) ==
  /\ at = "idle"
  /\ \E files \in FileSets :
       planned' = [planned EXCEPT ![step] = files] /\ UpdateFiles("plan", step, files)
  /\ UNCHANGED <<remote, repository, history>>

\* After the pipeline has succeeded, with the same files.
ApplyFiles(step) ==
  /\ at = "idle" /\ planned[step] # {}
  /\ planned' = [planned EXCEPT ![step] = {}] /\ UpdateFiles("apply", step, planned[step])
  /\ UNCHANGED <<remote, repository, history>>
------------------------------------------------------------------------------
(***************************************************************************)
(* UpdateFiles. The forced checkout at its start takes back what an update *)
(* that failed has left in the worktree and the index, so that these are   *)
(* no part of the state.                                                   *)
(***************************************************************************)
Return(value) == result' = value /\ Goto("idle")
Updating == call.branch

\* checkoutCleanBranch. The pull has nothing to do if the fetch brought
\* nothing and the local branch is not behind; else the branch has to be
\* behind the remote's.
NothingToPull == tracking = remote /\ IsPrefix(remote[Updating], local[Updating])
FastForward == IsPrefix(local[Updating], remote[Updating])

CheckoutCleanBranch ==
  /\ at = "checkout" /\ local[Updating] # <<>> /\ (NothingToPull \/ FastForward)
  /\ head' = Updating /\ Fetched /\ Goto("write")
  /\ local' = IF NothingToPull THEN local ELSE [local EXCEPT ![Updating] = remote[Updating]]
  /\ UNCHANGED <<remote, configured, present, call, result, planned, history>>

NoReference ==
  /\ at = "checkout" /\ local[Updating] = <<>> /\ Return("error")
  /\ UNCHANGED <<remote, repository, call, planned, history>>

NonFastForward ==
  /\ at = "checkout" /\ local[Updating] # <<>> /\ ~NothingToPull /\ ~FastForward
  /\ head' = Updating /\ Fetched /\ Return("error")
  /\ UNCHANGED <<remote, local, configured, present, call, planned, history>>

\* updateFile for every file.
Written(old, files) == files \union {file \in old : file.path \notin Paths(files)}
\* Mutant: files that are not used any more stay.
UsedAndUnused(found, files) == found
\* removeUnusedFiles: what remains of the folder.
Used(found, files) == {file \in found : file.path \in Paths(files)}
\* It removes a directory in which it kept no file, which fails if it kept one
\* further down.
Above(path) == {SubSeq(path, 1, n) : n \in 0..(Len(path) - 1)}
KeepsDirectory(files) ==
  \E directory \in UNION {Above(path) : path \in Paths(files)} :
    \A path \in Paths(files) : Front(path) # directory

Checkedout == Last(local[Updating]).tree
Updated == Used(Written(Checkedout[call.folder], call.files), call.files)

CannotRemove ==
  /\ at = "write" /\ KeepsDirectory(call.files) /\ Return("error")
  /\ UNCHANGED <<remote, repository, call, planned, history>>

NoChanges ==
  /\ at = "write" /\ ~KeepsDirectory(call.files)
  /\ Updated = Checkedout[call.folder] /\ Return("nil")
  /\ UNCHANGED <<remote, repository, call, planned, history>>

Commit ==
  /\ at = "write" /\ ~KeepsDirectory(call.files) /\ Updated # Checkedout[call.folder]
  /\ Size(local) < MaxCommits
  /\ local' = [local EXCEPT ![Updating] =
                 Append(@, [by |-> "agent", tree |-> [Checkedout EXCEPT ![call.folder] = Updated]])]
  /\ Goto("push")
  /\ UNCHANGED <<remote, tracking, configured, present, head, caller, history>>

\* Mutant: the branch plan is pushed for either branch.
PushPlan ==
  /\ at = "push" /\ Pushable("plan") /\ Pushed("plan") /\ Return("nil")
  /\ UNCHANGED <<local, configured, present, head, call, planned, interrupted>>

Push ==
  /\ at = "push" /\ Pushable(Updating) /\ Pushed(Updating) /\ Return("nil")
  /\ UNCHANGED <<local, configured, present, head, call, planned, interrupted>>

\* It is rejected, fails on its way, or only the answer is lost.
PushFails ==
  /\ at = "push" /\ Return("error") /\ unpushed' = unpushed \union {Updating}
  /\ \/ UNCHANGED remote
     \/ Pushable(Updating) /\ remote' = [remote EXCEPT ![Updating] = local[Updating]]
  /\ UNCHANGED <<repository, call, planned, interrupted>>

\* The network or the disk fails earlier.
UpdateFails ==
  /\ at \in {"checkout", "write"} /\ Return("error")
  /\ \/ UNCHANGED tracking
     \/ at = "checkout" /\ Fetched
  /\ UNCHANGED <<remote, local, configured, present, head, call, planned, history>>
------------------------------------------------------------------------------
Pushing(name) == (at = "pushref" /\ ref = name) \/ (at = "push" /\ Updating = name)

\* The session ends, fails or is killed, in preparations and updates too; a
\* push on its way may still arrive.
EndSession ==
  /\ at # "none" /\ Goto("none")
  /\ planned' = [step \in Steps |-> {}] /\ result' = "none" /\ call' = NoCall
  /\ interrupted' = (interrupted \/ at \in {"pushref", "reference"})
  /\ unpushed' = unpushed \union {branch \in Branches : Pushing(branch)}
  /\ \/ UNCHANGED remote
     \/ \E name \in Refs :
          Pushing(name) /\ Pushable(name) /\ remote' = [remote EXCEPT ![name] = local[name]]
  /\ UNCHANGED repository

\* The next session has a temporary directory of its own.
LoseDirectory ==
  /\ at = "none" /\ present /\ present' = FALSE /\ UNCHANGED ref
  /\ tracking' = Absent /\ local' = Absent /\ configured' = {} /\ head' = "main"
  /\ unpushed' = {} /\ interrupted' = FALSE
  /\ UNCHANGED <<remote, at, caller>>
------------------------------------------------------------------------------
EnsureBranch == BranchReady \/ CreateBranch \/ SetReference \/ CheckoutNew \/ BranchExists

Next ==
  \/ OpenRepo \/ CloneRepo \/ InitRepo \/ EnsureBranch \/ PushRef
  \/ \E branch \in Branches : Other(branch)
  \/ \E step \in Steps : PlanFiles(step) \/ ApplyFiles(step)
  \/ CheckoutCleanBranch \/ NoReference \/ NonFastForward
  \/ CannotRemove \/ NoChanges \/ Commit \/ Push \/ PushFails \/ UpdateFails
  \/ EndSession \/ LoseDirectory

Spec == Init /\ [][Next]_vars
------------------------------------------------------------------------------
(***************************************************************************)
(* Properties                                                              *)
(***************************************************************************)
\* Types, and what the temporary directory holds when it is not there.
ChangedTo(change) == {change[folder] : folder \in DOMAIN change}
Files == UNION (FileSets \union UNION {ChangedTo(change) : change \in OtherChanges})
Commits == [by : {"agent", "other"}, tree : [Folders -> SUBSET Files]]
Histories == [Refs -> Seq(Commits)]
Wheres == {"none", "ensure", "reference", "pushref", "idle", "checkout", "write", "push"}
TypeOK ==
  /\ remote \in Histories /\ tracking \in Histories /\ local \in Histories
  /\ configured \subseteq Branches /\ present \in BOOLEAN /\ head \in Refs
  /\ at \in Wheres /\ ref \in Refs /\ call.branch \in Branches /\ call.folder \in Steps
  /\ at \in {"checkout", "write", "push"} => call.files \in FileSets
  /\ planned \in [Steps -> FileSets \union {{}}]
  /\ result \in {"none", "nil", "error"}
  /\ unpushed \subseteq Branches /\ interrupted \in BOOLEAN
  /\ ~present => at = "none" /\ local = Absent

\* The work of other writers is never lost: a branch of the remote is only
\* ever extended (checkoutCleanBranch and the push without force).
RemoteKeepsHistory == [][\A name \in Refs : IsPrefix(remote[name], remote'[name])]_vars

\* A commit of the agent puts exactly the files generated for one step into its
\* folder, whatever an update before it or another writer left there, and
\* touches no other folder (updateFiles, removeUnusedFiles).
WholeFolders ==
  \A branch \in Branches : \A i \in 2..Len(remote[branch]) :
    remote[branch][i].by = "agent" =>
      \E step \in Steps, files \in FileSets :
        remote[branch][i].tree = [remote[branch][i - 1].tree EXCEPT ![step] = files]

\* The local branches have no commit that the remote's lack, unless a push did
\* not succeed: only then a pull can fail for good (UpdateFiles).
LocalIsPushed ==
  \A branch \in Branches :
    branch \in unpushed \/ Pushing(branch) \/ IsPrefix(local[branch], remote[branch])

\* A session can use the repository of an earlier one wherever that one was
\* ended, except within the few calls that prepare it (getRepo).
Usable ==
  /\ Exists("main")
  /\ \A branch \in Branches :
       IF Exists(branch) THEN branch \in configured => local[branch] # <<>>
                         ELSE local[branch] = <<>>
OpensAgain == at = "none" /\ present /\ ~interrupted => Usable
==============================================================================
