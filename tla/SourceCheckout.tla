--------------------------- MODULE SourceCheckout ---------------------------
(***************************************************************************)
(* A module source (git/source.go): the clone from which the agent reads   *)
(* files, checksums and what there is in a release. A release is a tag, or *)
(* the branch that force_version names.                                    *)
(*                                                                         *)
(* The clone is kept between sessions. A session has one client of it, the *)
(* methods of which run one at a time (its mutex), while others commit to  *)
(* the repository. A commit is a number, larger than those before it, and  *)
(* stands for its content.                                                 *)
(***************************************************************************)
EXTENDS Integers, FiniteSets

CONSTANTS
  Tags,        \* releases that may be published
  Branches,    \* branches of the repository
  Default,     \* the branch a clone checks out
  None,        \* no release
  MaxCommits   \* commits of the repository                             (bound)

Releases == Tags \union Branches
ASSUME NamesAssumption == Tags \intersect Branches = {} /\ None \notin Releases
ASSUME DefaultAssumption == Default \in Branches /\ MaxCommits \in Nat \ {0}

Absent == 0      \* in place of a commit
Broken == -1     \* a worktree between two commits

VARIABLES
  newest,      \* the last commit of the repository
  branches,    \* branch -> its commit in the repository
  tags,        \* tag -> its commit in the repository
  present,     \* the clone is there
  tracking,    \* branch -> its commit when it was fetched last (refs/remotes/origin)
  known,       \* tag -> the same (refs/tags)
  heads,       \* the commit of the clone's own branch Default (refs/heads)
  detached,    \* HEAD is no branch
  worktree,    \* the commit whose files are there
  running,     \* a session has a client
  forced,      \* the version that its configuration forces
  pulled,      \* the branches that the client has fetched
  current,     \* currentRelease
  trees,       \* release -> the commit of its tree in treesCache
  read,        \* history: release -> the commits that files were read from
  atStart,     \* history: the branches when the session began
  failed       \* history: what has failed in this session, "fetch" or "checkout"

remote == <<newest, branches, tags>>
refs == <<tracking, known, heads>>
client == <<running, forced, pulled, current, trees>>
history == <<read, atStart, failed>>
vars == <<remote, present, refs, detached, worktree, client, history>>

NoTrees == [release \in Releases |-> Absent]
NothingRead == [release \in Releases |-> {}]

Init ==
  /\ newest = 1 /\ tags = [tag \in Tags |-> Absent]
  /\ branches = [branch \in Branches |-> IF branch = Default THEN 1 ELSE Absent]
  /\ present = FALSE /\ known = tags /\ tracking = [branch \in Branches |-> Absent]
  /\ heads = Absent /\ detached = FALSE /\ worktree = Absent
  /\ running = FALSE /\ forced = None /\ pulled = {} /\ current = None /\ trees = NoTrees
  /\ read = NothingRead /\ atStart = branches /\ failed = {}
------------------------------------------------------------------------------
(***************************************************************************)
(* The repository                                                          *)
(***************************************************************************)
CommitTo(branch) ==
  /\ newest < MaxCommits /\ newest' = newest + 1
  /\ branches' = [branches EXCEPT ![branch] = newest']
  /\ UNCHANGED <<tags, present, refs, detached, worktree, client, history>>

Tag(tag) ==
  /\ tags[tag] = Absent /\ tags' = [tags EXCEPT ![tag] = branches[Default]]
  /\ UNCHANGED <<newest, branches, present, refs, detached, worktree, client, history>>
------------------------------------------------------------------------------
(***************************************************************************)
(* NewSourceClient                                                         *)
(***************************************************************************)
\* What ResolveRevision finds for a name: a tag, a branch of the clone's own,
\* a branch of the remote (getReleaseHash).
Resolve(release) ==
  CASE release \in Tags -> known[release]
    [] release = Default -> heads
    [] OTHER -> tracking[release]

\* releaseExists for a forced version, GetLatestReleaseTag without one.
Usable(version) ==
  IF version = None THEN \E tag \in Tags : known[tag] # Absent
                    ELSE Resolve(version) # Absent

\* Mutant: what is checked out is taken for what it was checked out for.
KeepsCurrent(version) ==
  /\ running' = Usable(version)' /\ forced' = version
  /\ pulled' = {} /\ trees' = NoTrees /\ UNCHANGED current
  /\ read' = NothingRead /\ atStart' = branches /\ failed' = {}

NewClient(version) ==
  /\ running' = Usable(version)' /\ forced' = version
  /\ pulled' = {} /\ current' = None /\ trees' = NoTrees
  /\ read' = NothingRead /\ atStart' = branches /\ failed' = {}

Clone(version) ==
  /\ ~running /\ ~present /\ present' = TRUE
  /\ tracking' = branches /\ known' = tags /\ heads' = branches[Default]
  /\ detached' = FALSE /\ worktree' = heads' /\ NewClient(version)
  /\ UNCHANGED remote

UpToDate == tracking = branches /\ known = tags

\* Mutant: a clone that is there is used as it is.
OpenWithoutFetch(version) ==
  /\ ~running /\ present /\ UNCHANGED <<remote, present, refs, detached, worktree>>
  /\ NewClient(version)

\* openSourceRepo: a fetch, and a reset of HEAD if it brought anything.
Open(version) ==
  /\ ~running /\ present /\ tracking' = branches /\ known' = tags
  /\ worktree' = IF UpToDate THEN worktree ELSE branches[Default]
  /\ heads' = IF UpToDate \/ detached THEN heads ELSE branches[Default]
  /\ NewClient(version)
  /\ UNCHANGED <<remote, present, detached>>

OpenBreaks ==
  /\ ~running /\ present /\ ~UpToDate /\ tracking' = branches /\ known' = tags
  /\ heads' = (IF detached THEN heads ELSE branches[Default]) /\ worktree' = Broken
  /\ UNCHANGED <<remote, present, detached, client, history>>
------------------------------------------------------------------------------
(***************************************************************************)
(* GetFile and CalculateChecksums                                          *)
(***************************************************************************)
\* A session reads the version that is forced, or releases it has seen.
Asked(release) ==
  IF forced # None THEN release = forced ELSE release \in Tags /\ known[release] # Absent

\* fetchBranch, for what is no tag and was not fetched yet.
Fetch(branch) ==
  /\ branches[branch] # Absent
  /\ tracking' = [tracking EXCEPT ![branch] = branches[branch]]
  /\ pulled' = pulled \union {branch}
Fetched(release) ==
  IF release \in Tags \union pulled THEN UNCHANGED <<tracking, pulled>> ELSE Fetch(release)

Content(release) == IF release \in Tags THEN known[release] ELSE tracking[release]

ReadFrom(release, commit) == read' = [read EXCEPT ![release] = @ \union {commit}]

ReadCurrent ==
  /\ running /\ Asked(current) /\ ReadFrom(current, worktree)
  /\ UNCHANGED <<remote, present, refs, detached, worktree, client, atStart, failed>>

\* checkoutClean
Read(release) ==
  /\ running /\ Asked(release) /\ current # release
  /\ UNCHANGED <<remote, present, known, heads, running, forced, trees, atStart, failed>>
  /\ Fetched(release) /\ worktree' = Content(release)'
  /\ detached' = TRUE /\ current' = release /\ ReadFrom(release, worktree')

\* The checkout fails when some of the files are written.
ReadBreaks(release) ==
  /\ running /\ Asked(release) /\ current # release /\ Fetched(release)
  /\ worktree' = Broken /\ detached' = TRUE /\ failed' = failed \union {"checkout"}
  /\ UNCHANGED <<remote, present, known, heads, running, forced, current, trees, read, atStart>>
------------------------------------------------------------------------------
(***************************************************************************)
(* FileExists and PathExists: getReleaseTree. A module's applied version   *)
(* is looked up whatever it was, a tag or a branch.                        *)
(***************************************************************************)
FetchFails(release) ==
  /\ release \notin Tags \union pulled /\ failed' = failed \union {"fetch"}
  /\ UNCHANGED <<tracking, pulled>>

LookUp(release) ==
  /\ running /\ trees[release] = Absent
  /\ UNCHANGED <<remote, present, known, heads, detached, worktree, running, forced, current,
                 read, atStart>>
  /\ (Fetched(release) /\ UNCHANGED failed) \/ FetchFails(release)
  /\ trees' = [trees EXCEPT ![release] = Resolve(release)']
------------------------------------------------------------------------------
EndSession ==
  /\ running /\ running' = FALSE
  /\ UNCHANGED <<remote, present, refs, detached, worktree, forced, pulled, current, trees, history>>

\* It is killed in a checkout.
Killed ==
  /\ running /\ running' = FALSE /\ worktree' = Broken /\ detached' = TRUE
  /\ UNCHANGED <<remote, present, refs, forced, pulled, current, trees, history>>

LoseDirectory ==
  /\ ~running /\ present /\ present' = FALSE
  /\ UNCHANGED <<remote, refs, detached, worktree, client, history>>
------------------------------------------------------------------------------
Versions == Releases \union {None}

Next ==
  \/ \E branch \in Branches : CommitTo(branch)
  \/ \E tag \in Tags : Tag(tag)
  \/ \E version \in Versions : Clone(version) \/ Open(version)
  \/ OpenBreaks \/ ReadCurrent
  \/ \E release \in Releases : Read(release) \/ ReadBreaks(release) \/ LookUp(release)
  \/ EndSession \/ Killed \/ LoseDirectory

Spec == Init /\ [][Next]_vars
------------------------------------------------------------------------------
(***************************************************************************)
(* Properties                                                              *)
(***************************************************************************)
\* Types, and that a client has its clone.
Commits == 1..MaxCommits
Maybe == Commits \union {Absent}
TypeOK ==
  /\ newest \in Commits /\ branches \in [Branches -> Maybe] /\ tags \in [Tags -> Maybe]
  /\ present \in BOOLEAN /\ detached \in BOOLEAN /\ running \in BOOLEAN
  /\ tracking \in [Branches -> Maybe] /\ known \in [Tags -> Maybe] /\ heads \in Maybe
  /\ worktree \in Maybe \union {Broken}
  /\ forced \in Versions /\ pulled \subseteq Branches /\ current \in Versions
  /\ trees \in [Releases -> Maybe] /\ read \in [Releases -> SUBSET (Maybe \union {Broken})]
  /\ atStart \in [Branches -> Maybe] /\ failed \subseteq {"fetch", "checkout"}
  /\ running => present

\* All files and checksums that a session reads for a release are those of one
\* commit, the one the clone has for it: whatever is checked out in between,
\* was left by a session before or is committed meanwhile (checkoutClean).
\* After a checkout that failed half way this is not so: currentRelease then
\* still names the release before.
ReadsRelease ==
  running /\ "checkout" \notin failed =>
    \A release \in Releases : read[release] \subseteq {Content(release)}

\* What a session looks up in a release is in the commit from which it reads
\* it, unless the fetch failed (getReleaseTree). Default is left out: its name
\* resolves to the clone's own branch, which nothing moves once HEAD is detached.
LookupsMatchReads ==
  running /\ failed = {} =>
    \A release \in Releases \ {Default} :
      trees[release] # Absent => read[release] \subseteq {trees[release]}

\* No session sees a branch as it was before the session began, even if it
\* cannot fetch it again (getSourceRepo, fetchBranch); but for lookups in
\* Default, see above.
NothingStale ==
  running => \A branch \in Branches :
    /\ "checkout" \notin failed => \A commit \in read[branch] : commit >= atStart[branch]
    /\ branch # Default /\ trees[branch] # Absent => trees[branch] >= atStart[branch]
==============================================================================
