------------------------- MODULE GitDestination_proofs -------------------------
(***************************************************************************)
(* Theorems about GitDestination, for any steps, file sets, other writers  *)
(* and numbers of commits.                                                 *)
(***************************************************************************)
EXTENDS GitDestination, SequenceTheorems, TLAPS

(***************************************************************************)
(* Prefixes                                                                *)
(***************************************************************************)
LEMMA PrefixByIndex ==
  ASSUME NEW S, NEW s \in Seq(S), NEW t \in Seq(S)
  PROVE  IsPrefix(s, t) <=> Len(s) <= Len(t) /\ \A i \in 1..Len(s) : s[i] = t[i]
<1>1. CASE Len(s) > Len(t)
  BY <1>1 DEF IsPrefix
<1>2. CASE Len(s) <= Len(t)
  <2>1. Len(s) \in Nat /\ Len(t) \in Nat /\ SubSeq(s, 1, Len(s)) = s
    BY SubSeqFull
  <2>2. SubSeq(t, 1, Len(s)) \in Seq(S) /\ Len(SubSeq(t, 1, Len(s))) = Len(s)
    BY <1>2, <2>1
  <2>3. \A i \in 1..Len(s) : SubSeq(t, 1, Len(s))[i] = t[i]
    BY <1>2, <2>1
  <2>4. s = SubSeq(t, 1, Len(s)) <=> \A i \in 1..Len(s) : s[i] = SubSeq(t, 1, Len(s))[i]
    BY <2>2, SeqEqual
  <2> QED BY <1>2, <2>1, <2>3, <2>4 DEF IsPrefix
<1> QED BY <1>1, <1>2

LEMMA PrefixReflexive ==
  ASSUME NEW S, NEW s \in Seq(S)
  PROVE  IsPrefix(s, s)
BY PrefixByIndex

LEMMA PrefixTransitive ==
  ASSUME NEW S, NEW r \in Seq(S), NEW s \in Seq(S), NEW t \in Seq(S),
         IsPrefix(r, s), IsPrefix(s, t)
  PROVE  IsPrefix(r, t)
BY PrefixByIndex

LEMMA PrefixOfAppend ==
  ASSUME NEW S, NEW s \in Seq(S), NEW e \in S
  PROVE  IsPrefix(s, Append(s, e))
<1> DEFINE t == Append(s, e)
<1>1. t \in Seq(S) /\ Len(s) \in Nat /\ Len(t) = Len(s) + 1 /\ \A i \in 1..Len(s) : t[i] = s[i]
  BY AppendProperties
<1> HIDE DEF t
<1>2. Len(s) <= Len(t) /\ \A i \in 1..Len(s) : s[i] = t[i]
  BY <1>1
<1>3. IsPrefix(s, t)
  BY <1>1, <1>2, PrefixByIndex
<1> QED BY <1>3 DEF t

LEMMA EmptyIsPrefix ==
  ASSUME NEW S, NEW t \in Seq(S)
  PROVE  IsPrefix(<<>>, t)
<1> DEFINE s == <<>>
<1>1. s \in Seq(S) /\ Len(s) = 0 /\ Len(t) \in Nat
  OBVIOUS
<1> HIDE DEF s
<1>2. Len(s) <= Len(t) /\ \A i \in 1..Len(s) : s[i] = t[i]
  BY <1>1
<1>3. IsPrefix(s, t)
  BY <1>1, <1>2, PrefixByIndex
<1> QED BY <1>3 DEF s

LEMMA PrefixNonEmpty ==
  ASSUME NEW S, NEW s \in Seq(S), NEW t \in Seq(S), IsPrefix(s, t), s # <<>>
  PROVE  t # <<>>
BY PrefixByIndex, EmptySeq

(***************************************************************************)
(* Types                                                                   *)
(***************************************************************************)
\* A branch that is written or pushed is there, and so is what is checked out.
NonEmpty ==
  /\ at \in {"write", "push"} => local[Updating] # <<>>
  /\ at = "reference" => tracking[ref] # <<>> /\ ref \in Branches
  /\ at = "pushref" => local[ref] # <<>>
  /\ present => local[head] # <<>>
  /\ at = "ensure" => ref \in Branches
Typed == TypeOK /\ NonEmpty

LEMMA TreeType ==
  ASSUME NEW h \in Seq(Commits), h # <<>>
  PROVE  Last(h) \in Commits /\ Last(h).tree \in [Folders -> SUBSET Files]
<1>1. Len(h) \in 1..Len(h)
  BY EmptySeq
<1>2. Last(h) \in Commits
  BY <1>1, ElementOfSeq DEF Last
<1> QED BY <1>2 DEF Commits

LEMMA FilesOfSets ==
  \A files \in FileSets : files \in SUBSET Files /\ files # {}
BY FilesAssumption DEF Files

\* updateFiles leaves the files asked for and no others.
LEMMA UpdatedIsAsked == Updated = call.files
BY DEF Updated, Used, Written, Paths

\* What another writer commits has the types of a commit.
LEMMA OtherCommit ==
  ASSUME NEW tree \in [Folders -> SUBSET Files], NEW change \in OtherChanges
  PROVE  [by |-> "other",
          tree |-> [folder \in Folders |->
                      IF folder \in DOMAIN change THEN change[folder] ELSE tree[folder]]]
           \in Commits
<1>1. ASSUME NEW folder \in DOMAIN change
      PROVE  folder \in Folders /\ change[folder] \subseteq Files
  <2>1. folder \in Folders
    BY FilesAssumption
  <2>2. change[folder] \in UNION {ChangedTo(c) : c \in OtherChanges}
    BY DEF ChangedTo
  <2> QED BY <2>1, <2>2 DEF Files
<1> DEFINE changed == [folder \in Folders |->
                         IF folder \in DOMAIN change THEN change[folder] ELSE tree[folder]]
<1>2. changed \in [Folders -> SUBSET Files]
  BY <1>1
<1> HIDE DEF changed
<1>3. [by |-> "other", tree |-> changed] \in Commits
  BY <1>2 DEF Commits
<1> QED BY <1>3 DEF changed

LEMMA AgentCommit ==
  ASSUME NEW tree \in [Folders -> SUBSET Files], NEW step \in Steps, NEW files \in FileSets
  PROVE  [by |-> "agent", tree |-> [tree EXCEPT ![step] = files]] \in Commits
BY FilesOfSets DEF Commits, Folders

LEMMA InitTyped == Init => Typed
<1> SUFFICES ASSUME Init PROVE Typed
  OBVIOUS
<1>1. FirstCommit \in Commits
  BY DEF FirstCommit, Commits, NoFiles
<1>2. Absent \in Histories /\ [Absent EXCEPT !["main"] = <<FirstCommit>>] \in Histories
  <2>1. <<>> \in Seq(Commits) /\ <<FirstCommit>> \in Seq(Commits)
    BY <1>1
  <2> QED BY <2>1, Zenon DEF Absent, Histories
<1>3. call.branch \in Branches /\ call.folder \in Steps
  BY FoldersAssumption DEF Init, NoCall, Branches
<1> QED BY <1>2, <1>3 DEF Init, Typed, TypeOK, NonEmpty, Wheres, Refs

\* Preparations.
LEMMA NextRefTyped ==
  ASSUME Typed, ref \in Refs, NextRef
  PROVE  at' \in {"ensure", "idle"} /\ ref' \in Refs /\ (at' = "ensure" => ref' \in Branches)
BY DEF NextRef, Prepare, Goto, Refs, Branches, Typed, TypeOK

LEMMA PrepareTyped ==
  ASSUME Typed, OpenRepo \/ CloneRepo \/ InitRepo \/ EnsureBranch \/ PushRef
  PROVE  Typed'
<1> USE DEF Typed, TypeOK, NonEmpty, Wheres
<1>1. Absent \in Histories /\ <<FirstCommit>> \in Seq(Commits)
  BY DEF Init, FirstCommit, Commits, NoFiles, Absent, Histories
<1>2. CASE OpenRepo
  BY <1>2 DEF OpenRepo, Fetched, Prepare, Branches, Refs, caller, history, Updating
<1>3. CASE CloneRepo
  BY <1>1, <1>3 DEF CloneRepo, Fetched, Prepare, Exists, Absent, Histories, Branches, Refs, caller, Updating
<1>4. CASE InitRepo
  BY <1>1, <1>4 DEF InitRepo, Prepare, Absent, Histories, Branches, Refs, caller, Updating
<1>5. CASE BranchReady
  BY <1>5, NextRefTyped DEF BranchReady, repository, caller, history, Updating
<1>6. CASE CreateBranch
  BY <1>6 DEF CreateBranch, Goto, caller, history, Updating
<1>7. CASE SetReference
  BY <1>7, NextRefTyped DEF SetReference, Histories, Branches, Refs, caller, Updating
<1>8. CASE CheckoutNew
  BY <1>8 DEF CheckoutNew, Goto, Histories, Branches, Refs, caller, history, Updating
<1>9. CASE BranchExists
  BY <1>9 DEF BranchExists, Goto, repository, caller, history, Updating
<1>10. CASE PushRef
  BY <1>10, NextRefTyped DEF PushRef, Pushed, Histories, caller, Updating
<1> QED BY <1>2, <1>3, <1>4, <1>5, <1>6, <1>7, <1>8, <1>9, <1>10 DEF EnsureBranch

LEMMA OtherAppends ==
  ASSUME Typed, NEW branch \in Branches, Other(branch)
  PROVE  \E commit \in Commits :
           LET h == Append(remote[branch], commit)
           IN  /\ h \in Seq(Commits) /\ commit.by = "other"
               /\ remote' = [remote EXCEPT ![branch] = h]
<1>1. remote[branch] \in Seq(Commits) /\ remote[branch] # <<>>
  BY DEF Other, Exists, Typed, TypeOK, Histories, Branches, Refs
<1>2. PICK commit \in Commits :
        commit.by = "other" /\ remote' = [remote EXCEPT ![branch] = Append(@, commit)]
  BY <1>1, TreeType, OtherCommit, Zenon DEF Other
<1> QED BY <1>1, <1>2, AppendProperties

LEMMA OtherTyped ==
  ASSUME Typed, NEW branch \in Branches, Other(branch)
  PROVE  Typed'
<1>1. PICK h \in Seq(Commits) : remote' = [remote EXCEPT ![branch] = h]
  BY OtherAppends
<1>2. remote' \in Histories
  BY <1>1 DEF Typed, TypeOK, Histories
<1> QED BY <1>2 DEF Other, Typed, TypeOK, NonEmpty, Updating, repository, caller, history

LEMMA CallTyped ==
  ASSUME Typed, NEW step \in Steps, PlanFiles(step) \/ ApplyFiles(step)
  PROVE  Typed'
<1> USE DEF Typed, TypeOK, NonEmpty, Wheres, UpdateFiles, Goto, Branches, repository, history
<1>1. CASE PlanFiles(step)
  BY <1>1 DEF PlanFiles
<1>2. CASE ApplyFiles(step)
  <2>1. planned[step] \in FileSets
    BY <1>2 DEF ApplyFiles
  <2> QED BY <1>2, <2>1 DEF ApplyFiles
<1> QED BY <1>1, <1>2

LEMMA UpdateTyped ==
  ASSUME Typed,
         CheckoutCleanBranch \/ NoReference \/ NonFastForward \/ CannotRemove \/ NoChanges
           \/ Push \/ PushFails \/ UpdateFails
  PROVE  Typed'
<1> USE DEF Typed, TypeOK, NonEmpty, Wheres, Goto, Updating
<1> Updating \in Refs
  BY DEF Branches, Refs
<1>1. CASE CheckoutCleanBranch
  <2>1. remote[Updating] # <<>> \/ local' = local
    BY <1>1, PrefixNonEmpty DEF CheckoutCleanBranch, FastForward, Histories
  <2> QED BY <1>1, <2>1 DEF CheckoutCleanBranch, Fetched, Histories, history
<1>2. CASE NoReference
  BY <1>2 DEF NoReference, Return, repository, history
<1>3. CASE NonFastForward
  BY <1>3 DEF NonFastForward, Fetched, Return, history
<1>4. CASE CannotRemove \/ NoChanges
  BY <1>4 DEF CannotRemove, NoChanges, Return, repository, history
<1>5. CASE Push
  BY <1>5 DEF Push, Pushed, Return, Histories
<1>6. CASE PushFails
  BY <1>6 DEF PushFails, Return, Histories, repository
<1>7. CASE UpdateFails
  BY <1>7 DEF UpdateFails, Fetched, Return, history
<1> QED BY <1>1, <1>2, <1>3, <1>4, <1>5, <1>6, <1>7

LEMMA CommitTyped ==
  ASSUME Typed, Commit
  PROVE  Typed'
<1>1. local[Updating] \in Seq(Commits) /\ local[Updating] # <<>> /\ Updating \in Refs
  BY DEF Commit, Typed, TypeOK, NonEmpty, Histories, Updating, Branches, Refs
<1>2. Checkedout \in [Folders -> SUBSET Files]
  BY <1>1, TreeType DEF Checkedout
<1>3. call.folder \in Steps /\ call.files \in FileSets
  BY DEF Commit, Typed, TypeOK
<1>4. PICK commit \in Commits : local' = [local EXCEPT ![Updating] = Append(@, commit)]
  BY <1>2, <1>3, UpdatedIsAsked, AgentCommit DEF Commit
<1>5. PICK h \in Seq(Commits) : local' = [local EXCEPT ![Updating] = h] /\ h # <<>>
  BY <1>1, <1>4, AppendProperties
<1>6. local' \in Histories /\ local'[Updating] # <<>> /\ (local'[head] # <<>> \/ ~present)
  BY <1>1, <1>5 DEF Typed, TypeOK, NonEmpty, Histories
<1> QED BY <1>6
        DEF Commit, Goto, Typed, TypeOK, NonEmpty, Wheres, Updating, caller, history

LEMMA EndTyped ==
  ASSUME Typed, EndSession \/ LoseDirectory
  PROVE  Typed'
<1> USE DEF Typed, TypeOK, NonEmpty, Wheres, Goto
<1>1. Absent \in Histories
  BY DEF Commits, Absent, Histories
<1>2. CASE EndSession
  <2>1. NoCall.branch \in Branches /\ NoCall.folder \in Steps
    BY FoldersAssumption DEF NoCall, Branches
  <2>2. remote' \in Histories
    BY <1>2 DEF EndSession, Histories
  <2>3. unpushed' \subseteq Branches
    BY <1>2 DEF EndSession
  <2> QED BY <1>2, <2>1, <2>2, <2>3 DEF EndSession, repository
<1>3. CASE LoseDirectory
  BY <1>1, <1>3 DEF LoseDirectory, Refs, caller
<1> QED BY <1>2, <1>3

LEMMA TypedStep ==
  ASSUME Typed, [Next]_vars
  PROVE  Typed'
<1>1. CASE UNCHANGED vars
  BY <1>1 DEF vars, repository, caller, history, Typed, TypeOK, NonEmpty, Updating
<1> QED BY <1>1, PrepareTyped, OtherTyped, CallTyped, UpdateTyped, CommitTyped, EndTyped DEF Next

\* The types, and what the temporary directory holds: for any steps, file sets
\* and other writers.
THEOREM TypeCorrect == Spec => []TypeOK
<1>1. Init => Typed
  BY InitTyped
<1>2. Typed /\ [Next]_vars => Typed'
  BY TypedStep
<1>3. Typed => TypeOK
  BY DEF Typed
<1> QED BY <1>1, <1>2, <1>3, PTL DEF Spec

(***************************************************************************)
(* The remote and what has been pushed to it                               *)
(***************************************************************************)
\* A step that changes the remote extends one of its refs.
LEMMA RemoteStep ==
  ASSUME Typed, [Next]_vars
  PROVE  \/ remote' = remote
         \/ \E name \in Refs :
              \E h \in Seq(Commits) :
                IsPrefix(remote[name], h) /\ remote' = [remote EXCEPT ![name] = h]
<1> USE DEF Typed, TypeOK, Histories
<1>1. CASE \E branch \in Branches : Other(branch)
  <2>1. PICK branch \in Branches : Other(branch)
    BY <1>1
  <2>2. branch \in Refs /\ remote[branch] \in Seq(Commits)
    BY DEF Branches, Refs
  <2>3. PICK commit \in Commits :
          /\ Append(remote[branch], commit) \in Seq(Commits)
          /\ remote' = [remote EXCEPT ![branch] = Append(@, commit)]
    BY <2>1, OtherAppends
  <2> QED BY <2>2, <2>3, PrefixOfAppend
<1>2. CASE PushRef
  BY <1>2 DEF PushRef, Pushed, Pushable
<1>3. CASE Push \/ PushFails
  BY <1>3 DEF Push, PushFails, Pushed, Pushable, Updating, Branches, Refs
<1>4. CASE EndSession
  BY <1>4 DEF EndSession, Pushable
<1>5. CASE OpenRepo \/ CloneRepo \/ InitRepo \/ EnsureBranch
  BY <1>5 DEF OpenRepo, CloneRepo, InitRepo, EnsureBranch, BranchReady, CreateBranch,
              SetReference, CheckoutNew, BranchExists
<1>6. CASE \E step \in Steps : PlanFiles(step) \/ ApplyFiles(step)
  BY <1>6 DEF PlanFiles, ApplyFiles
<1>7. CASE CheckoutCleanBranch \/ NoReference \/ NonFastForward \/ CannotRemove
             \/ NoChanges \/ Commit \/ UpdateFails \/ LoseDirectory \/ UNCHANGED vars
  BY <1>7 DEF CheckoutCleanBranch, NoReference, NonFastForward, CannotRemove, NoChanges,
              Commit, UpdateFails, LoseDirectory, vars
<1> QED BY <1>1, <1>2, <1>3, <1>4, <1>5, <1>6, <1>7 DEF Next

LEMMA RemoteExtends ==
  ASSUME Typed, [Next]_vars, NEW name \in Refs
  PROVE  IsPrefix(remote[name], remote'[name])
<1>1. remote[name] \in Seq(Commits)
  BY DEF Typed, TypeOK, Histories
<1>2. CASE remote' = remote
  BY <1>1, <1>2, PrefixReflexive
<1>3. CASE \E other \in Refs :
              \E h \in Seq(Commits) :
                IsPrefix(remote[other], h) /\ remote' = [remote EXCEPT ![other] = h]
  BY <1>1, <1>3, PrefixReflexive DEF Typed, TypeOK, Histories
<1> QED BY <1>2, <1>3, RemoteStep

\* Nothing that another writer has pushed is ever lost.
THEOREM HistoryKept == Spec => RemoteKeepsHistory
<1>1. Typed /\ [Next]_vars => [\A name \in Refs : IsPrefix(remote[name], remote'[name])]_vars
  BY RemoteExtends
<1> QED BY <1>1, InitTyped, TypedStep, PTL DEF Spec, RemoteKeepsHistory

\* What was fetched last is a part of what the remote has.
TrackingOld == \A name \in Refs : IsPrefix(tracking[name], remote[name])

LEMMA TrackingStep ==
  ASSUME Typed, [Next]_vars, NEW name \in Refs
  PROVE  tracking'[name] = tracking[name] \/ tracking'[name] = remote'[name]
           \/ tracking'[name] = <<>>
<1> USE DEF Typed, TypeOK, Histories, Absent
<1>1. CASE OpenRepo \/ CloneRepo \/ InitRepo \/ LoseDirectory
  BY <1>1 DEF OpenRepo, CloneRepo, InitRepo, LoseDirectory, Fetched
<1>2. CASE EnsureBranch
  BY <1>2 DEF EnsureBranch, BranchReady, CreateBranch, SetReference, CheckoutNew,
              BranchExists, repository
<1>3. CASE PushRef \/ Push
  BY <1>3 DEF PushRef, Push, Pushed
<1>4. CASE \E branch \in Branches : Other(branch)
  BY <1>4 DEF Other, repository
<1>5. CASE \E step \in Steps : PlanFiles(step) \/ ApplyFiles(step)
  BY <1>5 DEF PlanFiles, ApplyFiles, repository
<1>6. CASE CheckoutCleanBranch \/ NonFastForward \/ UpdateFails
  BY <1>6 DEF CheckoutCleanBranch, NonFastForward, UpdateFails, Fetched
<1>7. CASE NoReference \/ CannotRemove \/ NoChanges \/ Commit \/ PushFails \/ EndSession
             \/ UNCHANGED vars
  BY <1>7 DEF NoReference, CannotRemove, NoChanges, Commit, PushFails, EndSession,
              repository, vars
<1> QED BY <1>1, <1>2, <1>3, <1>4, <1>5, <1>6, <1>7 DEF Next

LEMMA TrackingStaysOld ==
  ASSUME Typed, TrackingOld, [Next]_vars
  PROVE  TrackingOld'
<1> SUFFICES ASSUME NEW name \in Refs PROVE IsPrefix(tracking'[name], remote'[name])
  BY DEF TrackingOld
<1>1. /\ tracking[name] \in Seq(Commits)
      /\ remote[name] \in Seq(Commits) /\ remote'[name] \in Seq(Commits)
  BY TypedStep DEF Typed, TypeOK, Histories
<1>2. CASE tracking'[name] = tracking[name]
  BY <1>1, <1>2, RemoteExtends, PrefixTransitive DEF TrackingOld
<1>3. CASE tracking'[name] = remote'[name]
  BY <1>1, <1>3, PrefixReflexive
<1>4. CASE tracking'[name] = <<>>
  BY <1>1, <1>4, EmptyIsPrefix
<1> QED BY <1>2, <1>3, <1>4, TrackingStep

\* What a step does to a local branch of which no push has failed or goes on.
LEMMA LocalStep ==
  ASSUME Typed, TrackingOld, LocalIsPushed, [Next]_vars,
         NEW branch \in Branches, branch \notin unpushed', ~Pushing(branch)'
  PROVE  \/ local'[branch] = <<>>
         \/ local'[branch] = remote'[branch]
         \/ local'[branch] = local[branch] /\ IsPrefix(local[branch], remote[branch])
         \/ local'[branch] = tracking[branch]
<1> USE DEF Typed, TypeOK, Histories, Absent, LocalIsPushed, Pushing, Updating, Goto
<1> branch \in Refs /\ branch # "main"
  BY DEF Branches, Refs
<1>1. CASE CloneRepo \/ InitRepo \/ LoseDirectory
  BY <1>1 DEF CloneRepo, InitRepo, LoseDirectory
<1>2. CASE OpenRepo
  BY <1>2 DEF OpenRepo, Prepare, history, caller
<1>3. CASE BranchReady \/ CreateBranch \/ BranchExists
  BY <1>3 DEF BranchReady, CreateBranch, BranchExists, repository, history, caller
<1>4. CASE SetReference
  BY <1>4 DEF SetReference, caller
<1>5. CASE CheckoutNew
  BY <1>5 DEF CheckoutNew, history, caller
<1>6. CASE PushRef \/ Push
  BY <1>6 DEF PushRef, Push, Pushed, Return
<1>7. CASE \E other \in Branches : Other(other)
  BY <1>7 DEF Other, repository, history, caller
<1>8. CASE \E step \in Steps : PlanFiles(step) \/ ApplyFiles(step)
  BY <1>8 DEF PlanFiles, ApplyFiles, UpdateFiles, repository, history
<1>9. CASE CheckoutCleanBranch
  BY <1>9 DEF CheckoutCleanBranch, history
<1>10. CASE NonFastForward \/ UpdateFails \/ NoReference \/ CannotRemove \/ NoChanges
  BY <1>10 DEF NonFastForward, UpdateFails, NoReference, CannotRemove, NoChanges, Return,
               repository, history
<1>11. CASE Commit
  BY <1>11 DEF Commit, history, caller
<1>12. CASE PushFails \/ EndSession
  BY <1>12 DEF PushFails, EndSession, Return, repository
<1>13. CASE UNCHANGED vars
  BY <1>13 DEF vars, repository, history, caller
<1> QED BY <1>1, <1>2, <1>3, <1>4, <1>5, <1>6, <1>7, <1>8, <1>9, <1>10, <1>11, <1>12, <1>13
        DEF Next, EnsureBranch

LEMMA LocalStaysPushed ==
  ASSUME Typed, TrackingOld, LocalIsPushed, [Next]_vars
  PROVE  LocalIsPushed'
<1> SUFFICES ASSUME NEW branch \in Branches, branch \notin unpushed', ~Pushing(branch)'
             PROVE  IsPrefix(local'[branch], remote'[branch])
  BY DEF LocalIsPushed
<1>1. branch \in Refs
  BY DEF Branches, Refs
<1>2. /\ local[branch] \in Seq(Commits) /\ tracking[branch] \in Seq(Commits)
      /\ remote[branch] \in Seq(Commits) /\ remote'[branch] \in Seq(Commits)
  BY <1>1, TypedStep DEF Typed, TypeOK, Histories
<1>3. IsPrefix(remote[branch], remote'[branch])
  BY <1>1, RemoteExtends
<1>4. CASE local'[branch] = <<>>
  BY <1>2, <1>4, EmptyIsPrefix
<1>5. CASE local'[branch] = remote'[branch]
  BY <1>2, <1>5, PrefixReflexive
<1>6. CASE local'[branch] = local[branch] /\ IsPrefix(local[branch], remote[branch])
  BY <1>2, <1>3, <1>6, PrefixTransitive
<1>7. CASE local'[branch] = tracking[branch]
  BY <1>1, <1>2, <1>3, <1>7, PrefixTransitive DEF TrackingOld
<1> QED BY <1>4, <1>5, <1>6, <1>7, LocalStep

LEMMA InitPushed == Init => TrackingOld /\ LocalIsPushed
<1> SUFFICES ASSUME Init PROVE TrackingOld /\ LocalIsPushed
  OBVIOUS
<1>1. \A name \in Refs : remote[name] \in Seq(Commits) /\ tracking[name] = <<>> /\ local[name] = <<>>
  BY InitTyped DEF Typed, TypeOK, Histories, Init, Absent
<1> QED BY <1>1, EmptyIsPrefix DEF TrackingOld, LocalIsPushed, Branches, Refs

\* The agent keeps no commits to itself, unless a push has failed, whatever
\* others push in between and wherever its sessions end.
THEOREM PushedUnlessFailed == Spec => []LocalIsPushed
<1>1. Init => Typed /\ TrackingOld /\ LocalIsPushed
  BY InitTyped, InitPushed
<1>2. Typed /\ TrackingOld /\ LocalIsPushed /\ [Next]_vars
        => (Typed /\ TrackingOld /\ LocalIsPushed)'
  BY TypedStep, TrackingStaysOld, LocalStaysPushed
<1> QED BY <1>1, <1>2, PTL DEF Spec

(***************************************************************************)
(* What the commits hold                                                   *)
(***************************************************************************)
\* A commit of the agent after another one, as WholeFolders has it.
Follows(commit, tree) ==
  commit.by = "agent" =>
    \E step \in Steps, files \in FileSets : commit.tree = [tree EXCEPT ![step] = files]
Whole(h) == \A i \in 2..Len(h) : Follows(h[i], h[i - 1].tree)
AllWhole(refs) == \A name \in Refs : Whole(refs[name])
WholeInv == AllWhole(remote) /\ AllWhole(tracking) /\ AllWhole(local)

LEMMA WholeAppend ==
  ASSUME NEW h \in Seq(Commits), Whole(h), NEW commit \in Commits,
         h # <<>> => Follows(commit, Last(h).tree)
  PROVE  Whole(Append(h, commit))
<1> DEFINE g == Append(h, commit)
<1>1. /\ Len(h) \in Nat /\ Len(g) = Len(h) + 1
      /\ \A i \in 1..Len(h) : g[i] = h[i]
      /\ g[Len(h) + 1] = commit
  BY AppendProperties
<1> HIDE DEF g
<1>2. SUFFICES ASSUME NEW i \in 2..Len(g) PROVE Follows(g[i], g[i - 1].tree)
  BY DEF Whole, g
<1>3. CASE i \in 2..Len(h)
  <2>1. g[i] = h[i] /\ g[i - 1] = h[i - 1]
    BY <1>1, <1>3
  <2> QED BY <1>3, <2>1 DEF Whole
<1>4. CASE i = Len(h) + 1
  <2>1. g[i] = commit /\ g[i - 1] = h[Len(h)] /\ h # <<>>
    BY <1>1, <1>2, <1>4
  <2> QED BY <2>1 DEF Last
<1> QED BY <1>1, <1>2, <1>3, <1>4

LEMMA WholeEmpty == Whole(<<>>) /\ Whole(<<FirstCommit>>)
BY DEF Whole

LEMMA CommitFollows ==
  ASSUME Typed, WholeInv, Commit
  PROVE  AllWhole(local')
<1>1. /\ Updating \in Refs /\ local[Updating] \in Seq(Commits) /\ local[Updating] # <<>>
      /\ call.folder \in Steps /\ call.files \in FileSets
  BY DEF Commit, Typed, TypeOK, NonEmpty, Histories, Updating, Branches, Refs
<1>2. Checkedout \in [Folders -> SUBSET Files]
  BY <1>1, TreeType DEF Checkedout
<1>3. PICK commit \in Commits :
        /\ commit = [by |-> "agent", tree |-> [Checkedout EXCEPT ![call.folder] = call.files]]
        /\ local' = [local EXCEPT ![Updating] = Append(@, commit)]
  BY <1>1, <1>2, UpdatedIsAsked, AgentCommit DEF Commit
<1>4. Follows(commit, Last(local[Updating]).tree)
  BY <1>1, <1>3 DEF Follows, Checkedout
<1>5. Whole(Append(local[Updating], commit))
  BY <1>1, <1>4, WholeAppend DEF WholeInv, AllWhole
<1> QED BY <1>1, <1>3, <1>5 DEF AllWhole, WholeInv, Typed, TypeOK, Histories

LEMMA OtherFollows ==
  ASSUME Typed, WholeInv, NEW branch \in Branches, Other(branch)
  PROVE  AllWhole(remote')
<1>1. branch \in Refs /\ remote[branch] \in Seq(Commits)
  BY DEF Typed, TypeOK, Histories, Branches, Refs
<1>2. PICK commit \in Commits :
        /\ Append(remote[branch], commit) \in Seq(Commits) /\ commit.by = "other"
        /\ remote' = [remote EXCEPT ![branch] = Append(@, commit)]
  BY OtherAppends
<1>3. Follows(commit, Last(remote[branch]).tree)
  BY <1>2 DEF Follows
<1>4. Whole(Append(remote[branch], commit))
  BY <1>1, <1>2, <1>3, WholeAppend DEF WholeInv, AllWhole
<1> QED BY <1>1, <1>2, <1>4 DEF AllWhole, WholeInv, Typed, TypeOK, Histories

LEMMA WholeStep ==
  ASSUME Typed, WholeInv, [Next]_vars
  PROVE  WholeInv'
<1> USE DEF WholeInv, AllWhole
<1> remote \in [Refs -> Seq(Commits)] /\ tracking \in [Refs -> Seq(Commits)]
    /\ local \in [Refs -> Seq(Commits)]
  BY DEF Typed, TypeOK, Histories
<1>1. CASE Commit
  BY <1>1, CommitFollows DEF Commit
<1>2. CASE \E branch \in Branches : Other(branch)
  BY <1>2, OtherFollows DEF Other, repository
<1>3. CASE OpenRepo \/ CloneRepo \/ InitRepo \/ LoseDirectory
  BY <1>3, WholeEmpty DEF OpenRepo, CloneRepo, InitRepo, LoseDirectory, Fetched, Absent
<1>4. CASE BranchReady \/ CreateBranch \/ BranchExists \/ NoReference \/ CannotRemove \/ NoChanges
             \/ UNCHANGED vars
  BY <1>4 DEF BranchReady, CreateBranch, BranchExists, NoReference, CannotRemove, NoChanges,
              vars, repository
<1>5. CASE SetReference
  BY <1>5 DEF SetReference
<1>6. CASE CheckoutNew
  BY <1>6 DEF CheckoutNew, Typed, TypeOK
<1>7. CASE PushRef \/ Push
  BY <1>7 DEF PushRef, Push, Pushed
<1>8. CASE \E step \in Steps : PlanFiles(step) \/ ApplyFiles(step)
  BY <1>8 DEF PlanFiles, ApplyFiles, repository
<1>9. CASE CheckoutCleanBranch
  BY <1>9 DEF CheckoutCleanBranch, Fetched
<1>10. CASE NonFastForward \/ UpdateFails
  BY <1>10 DEF NonFastForward, UpdateFails, Fetched
<1>11. CASE PushFails \/ EndSession
  BY <1>11 DEF PushFails, EndSession, repository
<1> QED BY <1>1, <1>2, <1>3, <1>4, <1>5, <1>6, <1>7, <1>8, <1>9, <1>10, <1>11
        DEF Next, EnsureBranch

\* A commit of the agent is one update: the files of one step, whole, over what
\* was there.
THEOREM CommitsWhole == Spec => []WholeFolders
<1>1. Init => Typed /\ WholeInv
  <2> SUFFICES ASSUME Init PROVE Typed /\ WholeInv
    OBVIOUS
  <2>1. \A name \in Refs : {remote[name], tracking[name], local[name]} \subseteq {<<>>, <<FirstCommit>>}
    BY DEF Init, Absent
  <2> QED BY <2>1, InitTyped, WholeEmpty DEF WholeInv, AllWhole
<1>2. Typed /\ WholeInv /\ [Next]_vars => (Typed /\ WholeInv)'
  BY TypedStep, WholeStep
<1>3. Typed /\ WholeInv => WholeFolders
  <2> SUFFICES ASSUME Typed, WholeInv, NEW branch \in Branches, NEW i \in 2..Len(remote[branch]),
                      remote[branch][i].by = "agent"
               PROVE  \E step \in Steps, files \in FileSets :
                        remote[branch][i].tree = [remote[branch][i - 1].tree EXCEPT ![step] = files]
    BY DEF WholeFolders
  <2>1. branch \in Refs
    BY DEF Branches, Refs
  <2> QED BY <2>1 DEF WholeInv, AllWhole, Whole, Follows
<1> QED BY <1>1, <1>2, <1>3, PTL DEF Spec

(***************************************************************************)
(* Repositories that can be opened again                                   *)
(***************************************************************************)
\* A branch that the local repository knows is there and at the remote, except
\* while it is being prepared.
Settled(branch) ==
  /\ branch \in configured => local[branch] # <<>>
  /\ local[branch] # <<>> => Exists(branch)
OpenInv ==
  present /\ ~interrupted =>
    /\ Exists("main") \/ (at = "pushref" /\ ref = "main")
    /\ \A branch \in Branches :
         Settled(branch) \/ (at \in {"reference", "pushref"} /\ ref = branch)

LEMMA RemoteNonEmpty ==
  ASSUME Typed, TrackingOld, [Next]_vars, NEW name \in Refs
  PROVE  /\ Exists(name) => Exists(name)'
         /\ tracking[name] # <<>> => Exists(name)
<1>1. /\ remote[name] \in Seq(Commits) /\ remote'[name] \in Seq(Commits)
      /\ tracking[name] \in Seq(Commits)
  BY TypedStep DEF Typed, TypeOK, Histories
<1>2. Exists(name) => Exists(name)'
  BY <1>1, RemoteExtends, PrefixNonEmpty DEF Exists
<1>3. tracking[name] # <<>> => Exists(name)
  BY <1>1, PrefixNonEmpty DEF Exists, TrackingOld
<1> QED BY <1>2, <1>3

LEMMA OpenStep ==
  ASSUME Typed, TrackingOld, OpenInv, [Next]_vars
  PROVE  OpenInv'
<1>1. /\ "main" \in Refs /\ Branches \subseteq Refs /\ "main" \notin Branches
      /\ \A name \in Refs : /\ Exists(name) => Exists(name)'
                            /\ tracking[name] # <<>> => Exists(name)
  BY RemoteNonEmpty DEF Branches, Refs
<1> USE <1>1 DEF OpenInv, Settled, Goto
<1>2. CASE OpenRepo
  BY <1>2 DEF OpenRepo, Prepare, history
<1>3. CASE CloneRepo
  BY <1>3 DEF CloneRepo, Prepare, Absent, Exists
<1>4. CASE InitRepo
  BY <1>4 DEF InitRepo, Prepare, Absent
<1>5. CASE BranchReady
  BY <1>5 DEF BranchReady, NextRef, Prepare, repository, history
<1>6. CASE CreateBranch
  BY <1>6 DEF CreateBranch, history
<1>7. CASE SetReference
  <2>1. ref \in Branches /\ tracking[ref] # <<>> /\ local \in [Refs -> Seq(Commits)]
    BY <1>7 DEF SetReference, Typed, TypeOK, NonEmpty, Histories
  <2>2. at' \notin {"reference", "pushref"}
    BY <1>7, NextRefTyped DEF SetReference, Typed, TypeOK
  <2> QED BY <1>7, <2>1, <2>2 DEF SetReference
<1>8. CASE CheckoutNew
  BY <1>8 DEF CheckoutNew, history, Typed, TypeOK, Histories
<1>9. CASE BranchExists
  BY <1>9 DEF BranchExists, repository, history
<1>10. CASE PushRef
  <2>1. PICK name \in Refs : name = ref
    BY DEF Typed, TypeOK
  <2>2. local[name] # <<>> /\ remote \in [Refs -> Seq(Commits)]
    BY <1>10, <2>1 DEF PushRef, Typed, TypeOK, NonEmpty, Histories
  <2>3. Exists(name)'
    BY <1>10, <2>1, <2>2 DEF PushRef, Pushed, Exists
  <2>4. name = "main" \/ Settled(name)'
    BY <1>10, <2>2, <2>3 DEF PushRef
  <2>5. \A branch \in Branches : Settled(branch) => Settled(branch)'
    BY <1>10 DEF PushRef
  <2>6. present' = present /\ interrupted' = interrupted
    BY <1>10 DEF PushRef
  <2>7. Exists("main") \/ name = "main" => Exists("main")'
    BY <2>3
  <2> HIDE DEF Settled
  <2> QED BY <1>10, <2>1, <2>4, <2>5, <2>6, <2>7 DEF PushRef
<1>11. CASE \E branch \in Branches : Other(branch)
  BY <1>11 DEF Other, repository, history
<1>12. CASE \E step \in Steps : PlanFiles(step) \/ ApplyFiles(step)
  <2>1. at = "idle" /\ at' = "checkout" /\ UNCHANGED <<remote, repository, history>>
    BY <1>12 DEF PlanFiles, ApplyFiles, UpdateFiles
  <2> QED BY <2>1 DEF repository, history, Exists
<1>13. CASE CheckoutCleanBranch
  <2>1. /\ local \in [Refs -> Seq(Commits)] /\ local[Updating] # <<>>
        /\ Updating \in Refs /\ local' \in [Refs -> Seq(Commits)]
    BY <1>13, TypedStep DEF CheckoutCleanBranch, Typed, TypeOK, Updating, Branches, Refs, Histories
  <2>2. local'[Updating] # <<>>
    BY <1>13, TypedStep DEF CheckoutCleanBranch, Typed, TypeOK, NonEmpty, Updating
  <2>3. \A name \in Refs \ {Updating} : local'[name] = local[name]
    BY <1>13, <2>1 DEF CheckoutCleanBranch
  <2> QED BY <1>13, <2>1, <2>2, <2>3 DEF CheckoutCleanBranch, history
<1>14. CASE NoReference \/ NonFastForward \/ CannotRemove \/ NoChanges \/ UpdateFails
  BY <1>14 DEF NoReference, NonFastForward, CannotRemove, NoChanges, UpdateFails, Return,
               repository, history
<1>15. CASE Commit
  <2>1. /\ local[Updating] # <<>> /\ Updating \in Refs /\ local \in [Refs -> Seq(Commits)]
    BY <1>15 DEF Commit, Typed, TypeOK, NonEmpty, Updating, Branches, Refs, Histories
  <2>2. \A name \in Refs \ {Updating} : local'[name] = local[name]
    BY <1>15, <2>1 DEF Commit
  <2>3. local'[Updating] # <<>>
    BY <1>15, TypedStep DEF Commit, Typed, TypeOK, NonEmpty, Updating
  <2> QED BY <1>15, <2>1, <2>2, <2>3 DEF Commit, history
<1>16. CASE Push \/ PushFails
  BY <1>16 DEF Push, Pushed, PushFails, Return, repository
<1>17. CASE EndSession
  BY <1>17 DEF EndSession, repository
<1>18. CASE LoseDirectory
  BY <1>18 DEF LoseDirectory
<1>19. CASE UNCHANGED vars
  BY <1>19 DEF vars, repository, history
<1> QED BY <1>2, <1>3, <1>4, <1>5, <1>6, <1>7, <1>8, <1>9, <1>10, <1>11, <1>12, <1>13, <1>14,
           <1>15, <1>16, <1>17, <1>18, <1>19
        DEF Next, EnsureBranch

\* Whatever a session has done and wherever it ended, the next one can open the
\* repository, except after the few calls that prepare it.
THEOREM Reopens == Spec => []OpensAgain
<1>1. Init => Typed /\ TrackingOld /\ OpenInv
  BY InitTyped, InitPushed DEF Init, OpenInv
<1>2. Typed /\ TrackingOld /\ OpenInv /\ [Next]_vars => (Typed /\ TrackingOld /\ OpenInv)'
  BY TypedStep, TrackingStaysOld, OpenStep
<1>3. OpenInv => OpensAgain
  BY DEF OpenInv, OpensAgain, Usable, Settled
<1> QED BY <1>1, <1>2, <1>3, PTL DEF Spec
==============================================================================
