------------------------ MODULE SourceCheckout_proofs ------------------------
(***************************************************************************)
(* Theorems about SourceCheckout, for any releases, branches and number of *)
(* commits.                                                                *)
(***************************************************************************)
EXTENDS SourceCheckout, TLAPS

(***************************************************************************)
(* Types                                                                   *)
(***************************************************************************)
LEMMA CommitNumbers == Maybe \subseteq Nat /\ Absent \in Maybe /\ 1 \in Maybe
BY DefaultAssumption DEF Maybe, Commits, Absent

LEMMA InitTyped == Init => TypeOK
<1> SUFFICES ASSUME Init PROVE TypeOK
  OBVIOUS
<1>1. newest \in Commits /\ heads \in Maybe /\ worktree \in Maybe
  BY DefaultAssumption, CommitNumbers DEF Init, Commits
<1>2. branches \in [Branches -> Maybe] /\ tags \in [Tags -> Maybe]
  BY CommitNumbers DEF Init
<1>3. trees \in [Releases -> Maybe] /\ read \in [Releases -> SUBSET (Maybe \union {Broken})]
  BY CommitNumbers DEF Init, NoTrees, NothingRead
<1> QED BY <1>1, <1>2, <1>3 DEF Init, TypeOK, Versions

LEMMA NewClientTyped ==
  ASSUME TypeOK, NEW version \in Versions, NewClient(version)
  PROVE  /\ running' \in BOOLEAN /\ forced' \in Versions /\ pulled' \subseteq Branches
         /\ current' \in Versions /\ trees' \in [Releases -> Maybe]
         /\ read' \in [Releases -> SUBSET (Maybe \union {Broken})]
         /\ atStart' \in [Branches -> Maybe] /\ failed' \subseteq {"fetch", "checkout"}
<1>1. running' \in BOOLEAN
  BY DEF NewClient, Usable
<1> QED BY <1>1, CommitNumbers DEF NewClient, TypeOK, NoTrees, NothingRead, Versions

LEMMA OpenTyped ==
  ASSUME TypeOK, NEW version \in Versions, Clone(version) \/ Open(version)
  PROVE  TypeOK'
<1>1. NewClient(version)
  BY DEF Clone, Open
<1>2. Default \in Branches
  BY DefaultAssumption
<1>3. /\ newest' \in Commits /\ branches' \in [Branches -> Maybe] /\ tags' \in [Tags -> Maybe]
      /\ present' \in BOOLEAN /\ detached' \in BOOLEAN
      /\ tracking' \in [Branches -> Maybe] /\ known' \in [Tags -> Maybe] /\ heads' \in Maybe
      /\ worktree' \in Maybe \union {Broken}
      /\ present'
  <2>1. CASE Clone(version)
    BY <1>2, <2>1 DEF Clone, remote, TypeOK
  <2>2. CASE Open(version)
    BY <1>2, <2>2 DEF Open, remote, TypeOK
  <2> QED BY <2>1, <2>2
<1> QED BY <1>1, <1>3, NewClientTyped DEF TypeOK

LEMMA FetchedTyped ==
  ASSUME TypeOK, NEW release \in Releases, Fetched(release) \/ FetchFails(release)
  PROVE  tracking' \in [Branches -> Maybe] /\ pulled' \subseteq Branches
BY DEF Fetched, FetchFails, Fetch, Releases, TypeOK

LEMMA ContentTyped ==
  ASSUME TypeOK, NEW release \in Releases
  PROVE  Content(release) \in Maybe /\ Resolve(release) \in Maybe
BY DEF Content, Resolve, Releases, TypeOK

LEMMA ReadTyped ==
  ASSUME TypeOK, NEW release \in Releases, Read(release) \/ ReadBreaks(release) \/ LookUp(release)
  PROVE  TypeOK'
<1>1. tracking' \in [Branches -> Maybe] /\ pulled' \subseteq Branches
  BY FetchedTyped DEF Read, ReadBreaks, LookUp
<1>2. known' = known /\ heads' = heads
  BY DEF Read, ReadBreaks, LookUp
<1>3. Content(release)' \in Maybe /\ Resolve(release)' \in Maybe
  BY <1>1, <1>2 DEF Content, Resolve, Releases, TypeOK
<1>4. CASE Read(release)
  BY <1>1, <1>3, <1>4 DEF Read, ReadFrom, remote, TypeOK, Versions
<1>5. CASE ReadBreaks(release)
  BY <1>1, <1>5 DEF ReadBreaks, remote, TypeOK
<1>6. CASE LookUp(release)
  <2>1. failed' \subseteq {"fetch", "checkout"}
    BY <1>6 DEF LookUp, FetchFails, TypeOK
  <2> QED BY <1>1, <1>3, <1>6, <2>1 DEF LookUp, remote, TypeOK
<1> QED BY <1>4, <1>5, <1>6

LEMMA TypedStep ==
  ASSUME TypeOK, [Next]_vars
  PROVE  TypeOK'
<1>1. CASE \E branch \in Branches : CommitTo(branch)
  <2>1. newest' \in Commits
    BY <1>1, DefaultAssumption DEF CommitTo, TypeOK, Commits
  <2> QED BY <1>1, <2>1 DEF CommitTo, TypeOK, Maybe, refs, client, history
<1>2. CASE \E tag \in Tags : Tag(tag)
  BY <1>2, DefaultAssumption DEF Tag, TypeOK, refs, client, history
<1>3. CASE OpenBreaks
  BY <1>3, DefaultAssumption DEF OpenBreaks, TypeOK, remote, client, history
<1>4. CASE ReadCurrent
  BY <1>4 DEF ReadCurrent, ReadFrom, TypeOK, remote, refs, client
<1>5. CASE EndSession
  BY <1>5 DEF EndSession, TypeOK, remote, refs, history
<1>7. CASE Killed
  BY <1>7 DEF Killed, TypeOK, remote, refs, history
<1>8. CASE LoseDirectory
  BY <1>8 DEF LoseDirectory, TypeOK, remote, refs, client, history
<1>6. CASE UNCHANGED vars
  BY <1>6 DEF vars, remote, refs, client, history, TypeOK
<1> QED BY <1>1, <1>2, <1>3, <1>4, <1>5, <1>6, <1>7, <1>8, OpenTyped, ReadTyped DEF Next

\* The types, and that a client has its clone.
THEOREM TypeCorrect == Spec => []TypeOK
BY InitTyped, TypedStep, PTL DEF Spec

(***************************************************************************)
(* What a client knows of its clone                                        *)
(***************************************************************************)
\* A client has fetched every branch it has read or found in a tree without an
\* error, and keeps to the commit it got.
Pulled(release) == release \in Tags \union pulled
CheckoutInv ==
  running =>
    /\ current # None => Pulled(current)
    /\ current # None /\ "checkout" \notin failed => worktree = Content(current)
    /\ \A release \in Releases : read[release] # {} => Pulled(release)
    /\ "checkout" \notin failed =>
         \A release \in Releases : read[release] \subseteq {Content(release)}
TreesInv ==
  running /\ "fetch" \notin failed =>
    \A release \in Releases \ {Default} :
      trees[release] # Absent => Pulled(release) /\ trees[release] = Content(release)

\* What is known of the branches of the remote is not newer than they are, and
\* in a session not older than they were when it began.
AgesInv ==
  /\ \A branch \in Branches : /\ branches[branch] <= newest
                              /\ tracking[branch] <= branches[branch]
                              /\ atStart[branch] <= branches[branch]
  /\ running => \A branch \in Branches :
       /\ tracking[branch] >= atStart[branch]
       /\ branch # Default /\ trees[branch] # Absent => trees[branch] >= atStart[branch]

\* A fetch gets a branch as the client has it already, or one it has not used.
LEMMA FetchedContent ==
  ASSUME TypeOK, NEW release \in Releases, Fetched(release), known' = known
  PROVE  /\ Pulled(release)' /\ \A other \in Releases \union {None} : Pulled(other) => Pulled(other)'
         /\ \A other \in Releases : Content(other)' = Content(other)
                                      \/ (other = release /\ ~Pulled(other))
BY NamesAssumption DEF Fetched, Fetch, Pulled, Content, Releases, TypeOK

LEMMA NewClientKnowsNothing ==
  ASSUME NEW version, NewClient(version)
  PROVE  CheckoutInv' /\ TreesInv'
BY DEF NewClient, CheckoutInv, TreesInv, NoTrees, NothingRead, Pulled, Content

LEMMA ReadKeeps ==
  ASSUME TypeOK, CheckoutInv, TreesInv, NEW release \in Releases,
         Read(release) \/ ReadBreaks(release)
  PROVE  CheckoutInv' /\ TreesInv'
<1>1. Fetched(release) /\ known' = known /\ running /\ running' = running
  BY DEF Read, ReadBreaks
<1>2. /\ Pulled(release)' /\ \A other \in Releases \union {None} : Pulled(other) => Pulled(other)'
      /\ \A other \in Releases : Content(other)' = Content(other)
                                   \/ (other = release /\ ~Pulled(other))
  BY <1>1, FetchedContent
<1>3. TreesInv'
  BY <1>1, <1>2 DEF TreesInv, Read, ReadBreaks
<1>4. CASE Read(release)
  <2>1. /\ worktree' = Content(release)' /\ current' = release /\ failed' = failed
        /\ read' = [read EXCEPT ![release] = @ \union {Content(release)'}]
    BY <1>4 DEF Read, ReadFrom
  <2>2. \A other \in Releases : other # release => read'[other] = read[other]
    BY <2>1 DEF TypeOK
  <2>3. read'[release] = read[release] \union {Content(release)'}
    BY <2>1 DEF TypeOK
  <2>4. "checkout" \notin failed => read[release] \subseteq {Content(release)'}
    BY <1>1, <1>2 DEF CheckoutInv
  <2>5. \A other \in Releases : read'[other] # {} => Pulled(other)'
    BY <1>1, <1>2, <2>2 DEF CheckoutInv
  <2>6. "checkout" \notin failed =>
          \A other \in Releases : read'[other] \subseteq {Content(other)'}
    BY <1>1, <1>2, <2>2, <2>3, <2>4 DEF CheckoutInv
  <2>7. current' # None => Pulled(current)'
    BY <1>2, <2>1 DEF Pulled
  <2>8. worktree' = Content(current)'
    BY <2>1 DEF Content
  <2> QED BY <1>3, <2>1, <2>5, <2>6, <2>7, <2>8 DEF CheckoutInv
<1>5. CASE ReadBreaks(release)
  <2>1. "checkout" \in failed' /\ current' = current /\ read' = read
    BY <1>5 DEF ReadBreaks
  <2> QED BY <1>1, <1>2, <1>3, <2>1 DEF CheckoutInv, TypeOK, Versions, Pulled
<1> QED BY <1>4, <1>5

LEMMA LookUpKeeps ==
  ASSUME TypeOK, CheckoutInv, TreesInv, NEW release \in Releases, LookUp(release)
  PROVE  CheckoutInv' /\ TreesInv'
<1>1. /\ known' = known /\ heads' = heads /\ running /\ running' = running
      /\ current' = current /\ worktree' = worktree /\ read' = read
      /\ trees' = [trees EXCEPT ![release] = Resolve(release)']
  BY DEF LookUp
<1>2. CASE Fetched(release) /\ UNCHANGED failed
  <2>1. /\ Pulled(release)'
        /\ \A other \in Releases \union {None} : Pulled(other) => Pulled(other)'
        /\ \A other \in Releases : Content(other)' = Content(other)
                                     \/ (other = release /\ ~Pulled(other))
    BY <1>1, <1>2, FetchedContent
  <2>2. CheckoutInv'
    <3>1. current # None => Pulled(current)' /\ Content(current)' = Content(current)
      BY <1>1, <2>1 DEF CheckoutInv, TypeOK, Versions, Content, Pulled
    <3> QED BY <1>1, <1>2, <2>1, <3>1 DEF CheckoutInv, Pulled, Content
  <2>3. release # Default => Resolve(release)' = Content(release)'
    BY DEF Resolve, Content
  <2>4. TreesInv'
    BY <1>1, <1>2, <2>1, <2>3 DEF TreesInv, TypeOK
  <2> QED BY <2>2, <2>4
<1>3. CASE FetchFails(release)
  <2>1. tracking' = tracking /\ pulled' = pulled /\ failed' = failed \union {"fetch"}
    BY <1>3 DEF FetchFails
  <2> QED BY <1>1, <2>1 DEF CheckoutInv, TreesInv, Pulled, Content
<1> QED BY <1>2, <1>3 DEF LookUp

LEMMA ClientStep ==
  ASSUME TypeOK, CheckoutInv, TreesInv, [Next]_vars
  PROVE  CheckoutInv' /\ TreesInv'
<1> USE DEF CheckoutInv, TreesInv, Pulled, Content
<1>1. CASE \E branch \in Branches : CommitTo(branch)
  BY <1>1 DEF CommitTo, refs, client, history
<1>2. CASE \E tag \in Tags : Tag(tag)
  BY <1>2 DEF Tag, refs, client, history
<1>3. CASE \E version \in Versions : Clone(version) \/ Open(version)
  BY <1>3, NewClientKnowsNothing DEF Clone, Open
<1>4. CASE OpenBreaks
  BY <1>4 DEF OpenBreaks, client, history
<1>5. CASE ReadCurrent
  <2>1. /\ current \in Releases /\ running
        /\ read' = [read EXCEPT ![current] = @ \union {worktree}]
    BY <1>5, NamesAssumption DEF ReadCurrent, ReadFrom, Asked, TypeOK, Versions, Releases
  <2>2. current # None
    BY <2>1, NamesAssumption
  <2> QED BY <1>5, <2>1, <2>2 DEF ReadCurrent, refs, client, TypeOK
<1>6. CASE EndSession \/ Killed
  BY <1>6 DEF EndSession, Killed
<1>7. CASE LoseDirectory
  BY <1>7 DEF LoseDirectory, client
<1>8. CASE UNCHANGED vars
  BY <1>8 DEF vars, refs, client, history
<1> QED BY <1>1, <1>2, <1>3, <1>4, <1>5, <1>6, <1>7, <1>8, ReadKeeps, LookUpKeeps DEF Next

(***************************************************************************)
(* Ages                                                                    *)
(***************************************************************************)
LEMMA FetchedAges ==
  ASSUME TypeOK, AgesInv, NEW release \in Releases, Fetched(release) \/ FetchFails(release)
  PROVE  \A branch \in Branches : tracking'[branch] = tracking[branch]
                                    \/ tracking'[branch] = branches[branch]
<1>1. CASE tracking' = tracking
  BY <1>1
<1>2. CASE Fetch(release)
  BY <1>2 DEF Fetch, TypeOK
<1>3. tracking' = tracking \/ Fetch(release)
  BY DEF Fetched, FetchFails
<1> QED BY <1>1, <1>2, <1>3

LEMMA AgesStep ==
  ASSUME TypeOK, AgesInv, [Next]_vars
  PROVE  AgesInv'
<1> USE CommitNumbers, TypedStep DEF AgesInv, TypeOK
<1>1. newest \in Int /\ newest' \in Int
  BY DEF Commits
<1>2. \A branch \in Branches :
        /\ branches[branch] \in Int /\ tracking[branch] \in Int /\ atStart[branch] \in Int
        /\ branches'[branch] \in Int /\ tracking'[branch] \in Int /\ atStart'[branch] \in Int
        /\ branch \in Releases
  <2>1. /\ branches \in [Branches -> Maybe] /\ tracking \in [Branches -> Maybe]
        /\ atStart \in [Branches -> Maybe]
    OBVIOUS
  <2>2. TypeOK'
    BY TypedStep
  <2>3. /\ branches' \in [Branches -> Maybe] /\ tracking' \in [Branches -> Maybe]
        /\ atStart' \in [Branches -> Maybe]
    BY <2>2
  <2>4. Maybe \subseteq Int /\ Branches \subseteq Releases
    BY CommitNumbers DEF Releases
  <2> HIDE DEF TypeOK, AgesInv
  <2> QED BY <2>1, <2>3, <2>4
<1>3. CASE \E branch \in Branches : CommitTo(branch)
  <2>1. PICK branch \in Branches : CommitTo(branch)
    BY <1>3
  <2>2. /\ newest' = newest + 1 /\ branches' = [branches EXCEPT ![branch] = newest']
        /\ tracking' = tracking /\ atStart' = atStart /\ trees' = trees /\ running' = running
    BY <2>1 DEF CommitTo, refs, client, history
  <2>3. \A other \in Branches : branches'[other] = branches[other] \/ branches'[other] = newest + 1
    BY <2>2
  <2>4. \A other \in Branches : /\ branches'[other] <= newest'
                                /\ branches[other] <= branches'[other]
    BY <1>1, <1>2, <2>2, <2>3
  <2> QED BY <1>1, <1>2, <2>2, <2>4
<1>4. CASE \E tag \in Tags : Tag(tag)
  BY <1>4 DEF Tag, refs, client, history
<1>5. CASE \E version \in Versions : Clone(version) \/ Open(version)
  <2>1. /\ branches' = branches /\ newest' = newest /\ tracking' = branches
        /\ atStart' = branches /\ trees' = NoTrees
    BY <1>5 DEF Clone, Open, NewClient, remote
  <2>2. \A branch \in Branches : trees'[branch] = Absent
    BY <1>2, <2>1 DEF NoTrees
  <2> QED BY <1>1, <1>2, <2>1, <2>2
<1>6. CASE OpenBreaks
  BY <1>1, <1>2, <1>6 DEF OpenBreaks, remote, client, history
<1>7. CASE ReadCurrent
  BY <1>7 DEF ReadCurrent, remote, refs, client
<1>8. CASE \E release \in Releases : Read(release) \/ ReadBreaks(release)
  <2>1. \A branch \in Branches : tracking'[branch] = tracking[branch]
                                   \/ tracking'[branch] = branches[branch]
    BY <1>8, FetchedAges DEF Read, ReadBreaks
  <2>2. branches' = branches /\ newest' = newest /\ atStart' = atStart
          /\ trees' = trees /\ running' = running
    BY <1>8 DEF Read, ReadBreaks, remote
  <2> QED BY <1>1, <1>2, <2>1, <2>2
<1>9. CASE \E release \in Releases : LookUp(release)
  <2>1. PICK release \in Releases : LookUp(release)
    BY <1>9
  <2>2. \A branch \in Branches : tracking'[branch] = tracking[branch]
                                   \/ tracking'[branch] = branches[branch]
    BY <2>1, FetchedAges DEF LookUp
  <2>3. /\ branches' = branches /\ newest' = newest /\ atStart' = atStart
        /\ running /\ running' = running
        /\ trees' = [trees EXCEPT ![release] = Resolve(release)']
    BY <2>1 DEF LookUp, remote
  <2>4. \A branch \in Branches : /\ tracking'[branch] >= atStart'[branch]
                                 /\ tracking'[branch] <= branches'[branch]
    BY <1>2, <2>2, <2>3
  <2>5. \A branch \in Branches \ {Default} :
          trees'[branch] = trees[branch] \/ trees'[branch] = tracking'[branch]
    BY <1>2, <2>3, NamesAssumption DEF Resolve
  <2> QED BY <1>1, <1>2, <2>3, <2>4, <2>5
<1>10. CASE EndSession \/ Killed
  BY <1>10 DEF EndSession, Killed, remote, refs, history
<1>11. CASE LoseDirectory
  BY <1>11 DEF LoseDirectory, remote, refs, client, history
<1>12. CASE UNCHANGED vars
  BY <1>12 DEF vars, remote, refs, client, history
<1> QED BY <1>3, <1>4, <1>5, <1>6, <1>7, <1>8, <1>9, <1>10, <1>11, <1>12 DEF Next

(***************************************************************************)
(* Theorems                                                                *)
(***************************************************************************)
ClientInv == TypeOK /\ CheckoutInv /\ TreesInv /\ AgesInv

LEMMA InitClient == Init => ClientInv
<1> SUFFICES ASSUME Init PROVE ClientInv
  OBVIOUS
<1>1. \A branch \in Branches : branches[branch] \in {0, 1} /\ atStart[branch] = branches[branch]
                               /\ tracking[branch] = 0
  BY DEF Init, Absent
<1>2. AgesInv
  BY <1>1 DEF AgesInv, Init
<1> QED BY <1>2, InitTyped DEF Init, ClientInv, CheckoutInv, TreesInv

LEMMA ClientInvariant == Spec => []ClientInv
<1>1. ClientInv /\ [Next]_vars => ClientInv'
  BY TypedStep, ClientStep, AgesStep DEF ClientInv
<1> QED BY <1>1, InitClient, PTL DEF Spec

\* All that a session reads for a release is of one commit, the one it has in
\* the clone, unless a checkout has failed.
THEOREM ReadsOneCommit == Spec => []ReadsRelease
<1>1. ClientInv => ReadsRelease
  BY DEF ClientInv, CheckoutInv, ReadsRelease
<1> QED BY <1>1, ClientInvariant, PTL

\* Lookups and reads of a release agree, unless a fetch or checkout has failed.
THEOREM LookupsAgree == Spec => []LookupsMatchReads
<1>1. ClientInv => LookupsMatchReads
  BY DEF ClientInv, CheckoutInv, TreesInv, LookupsMatchReads
<1> QED BY <1>1, ClientInvariant, PTL

\* Nothing a session sees of a branch is older than the session.
THEOREM NeverStale == Spec => []NothingStale
<1>1. ClientInv => NothingStale
  <2> SUFFICES ASSUME ClientInv, running, NEW branch \in Branches
               PROVE  /\ "checkout" \notin failed =>
                           \A commit \in read[branch] : commit >= atStart[branch]
                      /\ branch # Default /\ trees[branch] # Absent
                           => trees[branch] >= atStart[branch]
    BY DEF NothingStale
  <2>1. branch \in Releases /\ Content(branch) = tracking[branch]
    BY NamesAssumption DEF Releases, Content
  <2> QED BY <2>1 DEF ClientInv, CheckoutInv, AgesInv
<1> QED BY <1>1, ClientInvariant, PTL
==============================================================================
